---------------------------- MODULE ServicesProofs ----------------------------
(***************************************************************************)
(* Proofs about the services of MCServices for any value of their          *)
(* constants: the articles of the feeds and what is read of them, logins   *)
(* and sessions, the calls of a provider, the limits of the interface, and *)
(* with FeedFetchProofs the fetches.                                       *)
(***************************************************************************)
EXTENDS MCServices, FeedFetchProofs, FiniteSetTheorems, SequenceTheorems, WellFoundedInduction

-----------------------------------------------------------------------------
(* Articles and readers                                                    *)

\* The numbers of a feed follow its generations only while every override is of
\* an entry that is stored, and the other way round for what a refresh stores.
StoreInv == StoreTypeOK /\ SequencesFollowGenerations /\ OverridesDiffer

-----------------------------------------------------------------------------
(* The lemmas about the operators of the store                             *)

\* A bounded set of sequence numbers has a last one.
LEMMA LastExists ==
    ASSUME NEW T \in SUBSET Nat, T # {}, NEW bound \in Nat, \A t \in T : t <= bound
    PROVE  \E m \in T : \A t \in T : t <= m
<1> DEFINE U == {n \in Nat : \A t \in T : t <= n}
<1>1. U # {} /\ U \subseteq Nat
  OBVIOUS
<1>2. PICK m \in U : \A n \in U : <<n, m>> \notin OpToRel(<, Nat)
  BY <1>1, NatLessThanWellFounded, WFMin
<1>3. \A n \in U : ~(n < m)
  BY <1>2, Zenon DEF OpToRel
<1>4. m \in T
  <2> SUFFICES ASSUME m \notin T
               PROVE  FALSE
    OBVIOUS
  <2>1. \A t \in T : t < m
    BY <1>1
  <2>2. m - 1 \in U
    <3>1. m \in Nat /\ m > 0
      <4>1. PICK t \in T : t \in Nat /\ t < m
        BY <2>1
      <4> QED
        BY <1>1, <4>1
    <3>2. m - 1 \in Nat /\ \A t \in T : t <= m - 1
      BY <2>1, <3>1
    <3> QED
      BY <3>2
  <2> QED
    BY <1>1, <1>3, <2>2
<1> QED
  BY <1>4

\* Target is the number of an entry of the page, and no entry of the page has a
\* later one.
LEMMA TargetIsLast ==
    ASSUME StoreInv, NEW u \in Users, NEW f \in Feeds, NEW g \in Nat, OnPage(u, f, g) # {}
    PROVE  /\ Target(u, f, g) \in Nat
           /\ \E a \in OnPage(u, f, g) : entry[a].seq = Target(u, f, g)
           /\ \A a \in OnPage(u, f, g) : entry[a].seq <= Target(u, f, g)
<1> DEFINE P == OnPage(u, f, g)
           T == {entry[a].seq : a \in P}
<1>1. \A a \in P : a \in Articles /\ entry[a] # NULL /\ FeedOf[a] = f
  BY DEF OnPage, EntriesOf
<1>2. \A a \in P : entry[a].seq \in Nat /\ entry[a].seq <= head[f]
  BY <1>1 DEF StoreInv, StoreTypeOK, Row, SequencesFollowGenerations
<1>3. T \in SUBSET Nat /\ T # {} /\ head[f] \in Nat /\ \A t \in T : t <= head[f]
  BY <1>2 DEF StoreInv, StoreTypeOK
<1>4. \E m \in T : \A t \in T : t <= m
  BY <1>3, LastExists
<1>5. \E m \in T : \A a \in P : entry[a].seq <= m
  BY <1>4
<1>6. Target(u, f, g) \in T /\ \A a \in P : entry[a].seq <= Target(u, f, g)
  BY <1>5 DEF Target, MaxSeq
<1> QED
  BY <1>2, <1>6

\* A commit gives the new articles the numbers after the head and the next
\* generation, and leaves the other rows alone.
LEMMA Persisted ==
    ASSUME StoreInv, NEW f \in Feeds, NEW doc \in Documents(f), NEW time \in Dates,
           PersistFeed(f, doc, time)
    PROVE  LET new == Incoming(doc)
               n == Cardinality(new)
           IN  /\ new \subseteq Articles /\ n \in Nat
               /\ \A a \in new : /\ entry[a] = NULL /\ a \notin retired /\ FeedOf[a] = f
                                 /\ entry'[a] \in Row
                                 /\ head[f] < entry'[a].seq /\ entry'[a].seq <= head[f] + n
                                 /\ entry'[a].gen = generation'
               /\ \A a, b \in new : entry'[a].seq = entry'[b].seq => a = b
               /\ \A a \in Articles \ new : entry'[a] = entry[a]
               /\ generation' = IF new = {} THEN generation ELSE generation + 1
               /\ generation' <= MaxGeneration
               /\ head' = [head EXCEPT ![f] = @ + n]
               /\ DOMAIN entry' = Articles /\ entry' = [a \in Articles |-> entry'[a]]
               /\ UNCHANGED <<retired, sub, state>>
<1> DEFINE new == Incoming(doc)
           n == Cardinality(new)
           gen == NextGeneration(new)
<1>1. PICK S \in SUBSET {a \in Articles : FeedOf[a] = f} : doc \in [S -> Dates \cup {NULL}]
  BY DEF Documents
<1>2. new \subseteq S /\ \A a \in new : entry[a] = NULL /\ a \notin retired
  BY <1>1 DEF Incoming, Known
<1>3. IsFiniteSet(new) /\ n \in Nat
  BY <1>2, StoreAssumption, FS_Subset, FS_CardinalityType
<1>4. PICK o \in Numberings(f, new) :
         entry' = [a \in Articles |->
             CASE a \in new -> NewRow(a, doc, o[a], gen, time)
               [] a \in Known(doc) -> UpdatedRow(a, doc)
               [] OTHER -> entry[a]]
  BY DEF PersistFeed
<1>5. \A a \in new : o[a] \in head[f] + 1 .. head[f] + n
  BY DEF Numberings
<1>6. \A a, b \in new : o[a] = o[b] => a = b
  BY DEF Numberings
<1>7. head[f] \in Nat /\ generation \in Nat
  BY DEF StoreInv, StoreTypeOK
<1>8. gen = (IF new = {} THEN generation ELSE generation + 1) /\ gen \in Nat
  BY <1>7 DEF NextGeneration
<1>9. \A a \in new : entry'[a] = [seq |-> o[a], gen |-> gen,
                                  sort |-> IF doc[a] = NULL THEN time ELSE doc[a]]
  <2>1. ASSUME NEW a \in new
        PROVE  entry'[a] = NewRow(a, doc, o[a], gen, time)
    <3> HIDE DEF new, gen
    <3>1. a \in Articles
      BY <1>1, <1>2
    <3>2. entry'[a] = CASE a \in new -> NewRow(a, doc, o[a], gen, time)
                        [] a \in Known(doc) -> UpdatedRow(a, doc)
                        [] OTHER -> entry[a]
      BY <1>4, <3>1, Zenon
    <3>3. a \notin Known(doc)
      BY <1>2 DEF Known
    <3> QED
      BY <3>2, <3>3
  <2> QED
    BY <2>1 DEF NewRow
<1>10. \A a \in Articles \ new : entry'[a] = entry[a]
  BY <1>4 DEF UpdatedRow
<1>11. /\ generation' = gen /\ gen <= MaxGeneration
       /\ head' = [head EXCEPT ![f] = @ + n] /\ UNCHANGED <<retired, sub, state>>
  BY DEF PersistFeed
<1> HIDE DEF new, n, gen
<1>12. ASSUME NEW a \in new
       PROVE  /\ entry'[a] \in Row
              /\ head[f] < entry'[a].seq /\ entry'[a].seq <= head[f] + n
              /\ entry'[a].gen = generation' /\ entry'[a].seq = o[a]
  <2> DEFINE sort == IF doc[a] = NULL THEN time ELSE doc[a]
  <2>1. sort \in Dates
    BY <1>1, <1>2
  <2>2. o[a] \in Nat \ {0} /\ head[f] < o[a] /\ o[a] <= head[f] + n
    BY <1>3, <1>5, <1>7
  <2>3. entry'[a] = [seq |-> o[a], gen |-> gen, sort |-> sort]
    BY <1>9
  <2> HIDE DEF sort
  <2> QED
    BY <1>8, <1>11, <2>1, <2>2, <2>3 DEF Row
<1>13. DOMAIN entry' = Articles /\ entry' = [a \in Articles |-> entry'[a]]
  BY <1>4
<1> QED
  BY <1>1, <1>2, <1>3, <1>6, <1>8, <1>10, <1>11, <1>12, <1>13 DEF new, n, gen

\* Rows, frontiers and states are never mistaken for a missing one.
LEMMA RowsAreThere ==
    ASSUME StoreTypeOK
    PROVE  /\ \A a \in Articles : entry[a] # NULL <=> entry[a] \in Row
           /\ \A u \in Users, f \in Feeds : sub[<<u, f>>] # NULL <=> sub[<<u, f>>] \in Frontier
           /\ \A u \in Users, a \in Articles : state[<<u, a>>] # NULL <=> state[<<u, a>>] \in EntryState
BY RowAssumption DEF StoreTypeOK

\* A new subscription reads a tail of its feed.
LEMMA InitialFrontierType ==
    ASSUME StoreTypeOK, NEW f \in Feeds
    PROVE  InitialFrontier(f) \in Frontier
BY StoreAssumption DEF StoreTypeOK, InitialFrontier, Frontier

-----------------------------------------------------------------------------
(* The invariant, action by action                                         *)

\* Nothing is stored and nobody subscribes at first.
THEOREM StoreStart == StoreInit => StoreInv
<1> SUFFICES ASSUME StoreInit
             PROVE  StoreInv
  OBVIOUS
<1>1. StoreTypeOK
  BY StoreAssumption DEF StoreInit, StoreTypeOK
<1>2. SequencesFollowGenerations /\ OverridesDiffer
  BY DEF StoreInit, SequencesFollowGenerations, OverridesDiffer
<1> QED
  BY <1>1, <1>2 DEF StoreInv

\* A commit keeps the numbers in the order of the generations.
LEMMA RefreshKeeps == StoreInv /\ Refresh => StoreInv'
<1> SUFFICES ASSUME StoreInv, Refresh
             PROVE  StoreInv'
  OBVIOUS
<1>1. PICK f \in Feeds : \E doc \in Documents(f), time \in Dates : PersistFeed(f, doc, time)
  <2>1. (CHOOSE d \in Dates : TRUE) \in Dates
    BY StoreAssumption
  <2> QED
    BY <2>1 DEF Refresh
<1>2. PICK doc \in Documents(f), time \in Dates : PersistFeed(f, doc, time)
  BY <1>1
<1> DEFINE new == Incoming(doc)
           n == Cardinality(new)
<1>3. /\ new \subseteq Articles /\ n \in Nat
      /\ \A a \in new : /\ entry[a] = NULL /\ a \notin retired /\ FeedOf[a] = f
                        /\ entry'[a] \in Row
                        /\ head[f] < entry'[a].seq /\ entry'[a].seq <= head[f] + n
                        /\ entry'[a].gen = generation'
      /\ \A a, b \in new : entry'[a].seq = entry'[b].seq => a = b
      /\ \A a \in Articles \ new : entry'[a] = entry[a]
      /\ generation' = IF new = {} THEN generation ELSE generation + 1
      /\ generation' <= MaxGeneration
      /\ head' = [head EXCEPT ![f] = @ + n]
      /\ entry' = [a \in Articles |-> entry'[a]]
      /\ UNCHANGED <<retired, sub, state>>
  BY <1>2, Persisted
<1> HIDE DEF new, n
<1>4. /\ generation \in Nat /\ MaxGeneration \in Nat /\ head \in [Feeds -> Nat]
      /\ entry \in [Articles -> Row \cup {NULL}] /\ FeedOf \in [Articles -> Feeds]
  BY StoreAssumption DEF StoreInv, StoreTypeOK
<1>5. generation' \in 0 .. MaxGeneration /\ generation <= generation'
      /\ (new # {} => generation' = generation + 1)
  BY <1>3, <1>4
<1>6. StoreTypeOK'
  <2>1. \A a \in Articles : entry'[a] \in Row \cup {NULL}
    BY <1>3, <1>4
  <2>2. entry' \in [Articles -> Row \cup {NULL}]
    BY <1>3, <2>1
  <2>3. head' \in [Feeds -> Nat]
    BY <1>3, <1>4
  <2> QED
    BY <1>3, <1>5, <2>2, <2>3 DEF StoreInv, StoreTypeOK
<1>7. \A a \in Articles : entry[a] # NULL => entry'[a] = entry[a]
  BY <1>3
<1>8. /\ head'[f] = head[f] + n /\ head[f] \in Nat
      /\ \A g \in Feeds : head'[g] \in Nat /\ head[g] <= head'[g]
  BY <1>3, <1>4
<1>9. \A a \in Articles \ new : entry[a] # NULL =>
         /\ a \notin retired /\ entry[a] \in Row
         /\ entry[a].seq <= head[FeedOf[a]] /\ entry[a].gen <= generation
  BY <1>4 DEF StoreInv, SequencesFollowGenerations
<1>10. \A a \in Articles : entry'[a] # NULL =>
         /\ a \notin retired /\ entry'[a] \in Row
         /\ entry'[a].seq <= head'[FeedOf[a]] /\ entry'[a].gen <= generation'
  <2> SUFFICES ASSUME NEW a \in Articles, entry'[a] # NULL
               PROVE  /\ a \notin retired /\ entry'[a] \in Row
                      /\ entry'[a].seq <= head'[FeedOf[a]] /\ entry'[a].gen <= generation'
    OBVIOUS
  <2>1. CASE a \in new
    BY <1>3, <1>5, <1>8, <2>1
  <2>2. CASE a \notin new
    <3>1. entry'[a] = entry[a] /\ FeedOf[a] \in Feeds
      BY <1>3, <1>4, <2>2
    <3>2. entry[a] \in Row /\ entry[a].seq \in Nat /\ entry[a].gen \in Nat
      BY <1>9, <2>2, <3>1 DEF Row
    <3> QED
      BY <1>4, <1>5, <1>8, <1>9, <2>2, <3>1, <3>2
  <2> QED
    BY <2>1, <2>2
<1>11. ASSUME NEW a \in Articles, NEW b \in Articles, entry'[a] # NULL, entry'[b] # NULL,
              FeedOf[a] = FeedOf[b]
       PROVE  /\ entry'[a].seq = entry'[b].seq => a = b
              /\ entry'[a].gen < entry'[b].gen => entry'[a].seq < entry'[b].seq
  <2>1. \A c \in new : /\ entry'[c] \in Row /\ entry'[c].seq \in Nat /\ entry'[c].gen = generation + 1
                       /\ head[f] < entry'[c].seq /\ FeedOf[c] = f
    BY <1>3, <1>5 DEF Row
  <2>2. \A c \in Articles \ new : entry'[c] # NULL =>
           /\ entry'[c] = entry[c] /\ entry[c].seq \in Nat /\ entry[c].gen \in Nat
           /\ entry[c].seq <= head[FeedOf[c]] /\ entry[c].gen <= generation
    BY <1>3, <1>9 DEF Row
  <2>3. CASE a \in new /\ b \in new
    BY <1>3, <1>4, <2>1, <2>3
  <2>4. CASE a \in new /\ b \notin new
    BY <1>4, <1>8, <1>11, <2>1, <2>2, <2>4
  <2>5. CASE a \notin new /\ b \in new
    BY <1>4, <1>8, <1>11, <2>1, <2>2, <2>5
  <2>6. CASE a \notin new /\ b \notin new
    BY <1>11, <2>2, <2>6 DEF StoreInv, SequencesFollowGenerations
  <2> QED
    BY <2>3, <2>4, <2>5, <2>6
<1>12. SequencesFollowGenerations'
  BY <1>3, <1>10, <1>11 DEF SequencesFollowGenerations
<1>13. OverridesDiffer'
  <2>1. \A u \in Users, a \in Articles : state[<<u, a>>] # NULL => entry[a] # NULL
    BY DEF StoreInv, OverridesDiffer, Visible
  <2> QED
    BY <1>3, <1>7, <2>1 DEF StoreInv, OverridesDiffer, Visible, BaseRead
<1> QED
  BY <1>6, <1>12, <1>13 DEF StoreInv

\* What a subscriber reads belongs to a feed that is subscribed to.
LEMMA StatesAreSeen ==
    ASSUME StoreInv, NEW u \in Users, NEW a \in Articles, state[<<u, a>>] # NULL
    PROVE  /\ state[<<u, a>>] \in EntryState
           /\ entry[a] \in Row /\ FeedOf[a] \in Feeds
           /\ sub[<<u, FeedOf[a]>>] \in Frontier
<1>1. entry[a] # NULL /\ sub[<<u, FeedOf[a]>>] # NULL
  BY DEF StoreInv, OverridesDiffer, Visible
<1> QED
  BY <1>1, StoreAssumption, RowsAreThere DEF StoreInv

\* Subscriptions that start, end or move take their states along.
LEMMA OrganizeKeeps == StoreInv /\ Organize => StoreInv'
<1> SUFFICES ASSUME StoreInv, NEW u \in Users, NEW f \in Feeds,
                    \/ Subscribe(u, f)
                    \/ Unsubscribe(u, f)
                    \/ \E g \in Feeds : MoveSubscription(u, f, g)
             PROVE  StoreInv'
  BY DEF Organize
<1>1. UNCHANGED <<generation, head, entry, retired>>
  BY DEF Subscribe, Unsubscribe, MoveSubscription, store
<1>2. SequencesFollowGenerations'
  BY <1>1 DEF StoreInv, SequencesFollowGenerations
<1>3. \A g \in Feeds : InitialFrontier(g) \in Frontier
  BY InitialFrontierType DEF StoreInv
<1>4. /\ sub \in [Users \X Feeds -> Frontier \cup {NULL}]
      /\ state \in [Users \X Articles -> EntryState \cup {NULL}]
      /\ FeedOf \in [Articles -> Feeds]
  BY StoreAssumption DEF StoreInv, StoreTypeOK
<1>5. \A v \in Users, a \in Articles : state[<<v, a>>] # NULL => sub[<<v, FeedOf[a]>>] # NULL
  BY DEF StoreInv, OverridesDiffer, Visible
<1> DEFINE Together ==
             /\ sub' \in [Users \X Feeds -> Frontier \cup {NULL}]
             /\ state' \in [Users \X Articles -> EntryState \cup {NULL}]
             /\ \A v \in Users, a \in Articles : state'[<<v, a>>] # NULL =>
                   /\ state'[<<v, a>>] = state[<<v, a>>]
                   /\ sub'[<<v, FeedOf[a]>>] = sub[<<v, FeedOf[a]>>]
<1>6. Together
  <2>1. CASE Subscribe(u, f)
    BY <1>3, <1>4, <1>5, <2>1 DEF Subscribe, Subscribed
  <2>2. CASE Unsubscribe(u, f)
    BY <1>4, <2>2 DEF Unsubscribe, WithoutStates
  <2>3. ASSUME NEW g \in Feeds, MoveSubscription(u, f, g)
        PROVE  Together
    <3>1. /\ f # g /\ sub[<<u, g>>] = NULL
          /\ state' = [p \in Users \X Articles |->
                          IF p[1] = u /\ FeedOf[p[2]] = f THEN NULL ELSE state[p]]
      BY <2>3 DEF MoveSubscription, Subscribed, WithoutStates
    <3>2. sub' = [[sub EXCEPT ![<<u, f>>] = NULL] EXCEPT ![<<u, g>>] = InitialFrontier(g)]
      BY <2>3 DEF MoveSubscription
    <3>3. /\ sub' \in [Users \X Feeds -> Frontier \cup {NULL}]
          /\ \A v \in Users, h \in Feeds :
                sub'[<<v, h>>] = IF v = u /\ h = g THEN InitialFrontier(g)
                                 ELSE IF v = u /\ h = f THEN NULL ELSE sub[<<v, h>>]
      BY <1>3, <1>4, <3>2
    <3>4. /\ state' \in [Users \X Articles -> EntryState \cup {NULL}]
          /\ \A v \in Users, a \in Articles :
                state'[<<v, a>>] = IF v = u /\ FeedOf[a] = f THEN NULL ELSE state[<<v, a>>]
      BY <1>4, <3>1
    <3> QED
      BY <1>4, <1>5, <3>1, <3>3, <3>4
  <2> QED
    BY <2>1, <2>2, <2>3
<1>7. StoreTypeOK'
  BY <1>1, <1>6 DEF StoreInv, StoreTypeOK
<1>8. OverridesDiffer'
  BY <1>1, <1>6 DEF StoreInv, OverridesDiffer, Visible, BaseRead
<1> QED
  BY <1>2, <1>7, <1>8 DEF StoreInv

\* An edit keeps an override only where it differs.
LEMMA AppliedDiffers ==
    ASSUME StoreInv, NEW u \in Users, NEW a \in Articles, Visible(u, a),
           NEW read \in BOOLEAN \cup {NULL}, NEW starred \in BOOLEAN \cup {NULL}
    PROVE  LET s == Applied(u, a, read, starred)
           IN  s # NULL => /\ s \in EntryState
                           /\ s.read # NULL \/ s.starred
                           /\ s.read # NULL => s.read # BaseRead(u, a)
<1> DEFINE base == BaseRead(u, a)
           override == CASE read = NULL -> OverrideOf(u, a)
                         [] read = base -> NULL
                         [] OTHER -> read
           star == IF starred = NULL THEN Starred(u, a) ELSE starred
           s == Applied(u, a, read, starred)
<1>1. base \in BOOLEAN
  BY DEF BaseRead
<1>2. /\ OverrideOf(u, a) \in BOOLEAN \cup {NULL}
      /\ OverrideOf(u, a) # NULL => OverrideOf(u, a) # base
  <2>1. CASE state[<<u, a>>] = NULL
    BY <2>1 DEF OverrideOf
  <2>2. CASE state[<<u, a>>] # NULL
    BY <2>2, StatesAreSeen DEF OverrideOf, StoreInv, OverridesDiffer, EntryState
  <2> QED
    BY <2>1, <2>2
<1>3. Starred(u, a) \in BOOLEAN
  <2>1. CASE state[<<u, a>>] = NULL
    BY <2>1 DEF Starred
  <2>2. CASE state[<<u, a>>] # NULL
    BY <2>2, StatesAreSeen DEF Starred, EntryState
  <2> QED
    BY <2>1, <2>2
<1>4. s = IF override = NULL /\ ~star THEN NULL ELSE [read |-> override, starred |-> star]
  BY DEF Applied
<1> HIDE DEF base
<1>5. NULL \notin BOOLEAN
  BY StoreAssumption
<1>6. /\ override \in BOOLEAN \cup {NULL}
      /\ override # NULL => override # base
  <2>1. CASE read = NULL
    BY <1>2, <1>5, <1>1, <2>1
  <2>2. CASE read # NULL /\ read = base
    BY <2>2
  <2>3. CASE read # NULL /\ read # base
    BY <2>3
  <2> QED
    BY <2>1, <2>2, <2>3
<1>7. star \in BOOLEAN
  BY <1>3
<1> HIDE DEF override, star, s
<1>8. CASE override = NULL /\ ~star
  BY <1>4, <1>8 DEF s
<1>9. CASE ~(override = NULL /\ ~star)
  <2>1. s = [read |-> override, starred |-> star]
    BY <1>4, <1>9
  <2>2. s.read = override /\ s.starred = star
    BY <2>1
  <2>3. s \in EntryState
    BY <1>6, <1>7, <2>1 DEF EntryState
  <2> QED
    BY <1>6, <1>7, <1>9, <2>2, <2>3 DEF s, base
<1> QED
  BY <1>8, <1>9

\* An edit changes the state of one entry that its user can see.
LEMMA UpdateKeeps ==
    ASSUME StoreInv, NEW u \in Users, NEW a \in Articles,
           NEW read \in BOOLEAN \cup {NULL}, NEW starred \in BOOLEAN \cup {NULL},
           UpdateState(u, a, read, starred)
    PROVE  StoreInv'
<1> DEFINE s == Applied(u, a, read, starred)
<1>1. /\ UNCHANGED <<generation, head, entry, retired, sub>>
      /\ state' = [state EXCEPT ![<<u, a>>] = s]
      /\ Visible(u, a)
  BY DEF UpdateState, store
<1>2. s # NULL => /\ s \in EntryState
                  /\ s.read # NULL \/ s.starred
                  /\ s.read # NULL => s.read # BaseRead(u, a)
  BY <1>1, AppliedDiffers
<1> HIDE DEF s
<1>3. state \in [Users \X Articles -> EntryState \cup {NULL}]
  BY DEF StoreInv, StoreTypeOK
<1>4. /\ state' \in [Users \X Articles -> EntryState \cup {NULL}]
      /\ state'[<<u, a>>] = s
      /\ \A v \in Users, b \in Articles : v # u \/ b # a => state'[<<v, b>>] = state[<<v, b>>]
  BY <1>1, <1>2, <1>3
<1>5. StoreTypeOK'
  BY <1>1, <1>4 DEF StoreInv, StoreTypeOK
<1>6. SequencesFollowGenerations'
  BY <1>1 DEF StoreInv, SequencesFollowGenerations
<1>7. \A v \in Users, b \in Articles : /\ Visible(v, b)' = Visible(v, b)
                                       /\ BaseRead(v, b)' = BaseRead(v, b)
  BY <1>1 DEF Visible, BaseRead
<1>8. OverridesDiffer'
  <2> SUFFICES ASSUME NEW v \in Users, NEW b \in Articles, state'[<<v, b>>] # NULL
               PROVE  /\ Visible(v, b)'
                      /\ state'[<<v, b>>].read # NULL \/ state'[<<v, b>>].starred
                      /\ state'[<<v, b>>].read # NULL => state'[<<v, b>>].read # BaseRead(v, b)'
    BY DEF OverridesDiffer
  <2>1. CASE v = u /\ b = a
    BY <1>1, <1>2, <1>4, <1>7, <2>1
  <2>2. CASE v # u \/ b # a
    BY <1>4, <1>7, <2>2 DEF StoreInv, OverridesDiffer
  <2> QED
    BY <2>1, <2>2
<1> QED
  BY <1>5, <1>6, <1>8 DEF StoreInv

\* What marking a page does to each entry that its user can see.
LEMMA Marking ==
    ASSUME StoreInv, NEW u \in Users, NEW scope \in SUBSET Feeds, NEW g \in Nat,
           MarkRead(u, scope, g), NEW v \in Users, NEW a \in Articles
    PROVE  LET t == Target(u, FeedOf[a], g)
               hit == v = u /\ FeedOf[a] \in Marked(u, scope, g)
           IN  /\ FeedOf[a] \in Feeds
               /\ sub'[<<v, FeedOf[a]>>] = IF hit THEN Advanced(u, FeedOf[a], t)
                                                  ELSE sub[<<v, FeedOf[a]>>]
               /\ state'[<<v, a>>] = IF hit THEN Cleared(u, a, t) ELSE state[<<v, a>>]
               /\ hit => t \in Nat
<1> DEFINE target == [f \in Marked(u, scope, g) |-> Target(u, f, g)]
<1>1. /\ sub' = [p \in Users \X Feeds |->
            IF p[1] = u /\ p[2] \in DOMAIN target
            THEN Advanced(u, p[2], target[p[2]]) ELSE sub[p]]
      /\ state' = [p \in Users \X Articles |->
            IF p[1] = u /\ FeedOf[p[2]] \in DOMAIN target
            THEN Cleared(u, p[2], target[FeedOf[p[2]]]) ELSE state[p]]
  BY DEF MarkRead
<1>2. FeedOf[a] \in Feeds
  BY StoreAssumption
<1>3. DOMAIN target = Marked(u, scope, g)
  OBVIOUS
<1>4. \A f \in Marked(u, scope, g) : target[f] = Target(u, f, g)
  OBVIOUS
<1> HIDE DEF target
<1>5. sub'[<<v, FeedOf[a]>>] = IF v = u /\ FeedOf[a] \in DOMAIN target
                               THEN Advanced(u, FeedOf[a], target[FeedOf[a]])
                               ELSE sub[<<v, FeedOf[a]>>]
  BY <1>1, <1>2
<1>6. state'[<<v, a>>] = IF v = u /\ FeedOf[a] \in DOMAIN target
                         THEN Cleared(u, a, target[FeedOf[a]]) ELSE state[<<v, a>>]
  BY <1>1
<1>7. FeedOf[a] \in Marked(u, scope, g) => Target(u, FeedOf[a], g) \in Nat
  BY <1>2, TargetIsLast DEF Marked
<1> QED
  BY <1>2, <1>3, <1>4, <1>5, <1>6, <1>7

\* The frontier after a mark, and the states that stay, of the feeds it marks.
LEMMA MarkedEntry ==
    ASSUME StoreInv, NEW u \in Users, NEW a \in Articles, NEW t \in Nat,
           sub[<<u, FeedOf[a]>>] \in Frontier
    PROVE  LET s == state[<<u, a>>]
               c == Cleared(u, a, t)
               new == Advanced(u, FeedOf[a], t)
           IN  /\ new \in Frontier /\ new.start = sub[<<u, FeedOf[a]>>].start
               /\ entry[a] # NULL =>
                     (entry[a].seq <= new.through <=> BaseRead(u, a) \/ entry[a].seq <= t)
               /\ c \in EntryState \cup {NULL}
               /\ c # NULL => /\ s # NULL
                              /\ c.read # NULL \/ c.starred
                              /\ c.starred = s.starred
                              /\ c.read # NULL => c.read = s.read /\ ~(entry[a].seq <= t)
               /\ s # NULL /\ entry[a].seq > t => c = s
<1> DEFINE s == state[<<u, a>>]
           c == Cleared(u, a, t)
           old == sub[<<u, FeedOf[a]>>]
           new == Advanced(u, FeedOf[a], t)
<1>1. new = [old EXCEPT !.through = IF old.through < t THEN t ELSE old.through]
  BY DEF Advanced
<1>2. /\ new \in Frontier /\ new.start = old.start
      /\ new.through = IF old.through < t THEN t ELSE old.through
  BY <1>1 DEF Frontier
<1>3. old.through \in Nat
  BY DEF Frontier
<1>4. entry[a] # NULL => entry[a].seq \in Nat
  BY RowsAreThere DEF StoreInv, Row
<1>5. entry[a] # NULL => (entry[a].seq <= new.through <=> BaseRead(u, a) \/ entry[a].seq <= t)
  BY <1>2, <1>3, <1>4 DEF BaseRead
<1>6. CASE s = NULL
  BY <1>2, <1>5, <1>6 DEF Cleared
<1>7. CASE s # NULL
  <2>1. /\ s \in EntryState /\ Visible(u, a) /\ (s.read # NULL \/ s.starred)
        /\ entry[a].seq \in Nat
    BY <1>4, <1>7, StatesAreSeen DEF StoreInv, OverridesDiffer, Visible
  <2>2. c = IF s.read = NULL \/ entry[a].seq > t THEN s
            ELSE IF s.starred THEN [s EXCEPT !.read = NULL] ELSE NULL
    BY <1>7, <2>1 DEF Cleared
  <2>3. CASE s.read = NULL \/ entry[a].seq > t
    BY <1>2, <1>5, <1>7, <2>1, <2>2, <2>3
  <2>4. CASE ~(s.read = NULL \/ entry[a].seq > t) /\ s.starred
    <3>1. c = [s EXCEPT !.read = NULL]
      BY <2>2, <2>4
    <3>2. c.read = NULL /\ c.starred = s.starred /\ c \in EntryState
      BY <2>1, <3>1 DEF EntryState
    <3> QED
      BY <1>2, <1>5, <1>7, <2>1, <2>4, <3>2
  <2>5. CASE ~(s.read = NULL \/ entry[a].seq > t) /\ ~s.starred
    BY <1>2, <1>5, <2>1, <2>2, <2>5
  <2> QED
    BY <2>3, <2>4, <2>5
<1> QED
  BY <1>6, <1>7

\* A mark moves frontiers forward and drops the overrides that it makes void.
LEMMA MarkKeeps ==
    ASSUME StoreInv, NEW u \in Users, NEW scope \in SUBSET Feeds, NEW g \in Nat,
           MarkRead(u, scope, g)
    PROVE  StoreInv'
<1>1. UNCHANGED <<generation, head, entry, retired>>
  BY DEF MarkRead, store
<1>2. SequencesFollowGenerations'
  BY <1>1 DEF StoreInv, SequencesFollowGenerations
<1>3. \A f \in Marked(u, scope, g) : /\ f \in Feeds /\ sub[<<u, f>>] \in Frontier
                                     /\ Target(u, f, g) \in Nat
  BY TargetIsLast, RowsAreThere DEF Marked, Subscribed, StoreInv
<1>4. sub' \in [Users \X Feeds -> Frontier \cup {NULL}]
  <2> DEFINE target == [f \in Marked(u, scope, g) |-> Target(u, f, g)]
  <2>1. sub' = [p \in Users \X Feeds |->
           IF p[1] = u /\ p[2] \in DOMAIN target
           THEN Advanced(u, p[2], target[p[2]]) ELSE sub[p]]
    BY DEF MarkRead
  <2>2. DOMAIN target = Marked(u, scope, g)
        /\ \A f \in Marked(u, scope, g) : target[f] = Target(u, f, g)
    OBVIOUS
  <2> HIDE DEF target
  <2>3. \A f \in Marked(u, scope, g) : Advanced(u, f, target[f]) \in Frontier
    BY <1>3, <2>2 DEF Advanced, Frontier
  <2>4. sub \in [Users \X Feeds -> Frontier \cup {NULL}]
    BY DEF StoreInv, StoreTypeOK
  <2>5. ASSUME NEW p \in Users \X Feeds
        PROVE  sub'[p] \in Frontier \cup {NULL}
    BY <2>1, <2>2, <2>3, <2>4
  <2> QED
    BY <2>1, <2>5
<1>5. ASSUME NEW v \in Users, NEW a \in Articles
      PROVE  /\ state'[<<v, a>>] \in EntryState \cup {NULL}
             /\ state'[<<v, a>>] # NULL =>
                   /\ Visible(v, a)'
                   /\ state'[<<v, a>>].read # NULL \/ state'[<<v, a>>].starred
                   /\ state'[<<v, a>>].read # NULL => state'[<<v, a>>].read # BaseRead(v, a)'
  <2> DEFINE f == FeedOf[a]
             t == Target(u, f, g)
             hit == v = u /\ f \in Marked(u, scope, g)
  <2>1. /\ f \in Feeds
        /\ sub'[<<v, f>>] = IF hit THEN Advanced(u, f, t) ELSE sub[<<v, f>>]
        /\ state'[<<v, a>>] = IF hit THEN Cleared(u, a, t) ELSE state[<<v, a>>]
        /\ hit => t \in Nat
    BY Marking
  <2> HIDE DEF t, hit
  <2>2. CASE ~hit
    <3>1. Visible(v, a)' = Visible(v, a) /\ BaseRead(v, a)' = BaseRead(v, a)
      BY <1>1, <2>1, <2>2 DEF Visible, BaseRead
    <3>2. state[<<v, a>>] \in EntryState \cup {NULL}
      BY DEF StoreInv, StoreTypeOK
    <3> QED
      BY <2>1, <2>2, <3>1, <3>2 DEF StoreInv, OverridesDiffer
  <2>3. CASE hit
    <3> DEFINE s == state[<<u, a>>]
               c == Cleared(u, a, t)
               new == Advanced(u, f, t)
    <3>1. sub[<<u, f>>] \in Frontier /\ v = u
      BY <1>3, <2>3 DEF hit
    <3>2. /\ new \in Frontier /\ new.start = sub[<<u, f>>].start
          /\ entry[a] # NULL =>
                (entry[a].seq <= new.through <=> BaseRead(u, a) \/ entry[a].seq <= t)
          /\ c \in EntryState \cup {NULL}
          /\ c # NULL => /\ s # NULL
                         /\ c.read # NULL \/ c.starred
                         /\ c.read # NULL => c.read = s.read /\ ~(entry[a].seq <= t)
      BY <2>1, <2>3, <3>1, MarkedEntry
    <3>3. sub'[<<v, f>>] = new /\ state'[<<v, a>>] = c
      BY <2>1, <2>3
    <3>4. new # NULL
      BY <3>2, RowAssumption
    <3> HIDE DEF c, new
    <3>5. s # NULL => /\ Visible(u, a)
                      /\ s.read # NULL => s.read # BaseRead(u, a)
      BY DEF StoreInv, OverridesDiffer
    <3>6. ASSUME c # NULL
          PROVE  Visible(v, a)'
      BY <1>1, <3>1, <3>2, <3>3, <3>4, <3>5, <3>6 DEF Visible
    <3>7. ASSUME c # NULL, c.read # NULL
          PROVE  c.read # BaseRead(v, a)'
      <4>1. entry[a] # NULL /\ s.read # BaseRead(u, a) /\ c.read = s.read
        BY <3>2, <3>5, <3>7 DEF Visible
      <4>2. BaseRead(v, a)' = (entry[a].seq <= new.through)
        BY <1>1, <3>3 DEF BaseRead
      <4>3. BaseRead(v, a)' = BaseRead(u, a)
        BY <3>2, <3>7, <4>1, <4>2 DEF BaseRead
      <4> QED
        BY <4>1, <4>3
    <3> QED
      BY <3>2, <3>3, <3>6, <3>7
  <2> QED
    BY <2>2, <2>3
<1>6. StoreTypeOK'
  <2>1. DOMAIN state' = Users \X Articles /\ state' = [p \in Users \X Articles |-> state'[p]]
    BY DEF MarkRead
  <2>2. \A p \in Users \X Articles : state'[p] \in EntryState \cup {NULL}
    BY <1>5
  <2>3. state' \in [Users \X Articles -> EntryState \cup {NULL}]
    BY <2>1, <2>2
  <2> QED
    BY <1>1, <1>4, <2>3 DEF StoreInv, StoreTypeOK
<1>7. OverridesDiffer'
  BY <1>5 DEF OverridesDiffer
<1> QED
  BY <1>2, <1>6, <1>7 DEF StoreInv

\* Edits and marks keep the invariant.
LEMMA ReadKeeps == StoreInv /\ Read => StoreInv'
<1> SUFFICES ASSUME StoreInv, Read
             PROVE  StoreInv'
  OBVIOUS
<1>1. ASSUME NEW u \in Users, NEW a \in Articles,
             NEW read \in BOOLEAN \cup {NULL}, NEW starred \in BOOLEAN \cup {NULL},
             UpdateState(u, a, read, starred)
      PROVE  StoreInv'
  BY <1>1, UpdateKeeps
<1>2. ASSUME NEW u \in Users, NEW scope \in SUBSET {f \in Feeds : Subscribed(u, f)},
             NEW g \in 0 .. generation, MarkRead(u, scope, g)
      PROVE  StoreInv'
  <2>1. scope \in SUBSET Feeds /\ g \in Nat
    BY DEF StoreInv, StoreTypeOK
  <2> QED
    BY <1>2, <2>1, MarkKeeps
<1> QED
  BY <1>1, <1>2 DEF Read

\* Retention takes the states of an entry with it.
LEMMA RetainKeeps == StoreInv /\ Retain => StoreInv'
<1> SUFFICES ASSUME StoreInv, NEW S, NEW cutoff, NEW worked,
                    PurgeReadArticles(S, cutoff, worked)
             PROVE  StoreInv'
  BY DEF Retain
<1>1. /\ S \subseteq Articles /\ UNCHANGED <<generation, head, sub>>
      /\ retired' = retired \cup S
      /\ entry' = [a \in Articles |-> IF a \in S THEN NULL ELSE entry[a]]
      /\ state' = [p \in Users \X Articles |-> IF p[2] \in S THEN NULL ELSE state[p]]
  BY DEF PurgeReadArticles, Purgeable
<1>2. /\ entry \in [Articles -> Row \cup {NULL}]
      /\ state \in [Users \X Articles -> EntryState \cup {NULL}]
  BY DEF StoreInv, StoreTypeOK
<1>3. /\ entry' \in [Articles -> Row \cup {NULL}]
      /\ state' \in [Users \X Articles -> EntryState \cup {NULL}]
  BY <1>1, <1>2
<1>4. StoreTypeOK'
  BY <1>1, <1>3 DEF StoreInv, StoreTypeOK
<1>5. \A a \in Articles : entry'[a] # NULL => entry'[a] = entry[a] /\ a \notin S
  BY <1>1
<1>6. SequencesFollowGenerations'
  BY <1>1, <1>5 DEF StoreInv, SequencesFollowGenerations
<1>7. \A u \in Users, a \in Articles : state'[<<u, a>>] # NULL =>
         state'[<<u, a>>] = state[<<u, a>>] /\ entry'[a] = entry[a]
  BY <1>1
<1>8. OverridesDiffer'
  BY <1>1, <1>7 DEF StoreInv, OverridesDiffer, Visible, BaseRead
<1> QED
  BY <1>4, <1>6, <1>8 DEF StoreInv

\* Every step of the store keeps the invariant.
THEOREM StoreKept == StoreInv /\ [StoreNext]_storeVars => StoreInv'
<1>1. StoreInv /\ UNCHANGED storeVars => StoreInv'
  BY DEF storeVars, StoreInv, StoreTypeOK, SequencesFollowGenerations, OverridesDiffer, Visible, BaseRead
<1> QED
  BY <1>1, RefreshKeeps, OrganizeKeeps, ReadKeeps, RetainKeeps DEF StoreNext

\* Types, numbers and overrides hold at any time.
THEOREM StoreSafe == StoreSpec => []StoreInv
BY StoreStart, StoreKept, PTL DEF StoreSpec

\* An override contradicts the frontier, whatever the order of edits, marks,
\* moves and purges.
THEOREM OverridesStand == StoreSpec => []OverridesDiffer
<1>1. StoreInv => OverridesDiffer
  BY DEF StoreInv
<1> QED
  BY <1>1, StoreSafe, PTL

-----------------------------------------------------------------------------
(* What a step may never do                                                *)

\* A mark reads what the page shows; no other entry changes.
LEMMA MarkReadsPage ==
    ASSUME StoreInv, NEW u \in Users, NEW scope \in SUBSET {f \in Feeds : Subscribed(u, f)},
           NEW g \in 0 .. generation, MarkRead(u, scope, g)
    PROVE  ReadsPage(u, scope, g)
<1> SUFFICES ASSUME NEW v \in Users, NEW a \in Articles, Visible(v, a)
             PROVE  IF v = u /\ FeedOf[a] \in scope /\ entry[a].gen <= g
                    THEN IsRead(v, a)' ELSE IsRead(v, a)' = IsRead(v, a)
  BY DEF ReadsPage
<1> DEFINE f == FeedOf[a]
           t == Target(u, f, g)
           hit == v = u /\ f \in Marked(u, scope, g)
<1>1. /\ scope \in SUBSET Feeds /\ g \in Nat /\ entry' = entry
  BY DEF StoreInv, StoreTypeOK, MarkRead, store
<1>2. /\ f \in Feeds
      /\ sub'[<<v, f>>] = IF hit THEN Advanced(u, f, t) ELSE sub[<<v, f>>]
      /\ state'[<<v, a>>] = IF hit THEN Cleared(u, a, t) ELSE state[<<v, a>>]
      /\ hit => t \in Nat
  BY <1>1, Marking
<1>3. /\ entry[a] \in Row /\ entry[a].seq \in Nat /\ entry[a].gen \in Nat
      /\ sub[<<v, f>>] \in Frontier
  BY <1>2, RowsAreThere DEF StoreInv, Visible, Row
<1>4. CASE ~hit
  <2>1. ~(v = u /\ f \in scope /\ entry[a].gen <= g)
    <3> SUFFICES ASSUME v = u, f \in scope, entry[a].gen <= g
                 PROVE  FALSE
      OBVIOUS
    <3>1. a \in OnPage(u, f, g)
      BY DEF OnPage, EntriesOf, Visible
    <3> QED
      BY <1>4, <3>1 DEF Marked
  <2>2. IsRead(v, a)' = IsRead(v, a)
    BY <1>1, <1>2, <1>4 DEF IsRead, OverrideOf, BaseRead
  <2> QED
    BY <2>1, <2>2
<1>5. CASE hit
  <2> DEFINE s == state[<<u, a>>]
             c == Cleared(u, a, t)
             new == Advanced(u, f, t)
  <2>1. v = u /\ f \in scope /\ OnPage(u, f, g) # {}
    BY <1>5 DEF Marked
  <2>2. /\ \E b \in OnPage(u, f, g) : entry[b].seq = t
        /\ \A b \in OnPage(u, f, g) : entry[b].seq <= t
    BY <1>1, <1>2, <2>1, TargetIsLast
  <2>3. /\ entry[a].seq <= new.through <=> BaseRead(u, a) \/ entry[a].seq <= t
        /\ c \in EntryState \cup {NULL}
        /\ c # NULL => /\ s # NULL
                       /\ c.read # NULL => c.read = s.read /\ ~(entry[a].seq <= t)
        /\ s # NULL /\ entry[a].seq > t => c = s
    BY <1>2, <1>3, <1>5, <2>1, MarkedEntry DEF Visible
  <2>4. /\ sub'[<<u, f>>] = new /\ state'[<<u, a>>] = c
    BY <1>2, <1>5, <2>1
  <2>5. CASE entry[a].gen <= g
    <3>1. entry[a].seq <= t
      BY <2>1, <2>2, <2>5 DEF OnPage, EntriesOf, Visible
    <3>2. BaseRead(u, a)'
      BY <1>1, <2>3, <2>4, <3>1 DEF BaseRead
    <3>3. OverrideOf(u, a)' = NULL
      BY <2>3, <2>4, <3>1 DEF OverrideOf
    <3> QED
      BY <2>1, <2>5, <3>2, <3>3 DEF IsRead
  <2>6. CASE ~(entry[a].gen <= g)
    <3>1. PICK b \in Articles : /\ entry[b] # NULL /\ FeedOf[b] = f
                                /\ entry[b].gen <= g /\ entry[b].seq = t
      BY <2>2 DEF OnPage, EntriesOf
    <3>2. entry[b].gen \in Nat /\ entry[b].seq \in Nat
      BY <3>1, RowsAreThere DEF StoreInv, Row
    <3>3. entry[b].gen < entry[a].gen
      BY <1>1, <1>3, <2>6, <3>1, <3>2
    <3>4. t < entry[a].seq
      BY <3>1, <3>3 DEF StoreInv, SequencesFollowGenerations, Visible
    <3>5. entry[a].seq > t /\ ~(entry[a].seq <= t)
      BY <1>3, <3>1, <3>2, <3>4
    <3>6. OverrideOf(u, a)' = OverrideOf(u, a)
      BY <2>3, <2>4, <3>5 DEF OverrideOf
    <3>7. BaseRead(u, a)' = BaseRead(u, a)
      <4>1. BaseRead(u, a)' = (entry[a].seq <= new.through)
        BY <1>1, <2>4 DEF BaseRead
      <4> QED
        BY <2>3, <3>5, <4>1 DEF BaseRead
    <3> QED
      BY <2>1, <2>6, <3>6, <3>7 DEF IsRead
  <2> QED
    BY <2>5, <2>6
<1> QED
  BY <1>4, <1>5

\* A new entry is newer than every page; a stored one keeps its place; a
\* deleted one was read and stays retired.
LEMMA EntryStep ==
    ASSUME StoreInv, [StoreNext]_storeVars, NEW a \in Articles
    PROVE  Lasts(a)
<1> USE DEF Lasts
<1>1. a \in retired => entry[a] = NULL
  BY DEF StoreInv, SequencesFollowGenerations
<1>2. CASE Refresh
  <2>1. PICK f \in Feeds : \E doc \in Documents(f), time \in Dates : PersistFeed(f, doc, time)
    <3>1. (CHOOSE d \in Dates : TRUE) \in Dates
      BY StoreAssumption
    <3> QED
      BY <1>2, <3>1 DEF Refresh
  <2>2. PICK doc \in Documents(f), time \in Dates : PersistFeed(f, doc, time)
    BY <2>1
  <2> DEFINE new == Incoming(doc)
  <2>3. /\ \A b \in new : entry[b] = NULL /\ b \notin retired /\ entry'[b].gen = generation'
        /\ \A b \in Articles \ new : entry'[b] = entry[b]
        /\ generation' = IF new = {} THEN generation ELSE generation + 1
        /\ UNCHANGED retired
    BY <2>2, Persisted
  <2> HIDE DEF new
  <2>4. generation \in Nat
    BY DEF StoreInv, StoreTypeOK
  <2>5. a \in new => entry'[a].gen > generation
    BY <2>3, <2>4
  <2> QED
    BY <1>1, <2>3, <2>5
<1>3. CASE Retain
  <2>1. PICK S, cutoff, worked : PurgeReadArticles(S, cutoff, worked)
    BY <1>3 DEF Retain
  <2>2. /\ S \subseteq Purgeable(cutoff, worked)
        /\ retired' = retired \cup S
        /\ entry' = [b \in Articles |-> IF b \in S THEN NULL ELSE entry[b]]
    BY <2>1 DEF PurgeReadArticles
  <2>3. a \in S => \A u \in Users : Visible(u, a) => IsRead(u, a) /\ ~Starred(u, a)
    BY <2>2 DEF Purgeable
  <2> QED
    BY <1>1, <2>2, <2>3
<1>4. CASE Organize \/ Read \/ UNCHANGED storeVars
  <2>1. UNCHANGED <<entry, retired>>
    BY <1>4 DEF Organize, Subscribe, Unsubscribe, MoveSubscription, Read, UpdateState, MarkRead,
                store, storeVars
  <2> QED
    BY <1>1, <2>1
<1> QED
  BY <1>2, <1>3, <1>4 DEF StoreNext

\* Marks are exact and entries last.
THEOREM ReadingKept == StoreSpec => ReadingIsKept
<1>1. StoreInv /\ [StoreNext]_storeVars => [MarkIsExact]_storeVars
  BY MarkReadsPage DEF MarkIsExact
<1>2. StoreInv /\ [StoreNext]_storeVars => [\A a \in Articles : Lasts(a)]_storeVars
  BY EntryStep
<1>3. StoreSpec => MarkReadBounded
  BY <1>1, StoreSafe, PTL DEF StoreSpec, MarkReadBounded
<1>4. StoreSpec => EntriesLast
  BY <1>2, StoreSafe, PTL DEF StoreSpec, EntriesLast
<1> QED
  BY <1>3, <1>4 DEF ReadingIsKept

-----------------------------------------------------------------------------
(* Logins and sessions                                                     *)

Hashing == {r \in Logins : LoginAt(r, "hash")}

\* A password slot is free or in use, and every request in the middle of its
\* verification uses one; the others in use are those of clients that left.
AccountsInv ==
    /\ AccountsTypeOK
    /\ permits + hashing = PasswordSlots
    /\ Cardinality(Hashing) <= hashing

\* A request adds at most itself to those that verify, and one that leaves
\* makes them fewer.
LEMMA HashingChanges ==
    /\ IsFiniteSet(Hashing) /\ Cardinality(Hashing) \in Nat
    /\ \A r \in Logins :
         /\ r \in Hashing => /\ Cardinality(Hashing) >= 1
                             /\ Cardinality(Hashing \ {r}) = Cardinality(Hashing) - 1
         /\ Cardinality(Hashing \cup {r}) <= Cardinality(Hashing) + 1
<1>1. IsFiniteSet(Hashing)
  BY FS_Subset, AccountsAssumption DEF AccountsAssumption, Hashing
<1>2. Cardinality(Hashing) \in Nat
  BY <1>1, FS_CardinalityType
<1>3. ASSUME NEW r \in Logins, r \in Hashing
      PROVE  Cardinality(Hashing) >= 1 /\ Cardinality(Hashing \ {r}) = Cardinality(Hashing) - 1
  <2>1. Cardinality(Hashing \ {r}) = Cardinality(Hashing) - 1
    BY <1>1, <1>3, FS_RemoveElement
  <2>2. Cardinality(Hashing \ {r}) \in Nat
    BY <1>1, FS_Subset, FS_CardinalityType
  <2> QED
    BY <1>2, <2>1, <2>2
<1>4. ASSUME NEW r \in Logins
      PROVE  Cardinality(Hashing \cup {r}) <= Cardinality(Hashing) + 1
  <2>1. Cardinality(Hashing \cup {r}) = IF r \in Hashing THEN Cardinality(Hashing) ELSE Cardinality(Hashing) + 1
    BY <1>1, FS_AddElement
  <2> QED
    BY <1>2, <2>1
<1> QED
  BY <1>1, <1>2, <1>3, <1>4

\* What a row, a login and a refresh consist of.
LEMMA AccountRows ==
    ASSUME AccountsTypeOK
    PROVE  /\ \A k \in SessionKeys : session[k] # None =>
                 /\ session[k].user \in AccountUsers /\ session[k].seen \in 0..MaxClock
                 /\ session[k].expires \in Nat
           /\ \A r \in Logins : login[r] # None => login[r] \in LoginStep
           /\ \A p \in Processes : touch[p] # None =>
                 touch[p].key \in SessionKeys /\ touch[p].at \in 0..MaxClock
BY DEF AccountsTypeOK, SessionRow, LoginStep, Touch

\* The steps of a login.
LEMMA LoginKeeps ==
    ASSUME AccountsInv, NEW r \in Logins,
           \/ \E u \in AccountUsers : Authenticate(r, u)
           \/ StartHash(r) \/ HashDone(r) \/ CreateSession(r) \/ CancelLogin(r)
    PROVE  AccountsInv'
<1> USE HashingChanges DEF AccountsInv
<1>1. None \notin LoginStep /\ None \notin SessionRow
  BY AccountRowAssumption
<1>2. CASE \E u \in AccountUsers : Authenticate(r, u)
  <2>1. PICK u \in AccountUsers : Authenticate(r, u)
    BY <1>2
  <2>2. login' = [login EXCEPT ![r] = [at |-> "wait", user |-> u, barred |-> u \in barred]]
    BY <2>1 DEF Authenticate
  <2>3. [at |-> "wait", user |-> u, barred |-> u \in barred] \in LoginStep
    BY DEF LoginStep
  <2>4. Hashing' = Hashing
    BY <1>1, <2>1, <2>2, <2>3 DEF Authenticate, Hashing, LoginAt, AccountsTypeOK
  <2>5. login' \in [Logins -> LoginStep \cup {None}]
    BY <2>2, <2>3 DEF AccountsTypeOK
  <2> QED
    BY <2>1, <2>4, <2>5 DEF Authenticate, AccountsTypeOK
<1>3. CASE StartHash(r)
  <2>1. login[r] \in LoginStep /\ login' = [login EXCEPT ![r].at = "hash"]
    BY <1>3 DEF StartHash, LoginAt, AccountsTypeOK
  <2>2. login' \in [Logins -> LoginStep \cup {None}]
    BY <2>1 DEF AccountsTypeOK, LoginStep
  <2>3. Hashing' \subseteq Hashing \cup {r}
    BY <2>1, <1>1 DEF Hashing, LoginAt, AccountsTypeOK
  <2>4. Hashing \cup {r} = Hashing'
    BY <2>1, <2>2, <2>3, <1>1 DEF Hashing, LoginAt, AccountsTypeOK, LoginStep
  <2>5. permits' = permits - 1 /\ hashing' = hashing + 1 /\ permits > 0
        /\ UNCHANGED <<clock, session, issued, barred, touch>>
    BY <1>3 DEF StartHash
  <2>6. Cardinality(Hashing') <= Cardinality(Hashing) + 1
    BY <2>4
  <2>7. permits' \in 0..PasswordSlots /\ hashing' \in 0..PasswordSlots
    BY <2>5, AccountsAssumption DEF AccountsTypeOK, AccountsAssumption
  <2>8. AccountsTypeOK'
    BY <2>2, <2>5, <2>7 DEF AccountsTypeOK
  <2>9. Cardinality(Hashing') \in Nat
    BY <2>4, FS_AddElement
  <2> QED
    BY <2>5, <2>6, <2>8, <2>9 DEF AccountsTypeOK
<1>4. CASE HashDone(r)
  <2>1. login[r] \in LoginStep /\ r \in Hashing
    BY <1>4 DEF HashDone, LoginAt, AccountsTypeOK, Hashing
  <2>2. login' = [login EXCEPT ![r] = None] \/ login' = [login EXCEPT ![r].at = "create"]
    BY <1>4 DEF HashDone, EndLogin
  <2>3. login' \in [Logins -> LoginStep \cup {None}]
    BY <2>1, <2>2 DEF AccountsTypeOK, LoginStep
  <2>4. Hashing' = Hashing \ {r}
    <3>1. \A q \in Logins : q # r => login'[q] = login[q]
      BY <2>2 DEF AccountsTypeOK
    <3>2. login'[r] = None \/ login'[r].at = "create"
      BY <2>1, <2>2 DEF AccountsTypeOK, LoginStep
    <3> QED
      BY <3>1, <3>2 DEF Hashing, LoginAt
  <2>5. permits' = permits + 1 /\ hashing' = hashing - 1
        /\ UNCHANGED <<clock, session, issued, barred, touch>>
    BY <1>4 DEF HashDone
  <2>6. Cardinality(Hashing') = Cardinality(Hashing) - 1 /\ Cardinality(Hashing) >= 1
    BY <2>1, <2>4
  <2>7. permits' \in 0..PasswordSlots /\ hashing' \in 0..PasswordSlots
    BY <2>5, <2>6, AccountsAssumption DEF AccountsTypeOK, AccountsAssumption
  <2>8. AccountsTypeOK'
    BY <2>3, <2>5, <2>7 DEF AccountsTypeOK
  <2> QED
    BY <2>5, <2>6, <2>8 DEF AccountsTypeOK
<1>5. ASSUME login' = [login EXCEPT ![r] = None], hashing' = hashing
      PROVE  /\ login' \in [Logins -> LoginStep \cup {None}]
             /\ Cardinality(Hashing') <= hashing'
  <2>1. Hashing' = Hashing \ {r}
    BY <1>5 DEF Hashing, LoginAt, AccountsTypeOK
  <2>2. Cardinality(Hashing') <= Cardinality(Hashing) /\ Cardinality(Hashing') \in Nat
    BY <2>1, FS_Subset, FS_CardinalityType
  <2> QED
    BY <1>5, <2>2 DEF AccountsTypeOK
<1>6. CASE CreateSession(r)
  <2>1. login[r] \in LoginStep
    BY <1>6 DEF CreateSession, LoginAt, AccountsTypeOK
  <2>2. [user |-> login[r].user, seen |-> clock, expires |-> clock + SessionLife] \in SessionRow
    BY <2>1, AccountsAssumption DEF SessionRow, LoginStep, AccountsTypeOK, AccountsAssumption
  <2>3. session' \in [SessionKeys -> SessionRow \cup {None}] /\ issued' \in SessionKeys \cup {0}
    BY <1>6, <2>2 DEF CreateSession, AccountsTypeOK
  <2> QED
    BY <1>5, <1>6, <2>3 DEF CreateSession, EndLogin, AccountsTypeOK
<1>7. CASE CancelLogin(r)
  BY <1>5, <1>7 DEF CancelLogin, EndLogin, AccountsTypeOK
<1> QED
  BY <1>2, <1>3, <1>4, <1>6, <1>7

\* A verification that nobody waits for gives its slot back.
LEMMA OrphanKeeps == AccountsInv /\ OrphanDone => AccountsInv'
<1> SUFFICES ASSUME AccountsInv, OrphanDone
             PROVE  AccountsInv'
  OBVIOUS
<1>1. Hashing' = Hashing
  BY DEF OrphanDone, Hashing, LoginAt
<1>2. Cardinality(Hashing) < hashing /\ Cardinality(Hashing) \in Nat
  BY HashingChanges DEF OrphanDone, Orphans, Hashing, AccountsInv, AccountsTypeOK
<1>3. hashing' = hashing - 1 /\ permits' = permits + 1
  BY DEF OrphanDone
<1>4. permits' \in 0..PasswordSlots /\ hashing' \in 0..PasswordSlots
  BY <1>2, <1>3, AccountsAssumption DEF AccountsInv, AccountsTypeOK, AccountsAssumption
<1> QED
  BY <1>1, <1>2, <1>3, <1>4 DEF OrphanDone, AccountsInv, AccountsTypeOK

\* What is done to sessions changes no login.
LEMMA SessionsKeep ==
    ASSUME AccountsInv, AccountsTypeOK', UNCHANGED <<login, permits, hashing>>
    PROVE  AccountsInv'
BY DEF AccountsInv, Hashing, LoginAt

\* The steps of a session and of the clock keep the types.
LEMMA SessionStep ==
    ASSUME AccountsTypeOK,
           \/ \E p \in Processes : RefreshLastSeen(p) \/ \E k \in SessionKeys : Resolve(p, k)
           \/ \E k \in SessionKeys : Revoke(k)
           \/ \E u \in AccountUsers : SetBarred(u)
           \/ PassTime
    PROVE  AccountsTypeOK' /\ UNCHANGED <<login, permits, hashing>>
<1>1. ASSUME NEW p \in Processes, RefreshLastSeen(p)
      PROVE  AccountsTypeOK' /\ UNCHANGED <<login, permits, hashing>>
  <2>1. touch[p].key \in SessionKeys /\ touch[p].at \in 0..MaxClock
    BY <1>1, AccountRows DEF RefreshLastSeen
  <2>2. session' \in [SessionKeys -> SessionRow \cup {None}]
    BY <1>1, <2>1 DEF RefreshLastSeen, AccountsTypeOK, SessionRow
  <2> QED
    BY <1>1, <2>2 DEF RefreshLastSeen, AccountsTypeOK
<1>2. ASSUME NEW p \in Processes, NEW k \in SessionKeys, Resolve(p, k)
      PROVE  AccountsTypeOK' /\ UNCHANGED <<login, permits, hashing>>
  <2>1. [key |-> k, at |-> clock] \in Touch
    BY DEF Touch, AccountsTypeOK
  <2> QED
    BY <1>2, <2>1 DEF Resolve, AccountsTypeOK
<1>3. ASSUME NEW k \in SessionKeys, Revoke(k)
      PROVE  AccountsTypeOK' /\ UNCHANGED <<login, permits, hashing>>
  BY <1>3 DEF Revoke, AccountsTypeOK
<1>4. ASSUME NEW u \in AccountUsers, SetBarred(u)
      PROVE  AccountsTypeOK' /\ UNCHANGED <<login, permits, hashing>>
  BY <1>4 DEF SetBarred, AccountsTypeOK
<1>5. CASE PassTime
  BY <1>5, AccountsAssumption DEF PassTime, AccountsTypeOK, AccountsAssumption
<1> QED
  BY <1>1, <1>2, <1>3, <1>4, <1>5

\* Nobody has logged in.
LEMMA AccountsStart == AccountsInit => AccountsInv
<1> SUFFICES ASSUME AccountsInit
             PROVE  AccountsInv
  OBVIOUS
<1>1. Hashing = {}
  BY DEF AccountsInit, Hashing, LoginAt
<1> QED
  BY <1>1, FS_EmptySet, AccountsAssumption DEF AccountsInit, AccountsInv, AccountsTypeOK, AccountsAssumption

\* Every sign-in, sign-out, check and crash of the accounts keeps AccountsInv.
LEMMA AccountsKept == AccountsInv /\ [AccountsNext]_accountVars => AccountsInv'
<1> SUFFICES ASSUME AccountsInv, [AccountsNext]_accountVars
             PROVE  AccountsInv'
  OBVIOUS
<1>1. CASE UNCHANGED accountVars
  BY <1>1 DEF accountVars, AccountsInv, AccountsTypeOK, Hashing, LoginAt
<1> QED
  BY <1>1, LoginKeeps, OrphanKeeps, SessionStep, SessionsKeep DEF AccountsNext, AccountsInv

\* What a late refresh of last_seen_at does to a session.
LEMMA RefreshMoves ==
    ASSUME AccountsTypeOK, NEW p \in Processes, RefreshLastSeen(p), NEW k \in SessionKeys
    PROVE  /\ session'[k] = None <=> session[k] = None
           /\ session[k] # None =>
                 /\ session'[k].expires = session[k].expires
                 /\ \/ session'[k].seen = session[k].seen
                    \/ session'[k].seen >= session[k].seen + SeenInterval
<1> DEFINE t == touch[p]
<1>1. t.key \in SessionKeys /\ t.at \in 0..MaxClock
  BY AccountRows DEF RefreshLastSeen
<1>2. CASE session' = session
  BY <1>2
<1>3. CASE /\ session[t.key] # None /\ Old(session[t.key].seen, t.at)
           /\ session' = [session EXCEPT ![t.key].seen = t.at]
  <2>1. session[t.key] \in SessionRow /\ session[t.key].seen \in 0..MaxClock
    BY <1>1, <1>3 DEF AccountsTypeOK, SessionRow
  <2>2. session'[t.key] = [session[t.key] EXCEPT !.seen = t.at]
    BY <1>1, <1>3 DEF AccountsTypeOK
  <2>3. session'[t.key] \in SessionRow
    BY <2>1, <2>2, <1>1 DEF SessionRow
  <2>4. session'[t.key].expires = session[t.key].expires /\ session'[t.key].seen = t.at
    BY <2>1, <2>2 DEF SessionRow
  <2>5. k # t.key => session'[k] = session[k]
    BY <1>1, <1>3 DEF AccountsTypeOK
  <2> QED
    BY <1>1, <1>3, <2>1, <2>3, <2>4, <2>5, AccountRowAssumption, AccountsAssumption
       DEF Old, AccountsAssumption
<1> QED
  BY <1>2, <1>3 DEF RefreshLastSeen

\* Every step moves a session on as SessionsMoveOn says.
LEMMA SessionMoves ==
    ASSUME AccountsInv, [AccountsNext]_accountVars,
           NEW p \in Processes, touch[p] # None, touch'[p] = None
    PROVE  RefreshLastSeen(p)
<1>1. touch' # touch
  OBVIOUS
<1>2. PICK q \in Processes : RefreshLastSeen(q) \/ \E k \in SessionKeys : Resolve(q, k)
  BY <1>1 DEF AccountsNext, accountVars, Authenticate, StartHash, HashDone, CreateSession,
              CancelLogin, OrphanDone, Revoke, SetBarred, PassTime
<1>3. ASSUME NEW k \in SessionKeys, Resolve(q, k)
      PROVE  FALSE
  <2>1. [key |-> k, at |-> clock] \in Touch
    BY DEF Touch, AccountsInv, AccountsTypeOK
  <2> QED
    BY <1>3, <2>1, AccountRowAssumption DEF Resolve, AccountsInv, AccountsTypeOK
<1> QED
  BY <1>2, <1>3 DEF RefreshLastSeen, AccountsInv, AccountsTypeOK

(* A refresh of last_seen_at that runs late, in any process, brings back   *)
(* no session and turns none back (auth/sessions.rs, refresh_last_seen).   *)
THEOREM SessionsForward == AccountsSpec => SessionsMoveOn
<1> DEFINE SessionsMove == \A p \in Processes : touch[p] # None /\ touch'[p] = None =>
          \A k \in SessionKeys :
             /\ session'[k] = None <=> session[k] = None
             /\ session[k] # None =>
                   /\ session'[k].expires = session[k].expires
                   /\ \/ session'[k].seen = session[k].seen
                      \/ session'[k].seen >= session[k].seen + SeenInterval
<1>1. AccountsInv /\ [AccountsNext]_accountVars => [SessionsMove]_accountVars
  BY SessionMoves, RefreshMoves DEF AccountsInv
<1> QED
  BY <1>1, AccountsStart, AccountsKept, PTL DEF AccountsSpec, SessionsMoveOn
-----------------------------------------------------------------------------
(* Sliding windows                                                         *)

\* The entries at the front of a window that are too old end somewhere.
LEMMA FrontEnds ==
    ASSUME NEW w \in Seq(Nat), NEW t \in Nat, NEW d \in Nat
    PROVE  \E n \in 0..Len(w) :
              /\ \A i \in 1..n : t - w[i] >= d
              /\ n < Len(w) => t - w[n + 1] < d
<1> DEFINE T == {i \in 1..Len(w) : t - w[i] < d}
<1>1. Len(w) \in Nat /\ \A i \in 1..Len(w) : w[i] \in Nat
  OBVIOUS
<1>2. CASE T = {}
  <2>1. \A i \in 1..Len(w) : t - w[i] >= d
    BY <1>1, <1>2
  <2> QED
    BY <1>1, <2>1
<1>3. CASE T # {}
  <2>1. T \subseteq Nat
    BY <1>1
  <2>2. PICK m \in T : \A i \in T : <<i, m>> \notin OpToRel(<, Nat)
    <3> HIDE DEF T
    <3> QED
      BY <1>3, <2>1, NatLessThanWellFounded, WFMin
  <2>3. \A i \in T : ~(i < m)
    <3> HIDE DEF T
    <3> QED
      BY <2>1, <2>2, Zenon DEF OpToRel
  <2>4. m \in 1..Len(w) /\ t - w[m] < d
    BY <2>2
  <2>5. ASSUME NEW i \in 1..(m - 1)
        PROVE  t - w[i] >= d
    BY <1>1, <2>3, <2>4, SMTT(20)
  <2>6. m - 1 \in 0..Len(w) /\ (m - 1) + 1 = m
    BY <1>1, <2>4
  <2> QED
    BY <2>4, <2>5, <2>6
<1> QED
  BY <1>2, <1>3

\* What is left of a window whose front is dropped.
LEMMA RestOfWindow ==
    ASSUME NEW S, NEW w \in Seq(S), NEW n \in 0..Len(w)
    PROVE  /\ SubSeq(w, n + 1, Len(w)) \in Seq(S)
           /\ Len(SubSeq(w, n + 1, Len(w))) = Len(w) - n
           /\ \A i \in 1..(Len(w) - n) : SubSeq(w, n + 1, Len(w))[i] = w[n + i]
<1>1. Len(w) \in Nat /\ n + 1 \in Int /\ \A i \in (n + 1)..Len(w) : w[i] \in S
  OBVIOUS
<1>2. /\ SubSeq(w, n + 1, Len(w)) \in Seq(S)
      /\ Len(SubSeq(w, n + 1, Len(w))) = IF n + 1 <= Len(w) THEN Len(w) - (n + 1) + 1 ELSE 0
      /\ \A i \in 1..(Len(w) - (n + 1) + 1) : SubSeq(w, n + 1, Len(w))[i] = w[(n + 1) + i - 1]
  BY <1>1, SubSeqProperties
<1> QED
  BY <1>1, <1>2

\* The first entry of a window that is not empty.
LEMMA FirstOfWindow ==
    ASSUME NEW S, NEW w \in Seq(S), Len(w) > 0
    PROVE  w[1] \in S
<1>1. Len(w) \in Nat /\ w \in [1..Len(w) -> S]
  OBVIOUS
<1>2. 1 \in 1..Len(w)
  BY <1>1
<1> QED
  BY <1>1, <1>2

\* A set with one element more counts one more at most.
LEMMA OneMore ==
    ASSUME NEW S, IsFiniteSet(S), NEW x
    PROVE  /\ IsFiniteSet(S \cup {x})
           /\ Cardinality(S) \in Nat /\ Cardinality(S \cup {x}) \in Nat
           /\ Cardinality(S \cup {x}) <= Cardinality(S) + 1
<1>1. Cardinality(S) \in Nat /\ IsFiniteSet(S \cup {x})
  BY FS_CardinalityType, FS_AddElement
<1>2. Cardinality(S \cup {x}) = Cardinality(S) \/ Cardinality(S \cup {x}) = Cardinality(S) + 1
  BY FS_AddElement
<1> QED
  BY <1>1, <1>2

-----------------------------------------------------------------------------
(* Calls of a provider                                                     *)

\* The requests of the last minute are the end of a window.
LEMMA RecentWindow ==
    ASSUME NEW w \in Seq(0..MaxMinutes), minute \in 0..MaxMinutes
    PROVE  Recent(w) \in Seq(0..MaxMinutes) /\ Len(Recent(w)) \in Nat /\ Len(Recent(w)) <= Len(w)
<1>1. w \in Seq(Nat) /\ minute \in Nat /\ Minute \in Nat
  BY AdmissionAssumption, SeqMonotonic DEF AdmissionAssumption
<1>2. Expired(w) \in 0..Len(w)
  BY <1>1, FrontEnds DEF Expired
<1> DEFINE n == Expired(w)
<1> HIDE DEF n
<1>3. n \in 0..Len(w) /\ Len(w) \in Nat
  BY <1>2 DEF n
<1>4. /\ SubSeq(w, n + 1, Len(w)) \in Seq(0..MaxMinutes)
      /\ Len(SubSeq(w, n + 1, Len(w))) = Len(w) - n
  BY <1>3, RestOfWindow
<1> QED
  BY <1>3, <1>4 DEF Recent, n

\* Those who hold a permit of a state.
Holders(g) == {r \in Calls : (CallAt(r, "admitted") \/ CallAt(r, "calling")) /\ call[r].state = g}

AdmissionShape ==
    /\ AdmissionTypeOK
    /\ requests \in [1..MaxStates -> Seq(0..MaxMinutes)]

\* States are numbered as they are made; a call has one as soon as it looked
\* for it, and a window of a state that is yet to be made is empty.
StatesMade ==
    /\ \A v \in Revisions : states[v] # None => states[v] \in 1..made
    /\ \A r \in Calls : call[r] # None /\ call[r].at # "loaded" => call[r].state \in 1..made
    /\ \A g \in 1..MaxStates : g > made => requests[g] = <<>>

\* The permits and the window of a state are within the policy.
StateBounded ==
    \A g \in 1..MaxStates :
        Cardinality(Holders(g)) <= MaxConcurrency /\ Len(requests[g]) <= RequestsPerMinute

\* Before the first edit there is one state at most.
OneState ==
    /\ \A r \in Calls : call[r] # None => call[r].revision = 1
    /\ \A v \in Revisions : states[v] # None => v = 1
    /\ \A g \in 1..MaxStates : ownerOf[g] = 1
    /\ made <= 1 /\ (made = 1 => states[1] = 1)

AdmissionInv ==
    /\ AdmissionShape
    /\ StatesMade
    /\ StateBounded
    /\ revision = 1 => OneState

\* What a call consists of.
LEMMA CallColumns ==
    ASSUME AdmissionTypeOK, NEW r \in Calls, call[r] # None
    PROVE  /\ call[r] \in CallStep
           /\ call[r].at \in {"loaded", "pinned", "admitted", "calling"}
           /\ call[r].revision \in Revisions /\ call[r].state \in 0..MaxStates
BY DEF AdmissionTypeOK, CallStep

\* Permits are counted in numbers, fewer holders count less.
LEMMA HoldersCounted ==
    /\ \A g : IsFiniteSet(Holders(g)) /\ Cardinality(Holders(g)) \in Nat
    /\ \A S, T : S \subseteq T /\ T \subseteq Calls => Cardinality(S) <= Cardinality(T)
<1>1. \A g : Holders(g) \subseteq Calls
  BY DEF Holders
<1>2. \A S : S \subseteq Calls => IsFiniteSet(S)
  BY FS_Subset, AdmissionAssumption DEF AdmissionAssumption
<1>3. \A S, T : S \subseteq T /\ T \subseteq Calls => Cardinality(S) <= Cardinality(T)
  BY <1>2, FS_Subset
<1> QED
  BY <1>1, <1>2, <1>3, FS_CardinalityType

\* A step that takes no permit and leaves the windows as they are.
LEMMA FewerHolders ==
    ASSUME AdmissionInv, requests' = requests, \A g \in 1..MaxStates : Holders(g)' \subseteq Holders(g)
    PROVE  StateBounded'
<1> SUFFICES ASSUME NEW g \in 1..MaxStates
             PROVE  Cardinality(Holders(g)') <= MaxConcurrency
  BY DEF StateBounded, AdmissionInv
<1>1. Holders(g) \subseteq Calls /\ Cardinality(Holders(g)) \in Nat /\ Cardinality(Holders(g)) <= MaxConcurrency
  BY HoldersCounted DEF Holders, StateBounded, AdmissionInv
<1>2. IsFiniteSet(Holders(g)')
  BY <1>1, HoldersCounted, FS_Subset
<1>3. Cardinality(Holders(g)') \in Nat /\ Cardinality(Holders(g)') <= Cardinality(Holders(g))
  BY <1>1, <1>2, HoldersCounted, FS_CardinalityType
<1> QED
  BY <1>1, <1>3, AdmissionAssumption DEF AdmissionAssumption

\* A call that ends gives up what it holds, and nothing else changes.
LEMMA EndingKeeps ==
    ASSUME AdmissionInv, NEW r \in Calls, EndCall(r),
           UNCHANGED <<minute, revision, states, made, ownerOf, requests>>
    PROVE  AdmissionInv'
<1>1. /\ call' \in [Calls -> CallStep \cup {None}]
      /\ call'[r] = None
      /\ \A q \in Calls : q # r => call'[q] = call[q]
  BY DEF EndCall, AdmissionInv, AdmissionShape, AdmissionTypeOK
<1>2. \A g \in 1..MaxStates : Holders(g)' \subseteq Holders(g)
  BY <1>1 DEF Holders, CallAt
<1>3. StateBounded'
  BY <1>2, FewerHolders
<1>4. AdmissionShape' /\ StatesMade' /\ (revision' = 1 => OneState')
  BY <1>1 DEF AdmissionInv, AdmissionShape, AdmissionTypeOK, StatesMade, OneState
<1> QED
  BY <1>3, <1>4 DEF AdmissionInv

\* Loading a policy leaves every admission state within the policy it was made of.
LEMMA LoadKeeps ==
    ASSUME AdmissionInv, NEW r \in Calls, LoadBinding(r)
    PROVE  AdmissionInv'
<1> DEFINE c == [at |-> "loaded", revision |-> revision, state |-> 0]
<1>1. c \in CallStep /\ c # None
  BY CallAssumption, AdmissionAssumption
     DEF CallStep, AdmissionInv, AdmissionShape, AdmissionTypeOK, AdmissionAssumption
<1>2. /\ call' \in [Calls -> CallStep \cup {None}]
      /\ call'[r] = c
      /\ \A q \in Calls : q # r => call'[q] = call[q]
  BY <1>1 DEF LoadBinding, AdmissionInv, AdmissionShape, AdmissionTypeOK
<1>3. UNCHANGED <<minute, revision, states, made, ownerOf, requests>>
  BY DEF LoadBinding
<1>4. \A g \in 1..MaxStates : Holders(g)' \subseteq Holders(g)
  BY <1>2 DEF Holders, CallAt
<1>5. StateBounded'
  BY <1>3, <1>4, FewerHolders
<1>6. AdmissionShape' /\ StatesMade' /\ (revision' = 1 => OneState')
  BY <1>2, <1>3 DEF AdmissionInv, AdmissionShape, AdmissionTypeOK, StatesMade, OneState
<1> QED
  BY <1>5, <1>6 DEF AdmissionInv

\* Under the lock of the table.
LEMMA FindKeeps ==
    ASSUME AdmissionInv, NEW r \in Calls, FindState(r)
    PROVE  AdmissionInv'
<1> DEFINE own == call[r].revision
           fresh == states[own] = None
           g == IF fresh THEN made + 1 ELSE states[own]
<1> USE DEF AdmissionInv, AdmissionShape
<1>1. call[r] \in CallStep /\ call[r].at = "loaded" /\ own \in Revisions
  BY CallColumns DEF FindState, CallAt
<1>2. /\ fresh => made < MaxStates
      /\ states' = [v \in Revisions |-> IF v = own THEN g ELSE IF Kept(v, own) THEN states[v] ELSE None]
      /\ made' = IF fresh THEN made + 1 ELSE made
      /\ ownerOf' = [ownerOf EXCEPT ![g] = own]
      /\ call' = [call EXCEPT ![r].at = "pinned", ![r].state = g]
      /\ UNCHANGED <<minute, revision, requests>>
  BY DEF FindState
<1>3. made \in 0..MaxStates /\ MaxStates \in Nat
  BY AdmissionAssumption DEF AdmissionTypeOK, AdmissionAssumption
<1>4. g \in 1..MaxStates /\ g \in 1..made' /\ made' \in 0..MaxStates /\ made <= made'
  BY <1>1, <1>2, <1>3 DEF StatesMade
<1>5. own = call[r].revision /\ (revision = 1 /\ OneState => own = 1 /\ g = 1 /\ made' = 1)
  <2>1. ASSUME revision = 1, OneState
        PROVE  own = 1 /\ g = 1 /\ made' = 1
    <3>1. own = 1 /\ made <= 1 /\ (made = 1 => states[1] = 1)
      BY <1>1, <2>1, CallAssumption DEF OneState
    <3>2. made \in {0, 1}
      BY <1>3, <3>1
    <3>3. CASE fresh
      BY <1>2, <1>3, <1>4, <3>1, <3>2, <3>3, AdmissionAssumption DEF AdmissionAssumption
    <3>4. CASE ~fresh
      BY <1>1, <1>2, <1>3, <3>1, <3>2, <3>4 DEF StatesMade
    <3> QED
      BY <3>1, <3>3, <3>4
  <2> QED
    BY <2>1
<1> HIDE DEF own, fresh, g
<1>6. /\ call' \in [Calls -> CallStep \cup {None}]
      /\ call'[r].at = "pinned" /\ call'[r].state = g /\ call'[r].revision = own
      /\ \A q \in Calls : q # r => call'[q] = call[q]
  <2>1. call'[r] = [call[r] EXCEPT !.at = "pinned", !.state = g]
    BY <1>2 DEF AdmissionTypeOK
  <2>2. call'[r] \in CallStep /\ call'[r].at = "pinned" /\ call'[r].state = g /\ call'[r].revision = own
    <3>1. g \in 0..MaxStates
      BY <1>3, <1>4
    <3> QED
      BY <1>1, <1>5, <2>1, <3>1 DEF CallStep
  <2> QED
    BY <1>2, <2>2 DEF AdmissionTypeOK
<1>7. states' \in [Revisions -> 1..MaxStates \cup {None}]
  BY <1>2, <1>4 DEF AdmissionTypeOK
<1>8. ownerOf' \in [1..MaxStates -> Revisions]
  BY <1>1, <1>2, <1>4 DEF AdmissionTypeOK
<1>9. AdmissionShape'
  BY <1>2, <1>4, <1>6, <1>7, <1>8 DEF AdmissionTypeOK
<1>10. StatesMade'
  <2>1. ASSUME NEW v \in Revisions, states'[v] # None
        PROVE  states'[v] \in 1..made'
    <3>1. states'[v] = g \/ states'[v] = states[v]
      BY <1>2, <2>1
    <3> QED
      BY <1>3, <1>4, <2>1, <3>1 DEF StatesMade
  <2>2. ASSUME NEW q \in Calls, call'[q] # None, call'[q].at # "loaded"
        PROVE  call'[q].state \in 1..made'
    <3>1. CASE q = r
      BY <1>4, <1>6, <3>1
    <3>2. CASE q # r
      <4>1. call'[q] = call[q] /\ call[q] # None /\ call[q].at # "loaded"
        BY <1>6, <2>2, <3>2
      <4>2. call[q].state \in 1..made
        BY <4>1 DEF StatesMade
      <4> QED
        BY <1>3, <1>4, <4>1, <4>2
    <3> QED
      BY <3>1, <3>2
  <2>3. \A h \in 1..MaxStates : h > made' => requests'[h] = <<>>
    BY <1>2, <1>3, <1>4 DEF StatesMade
  <2> QED
    BY <2>1, <2>2, <2>3 DEF StatesMade
<1>11. \A h \in 1..MaxStates : Holders(h)' \subseteq Holders(h)
  BY <1>6 DEF Holders, CallAt
<1>12. StateBounded'
  BY <1>2, <1>11, FewerHolders
<1>13. ASSUME revision = 1
       PROVE  OneState'
  <2>1. OneState /\ own = 1 /\ made' = 1 /\ g = 1
    BY <1>13, <1>5
  <2>3. states'[1] = 1 /\ \A v \in Revisions : states'[v] # None => v = 1
    BY <1>1, <1>2, <2>1 DEF OneState
  <2>4. \A h \in 1..MaxStates : ownerOf'[h] = 1
    BY <1>2, <1>4, <2>1 DEF OneState, AdmissionTypeOK
  <2>5. \A q \in Calls : call'[q] # None => call'[q].revision = 1
    BY <1>6, <2>1 DEF OneState
  <2> QED
    BY <2>1, <2>3, <2>4, <2>5 DEF OneState
<1> QED
  BY <1>2, <1>9, <1>10, <1>12, <1>13

\* A call that goes on as it is, at its next place.
LEMMA NextPlace ==
    ASSUME AdmissionInv, NEW r \in Calls, NEW at \in {"admitted", "calling"},
           CallAt(r, "pinned") \/ CallAt(r, "admitted"),
           call' = [call EXCEPT ![r].at = at],
           UNCHANGED <<minute, revision, states, made, ownerOf>>
    PROVE  /\ call' \in [Calls -> CallStep \cup {None}]
           /\ call'[r].at = at /\ call'[r].state = call[r].state /\ call'[r].revision = call[r].revision
           /\ \A q \in Calls : q # r => call'[q] = call[q]
           /\ call'[r] # None /\ call[r] # None
           /\ call[r].state \in 1..MaxStates /\ call[r].state \in 1..made
           /\ revision' = 1 => OneState'
<1> USE DEF AdmissionInv, AdmissionShape
<1>1. call[r] \in CallStep /\ call[r] # None /\ call[r].at # "loaded"
  BY CallColumns DEF CallAt
<1>2. call'[r] = [call[r] EXCEPT !.at = at]
  BY DEF AdmissionTypeOK
<1>3. call'[r] \in CallStep /\ call'[r].at = at /\ call'[r].state = call[r].state
      /\ call'[r].revision = call[r].revision
  BY <1>1, <1>2 DEF CallStep
<1>4. call' \in [Calls -> CallStep \cup {None}] /\ \A q \in Calls : q # r => call'[q] = call[q]
  BY <1>3 DEF AdmissionTypeOK
<1>5. call[r].state \in 1..made /\ call[r].state \in 1..MaxStates
  BY <1>1, AdmissionAssumption DEF StatesMade, AdmissionTypeOK, AdmissionAssumption
<1>6. revision' = 1 => OneState'
  BY <1>1, <1>3, <1>4 DEF OneState
<1> QED
  BY <1>1, <1>3, <1>4, <1>5, <1>6, CallAssumption

\* A permit is taken only while there is one.
LEMMA PermitKeeps ==
    ASSUME AdmissionInv, NEW r \in Calls, TakePermit(r)
    PROVE  AdmissionInv'
<1>1. UNCHANGED <<minute, revision, states, made, ownerOf, requests>> /\ CallAt(r, "pinned")
  BY DEF TakePermit
<1>2. CASE EndCall(r)
  BY <1>1, <1>2, EndingKeeps
<1>3. CASE /\ Permits(call[r].state) < MaxConcurrency
           /\ call' = [call EXCEPT ![r].at = "admitted"]
  <2> DEFINE g == call[r].state
  <2>1. /\ call' \in [Calls -> CallStep \cup {None}]
        /\ call'[r].at = "admitted" /\ call'[r].state = g
        /\ \A q \in Calls : q # r => call'[q] = call[q]
        /\ g \in 1..MaxStates /\ g \in 1..made
        /\ revision' = 1 => OneState'
    BY <1>1, <1>3, NextPlace
  <2>2. Cardinality(Holders(g)) < MaxConcurrency
    BY <1>3 DEF Permits, Holders
  <2>3. \A h : h = g => Holders(h)' \subseteq Holders(h) \cup {r}
    BY <2>1 DEF Holders, CallAt
  <2>4. \A h \in 1..MaxStates : h # g => Holders(h)' \subseteq Holders(h)
    BY <2>1 DEF Holders, CallAt
  <2>5. StateBounded'
    <3> SUFFICES ASSUME NEW h \in 1..MaxStates
                 PROVE  Cardinality(Holders(h)') <= MaxConcurrency
      BY <1>1 DEF StateBounded, AdmissionInv
    <3>1. IsFiniteSet(Holders(h)) /\ Cardinality(Holders(h)) \in Nat /\ Cardinality(Holders(h)) <= MaxConcurrency
      BY HoldersCounted DEF AdmissionInv, StateBounded
    <3>2. IsFiniteSet(Holders(h) \cup {r}) /\ Cardinality(Holders(h) \cup {r}) \in Nat
          /\ Cardinality(Holders(h) \cup {r}) <= Cardinality(Holders(h)) + 1
      BY <3>1, OneMore
    <3>3. CASE h = g
      <4>1. Holders(h)' \subseteq Holders(h) \cup {r} /\ Cardinality(Holders(h)) < MaxConcurrency
        BY <2>2, <2>3, <3>3
      <4>2. Cardinality(Holders(h)') \in Nat /\ Cardinality(Holders(h)') <= Cardinality(Holders(h) \cup {r})
        BY <3>2, <4>1, FS_Subset, FS_CardinalityType
      <4> QED
        BY <3>1, <3>2, <4>1, <4>2, AdmissionAssumption DEF AdmissionAssumption
    <3>4. CASE h # g
      <4>1. Cardinality(Holders(h)') \in Nat /\ Cardinality(Holders(h)') <= Cardinality(Holders(h))
        BY <2>4, <3>1, <3>4, FS_Subset, FS_CardinalityType
      <4> QED
        BY <3>1, <4>1, AdmissionAssumption DEF AdmissionAssumption
    <3> QED
      BY <3>3, <3>4
  <2>6. AdmissionShape' /\ StatesMade'
    BY <1>1, <2>1 DEF AdmissionInv, AdmissionShape, AdmissionTypeOK, StatesMade
  <2> QED
    BY <2>1, <2>5, <2>6 DEF AdmissionInv
<1> QED
  BY <1>2, <1>3 DEF TakePermit

\* A request is reserved only while the window has room.
LEMMA ReserveKeeps ==
    ASSUME AdmissionInv, NEW r \in Calls, ReserveRequest(r)
    PROVE  AdmissionInv'
<1> DEFINE g == call[r].state
           window == Recent(requests[g])
           room == Len(window) < RequestsPerMinute
<1> USE DEF AdmissionInv, AdmissionShape
<1>1. /\ CallAt(r, "admitted")
      /\ requests' = [requests EXCEPT ![g] = IF room THEN Append(window, minute) ELSE window]
      /\ IF room THEN call' = [call EXCEPT ![r].at = "calling"] ELSE EndCall(r)
      /\ UNCHANGED <<minute, revision, states, made, ownerOf>>
  BY DEF ReserveRequest
<1>2. g \in 1..MaxStates /\ g \in 1..made
  BY <1>1, CallColumns, AdmissionAssumption DEF CallAt, StatesMade, AdmissionTypeOK, AdmissionAssumption
<1>3. /\ window \in Seq(0..MaxMinutes) /\ Len(window) \in Nat
      /\ Len(window) <= Len(requests[g]) /\ Len(requests[g]) <= RequestsPerMinute
  BY <1>2, RecentWindow DEF AdmissionTypeOK, StateBounded
<1>4. RequestsPerMinute \in Nat
  BY AdmissionAssumption DEF AdmissionAssumption
<1> HIDE DEF window
<1>5. /\ requests'[g] \in Seq(0..MaxMinutes) /\ Len(requests'[g]) <= RequestsPerMinute
      /\ requests' \in [1..MaxStates -> Seq(0..MaxMinutes)]
      /\ \A h \in 1..MaxStates : h # g => requests'[h] = requests[h]
  <2>1. CASE room
    <3>1. requests'[g] = Append(window, minute)
      BY <1>1, <1>2, <2>1
    <3>2. Append(window, minute) \in Seq(0..MaxMinutes) /\ Len(Append(window, minute)) = Len(window) + 1
      BY <1>3 DEF AdmissionTypeOK
    <3>3. Len(requests'[g]) <= RequestsPerMinute
      BY <1>3, <1>4, <2>1, <3>1, <3>2
    <3> QED
      BY <1>1, <1>2, <3>1, <3>2, <3>3
  <2>2. CASE ~room
    BY <1>1, <1>2, <1>3, <2>2, AdmissionAssumption DEF AdmissionAssumption
  <2> QED
    BY <2>1, <2>2
<1>6. /\ call' \in [Calls -> CallStep \cup {None}]
      /\ \A q \in Calls : q # r => call'[q] = call[q]
      /\ call'[r] # None => /\ call'[r].at = "calling" /\ call'[r].state = g
                            /\ call'[r].revision = call[r].revision
      /\ revision' = 1 => OneState'
  <2>1. CASE room
    BY <1>1, <2>1, NextPlace
  <2>2. CASE ~room
    <3>1. call' = [call EXCEPT ![r] = None]
      BY <1>1, <2>2 DEF EndCall
    <3> QED
      BY <1>1, <3>1 DEF AdmissionTypeOK, OneState
  <2> QED
    BY <2>1, <2>2
<1>7. \A h \in 1..MaxStates : Holders(h)' \subseteq Holders(h)
  BY <1>1, <1>6 DEF Holders, CallAt
<1>8. StateBounded'
  <2> SUFFICES ASSUME NEW h \in 1..MaxStates
               PROVE  Cardinality(Holders(h)') <= MaxConcurrency /\ Len(requests'[h]) <= RequestsPerMinute
    BY DEF StateBounded
  <2>1. IsFiniteSet(Holders(h)) /\ Cardinality(Holders(h)) \in Nat /\ Cardinality(Holders(h)) <= MaxConcurrency
    BY HoldersCounted DEF StateBounded
  <2>2. Cardinality(Holders(h)') \in Nat /\ Cardinality(Holders(h)') <= Cardinality(Holders(h))
    BY <1>7, <2>1, FS_Subset, FS_CardinalityType
  <2>3. Len(requests'[h]) <= RequestsPerMinute
    BY <1>5 DEF StateBounded
  <2> QED
    BY <2>1, <2>2, <2>3, AdmissionAssumption DEF AdmissionAssumption
<1>9. AdmissionShape'
  BY <1>1, <1>5, <1>6 DEF AdmissionTypeOK
<1>10. StatesMade'
  <2>1. \A q \in Calls : call'[q] # None /\ call'[q].at # "loaded" => call'[q].state \in 1..made
    BY <1>2, <1>6 DEF StatesMade
  <2>2. \A h \in 1..MaxStates : h > made => requests'[h] = <<>>
    BY <1>2, <1>5 DEF StatesMade, AdmissionTypeOK
  <2> QED
    BY <1>1, <2>1, <2>2 DEF StatesMade
<1> QED
  BY <1>6, <1>8, <1>9, <1>10

\* Before any request no admission state exists.
LEMMA AdmissionStart == AdmissionInit => AdmissionInv
<1> SUFFICES ASSUME AdmissionInit
             PROVE  AdmissionInv
  OBVIOUS
<1>1. \A g : Holders(g) = {}
  BY DEF AdmissionInit, Holders, CallAt
<1>2. StateBounded
  <2>1. \A g : Cardinality(Holders(g)) = 0
    BY <1>1, FS_EmptySet
  <2>2. \A g \in 1..MaxStates : Len(requests[g]) = 0
    BY DEF AdmissionInit
  <2> QED
    BY <2>1, <2>2, AdmissionAssumption DEF StateBounded, AdmissionAssumption
<1>3. AdmissionShape
  BY AdmissionAssumption DEF AdmissionInit, AdmissionShape, AdmissionTypeOK, Revisions, AdmissionAssumption
<1> QED
  BY <1>2, <1>3 DEF AdmissionInit, AdmissionInv, StatesMade, OneState

\* Every edit, load, reservation and release keeps AdmissionInv.
LEMMA AdmissionKept == AdmissionInv /\ [AdmissionNext]_admissionVars => AdmissionInv'
<1> SUFFICES ASSUME AdmissionInv, [AdmissionNext]_admissionVars
             PROVE  AdmissionInv'
  OBVIOUS
<1>1. ASSUME UNCHANGED <<requests, call, states, made, ownerOf>>, AdmissionTypeOK', revision' = 1 => revision = 1
      PROVE  AdmissionInv'
  <2>1. StateBounded'
    BY <1>1 DEF StateBounded, Holders, CallAt, AdmissionInv
  <2> QED
    BY <1>1, <2>1 DEF AdmissionInv, AdmissionShape, StatesMade, OneState
<1>2. CASE UNCHANGED admissionVars
  BY <1>1, <1>2 DEF admissionVars, AdmissionInv, AdmissionShape, AdmissionTypeOK
<1>3. CASE EditProvider
  <2>1. revision' \in Revisions /\ revision' # 1
    BY <1>3, AdmissionAssumption
       DEF EditProvider, AdmissionInv, AdmissionShape, AdmissionTypeOK, Revisions, AdmissionAssumption
  <2> QED
    BY <1>1, <1>3, <2>1 DEF EditProvider, AdmissionInv, AdmissionShape, AdmissionTypeOK
<1>4. CASE MinutePasses
  <2>1. minute' \in 0..MaxMinutes
    BY <1>4, AdmissionAssumption
       DEF MinutePasses, AdmissionInv, AdmissionShape, AdmissionTypeOK, AdmissionAssumption
  <2> QED
    BY <1>1, <1>4, <2>1 DEF MinutePasses, AdmissionInv, AdmissionShape, AdmissionTypeOK
<1>5. ASSUME NEW r \in Calls, CallEnds(r)
      PROVE  AdmissionInv'
  BY <1>5, EndingKeeps DEF CallEnds
<1> QED
  BY <1>2, <1>3, <1>4, <1>5, LoadKeeps, FindKeeps, PermitKeeps, ReserveKeeps DEF AdmissionNext

\* While nobody edits the provider its one state counts all calls.
LEMMA UneditedHolds == AdmissionInv => UneditedBounded
<1> SUFFICES ASSUME AdmissionInv, revision = 1, NEW v \in Revisions
             PROVE  /\ Cardinality({r \in Calls : CallAt(r, "calling") /\ call[r].revision = v}) <= MaxConcurrency
                    /\ Cardinality(StartedLately(v)) <= RequestsPerMinute
  BY DEF UneditedBounded, AdmissionBounded
<1> USE DEF AdmissionInv, AdmissionShape
<1>1. OneState /\ MaxConcurrency \in Nat /\ RequestsPerMinute \in Nat /\ made \in 0..MaxStates
      /\ MaxStates \in Nat
  BY AdmissionAssumption DEF AdmissionAssumption, AdmissionTypeOK
<1>2. Cardinality({r \in Calls : CallAt(r, "calling") /\ call[r].revision = v}) <= MaxConcurrency
  <2> DEFINE C == {r \in Calls : CallAt(r, "calling") /\ call[r].revision = v}
  <2>1. CASE C = {}
    <3>1. Cardinality(C) = 0
      BY <2>1, FS_EmptySet
    <3> QED
      BY <1>1, <3>1
  <2>2. CASE C # {}
    <3>1. \A r \in C : call[r].state = 1 /\ made = 1
      BY <1>1 DEF OneState, StatesMade, CallAt
    <3>2. 1 \in 1..MaxStates
      BY <1>1, <2>2, <3>1
    <3>3. C \subseteq Holders(1)
      BY <3>1 DEF Holders
    <3>4. Cardinality(Holders(1)) <= MaxConcurrency /\ Cardinality(Holders(1)) \in Nat
      BY <3>2, HoldersCounted DEF StateBounded
    <3>5. Cardinality(C) <= Cardinality(Holders(1)) /\ Cardinality(C) \in Nat
      BY <3>3, HoldersCounted, FS_Subset, FS_CardinalityType
    <3> QED
      BY <1>1, <3>4, <3>5
  <2> QED
    BY <2>1, <2>2
<1>3. Cardinality(StartedLately(v)) <= RequestsPerMinute
  <2> DEFINE S == StartedLately(v)
  <2>1. ASSUME NEW p \in S
        PROVE  p = <<1, p[2]>> /\ p[2] \in 1..RequestsPerMinute
    <3>1. p \in (1..MaxStates) \X (1..RequestsPerMinute + 1) /\ p[2] <= Len(Recent(requests[p[1]]))
      BY DEF StartedLately
    <3>2. Len(Recent(requests[p[1]])) \in Nat /\ Len(Recent(requests[p[1]])) <= Len(requests[p[1]])
      BY <3>1, RecentWindow DEF AdmissionTypeOK
    <3>3. Len(requests[p[1]]) \in Nat /\ Len(requests[p[1]]) <= RequestsPerMinute
      BY <3>1 DEF StateBounded
    <3>4. p[1] <= made
      BY <1>1, <3>1, <3>2, <3>3 DEF StatesMade
    <3> QED
      BY <1>1, <3>1, <3>2, <3>3, <3>4 DEF OneState
  <2> DEFINE f == [p \in S |-> p[2]]
  <2>2. f \in Injection(S, 1..RequestsPerMinute)
    BY <2>1 DEF Injection, IsInjective
  <2>3. IsFiniteSet(1..RequestsPerMinute) /\ Cardinality(1..RequestsPerMinute) = RequestsPerMinute
    BY <1>1, FS_Interval
  <2> HIDE DEF f, S
  <2>4. Cardinality(S) <= Cardinality(1..RequestsPerMinute)
    BY <2>2, <2>3, FS_Injection
  <2> QED
    BY <2>3, <2>4 DEF S
<1> QED
  BY <1>2, <1>3

-----------------------------------------------------------------------------
(* Limits of the interface                                                 *)

\* The attempts that count are the end of a window; the first of a window
\* that is old enough does not count.
LEMMA LiveWindow ==
    ASSUME NEW w \in Seq(0..MaxInstant), instant \in 0..MaxInstant
    PROVE  /\ Live(w) \in Seq(0..MaxInstant) /\ Len(Live(w)) \in Nat
           /\ Len(w) \in Nat /\ Len(Live(w)) <= Len(w)
           /\ Len(w) > 0 /\ instant - w[1] >= Window => Len(Live(w)) < Len(w)
<1>1. w \in Seq(Nat) /\ instant \in Nat /\ Window \in Nat /\ MaxInstant \in Nat
  BY RateLimitsAssumption, SeqMonotonic DEF RateLimitsAssumption
<1>2. /\ Left(w) \in 0..Len(w)
      /\ Left(w) < Len(w) => instant - w[Left(w) + 1] < Window
  BY <1>1, FrontEnds DEF Left
<1> DEFINE n == Left(w)
<1> HIDE DEF n
<1>3. /\ n \in 0..Len(w) /\ Len(w) \in Nat
      /\ n < Len(w) => instant - w[n + 1] < Window
  BY <1>2 DEF n
<1>4. /\ SubSeq(w, n + 1, Len(w)) \in Seq(0..MaxInstant)
      /\ Len(SubSeq(w, n + 1, Len(w))) = Len(w) - n
  BY <1>3, RestOfWindow
<1>5. ASSUME Len(w) > 0, instant - w[1] >= Window
      PROVE  n # 0
  <2> SUFFICES ASSUME n = 0
               PROVE  FALSE
    OBVIOUS
  <2>1. w[1] \in Nat /\ instant - w[1] < Window
    BY <1>1, <1>3, <1>5
  <2> QED
    BY <1>1, <1>5, <2>1
<1> QED
  BY <1>3, <1>4, <1>5 DEF Live, n

LimitsShape ==
    /\ LimitsTypeOK
    /\ bucket \in [LimitedUsers -> Seq(0..MaxInstant) \cup {None}]
    /\ used \in [LimitedUsers -> 0..MaxInstant]
    /\ told \in [LimitedUsers -> Nat \cup {None}]
    /\ semaphore \in [LimitedUsers -> 1..MaxEntries \cup {None}]

\* No window is overfull, and a user was told to come back when the first
\* attempt of the window that is still there leaves it.
ToldOfWindow ==
    \A u \in LimitedUsers : bucket[u] # None =>
        /\ Len(bucket[u]) <= AttemptLimit
        /\ told[u] # None => Len(bucket[u]) > 0 /\ told[u] = bucket[u][1] + Window

\* No two users have one semaphore, and a request refers to the one its user has.
SemaphoresApart ==
    /\ \A u \in LimitedUsers : semaphore[u] # None => semaphore[u] \in 1..madeSems
    /\ \A u, v \in LimitedUsers : semaphore[u] # None /\ semaphore[u] = semaphore[v] => u = v
    /\ \A r \in Slots : slot[r] # None => slot[r].semaphore = semaphore[slot[r].user]

Granting(n) == {r \in Slots : slot[r] # None /\ slot[r].permit /\ slot[r].semaphore = n}
PermitsBounded == \A n \in 1..MaxEntries : Cardinality(Granting(n)) <= PermitsPerUser

LimitsInv ==
    /\ LimitsShape
    /\ ToldOfWindow
    /\ SemaphoresApart
    /\ PermitsBounded

\* The numbers of the configuration.
LEMMA LimitNumbers ==
    /\ AttemptLimit \in Nat /\ AttemptLimit > 0 /\ Window \in Nat /\ MaxInstant \in Nat
    /\ PermitsPerUser \in Nat /\ PermitsPerUser > 0 /\ MaxEntries \in Nat /\ IsFiniteSet(Slots)
BY RateLimitsAssumption DEF RateLimitsAssumption

\* Requests that hold no more permits than before are within the limit.
LEMMA FewerPermits ==
    ASSUME PermitsBounded, \A n \in 1..MaxEntries : Granting(n)' \subseteq Granting(n)
    PROVE  PermitsBounded'
<1> SUFFICES ASSUME NEW n \in 1..MaxEntries
             PROVE  Cardinality(Granting(n)') <= PermitsPerUser
  BY DEF PermitsBounded
<1>1. IsFiniteSet(Granting(n)) /\ Cardinality(Granting(n)) <= PermitsPerUser
  BY LimitNumbers, FS_Subset DEF Granting, PermitsBounded
<1>2. /\ Cardinality(Granting(n)) \in Nat /\ Cardinality(Granting(n)') \in Nat
      /\ Cardinality(Granting(n)') <= Cardinality(Granting(n))
  BY <1>1, FS_Subset, FS_CardinalityType
<1> QED
  BY <1>1, <1>2, LimitNumbers

\* An admitted attempt: one more in the window, other users may lose theirs.
LEMMA AdmitKeeps ==
    ASSUME LimitsInv, NEW u \in LimitedUsers, NEW kept, NEW w \in Seq(0..MaxInstant),
           Len(w) < AttemptLimit, Admit(u, w, kept),
           UNCHANGED <<instant, semaphore, madeSems, slot>>
    PROVE  LimitsInv'
<1> USE DEF LimitsInv, LimitsShape
<1>1. instant \in 0..MaxInstant
  BY DEF LimitsTypeOK
<1>2. Append(w, instant) \in Seq(0..MaxInstant) /\ Len(Append(w, instant)) = Len(w) + 1 /\ Len(w) \in Nat
  BY <1>1
<1>3. /\ bucket' \in [LimitedUsers -> Seq(0..MaxInstant) \cup {None}]
      /\ bucket'[u] = Append(w, instant)
      /\ \A v \in LimitedUsers : v # u /\ bucket'[v] # None => bucket'[v] = bucket[v]
  BY <1>2 DEF Admit
<1>4. /\ used' \in [LimitedUsers -> 0..MaxInstant]
      /\ told' \in [LimitedUsers -> Nat \cup {None}]
      /\ told'[u] = None /\ \A v \in LimitedUsers : v # u => told'[v] = told[v]
  BY <1>1 DEF Admit
<1>5. ToldOfWindow'
  <2> SUFFICES ASSUME NEW v \in LimitedUsers, bucket'[v] # None
               PROVE  /\ Len(bucket'[v]) <= AttemptLimit
                      /\ told'[v] # None => Len(bucket'[v]) > 0 /\ told'[v] = bucket'[v][1] + Window
    BY DEF ToldOfWindow
  <2>1. CASE v = u
    BY <1>2, <1>3, <1>4, <2>1, LimitNumbers
  <2>2. CASE v # u
    BY <1>3, <1>4, <2>2 DEF ToldOfWindow
  <2> QED
    BY <2>1, <2>2
<1>6. LimitsShape'
  BY <1>3, <1>4 DEF LimitsTypeOK
<1>7. SemaphoresApart' /\ PermitsBounded'
  BY DEF SemaphoresApart, PermitsBounded, Granting
<1> QED
  BY <1>5, <1>6, <1>7

\* UserMutationLimiter::check keeps the windows, and what it told the users it refused.
LEMMA CheckKeeps ==
    ASSUME LimitsInv, NEW u \in LimitedUsers, CheckMutation(u)
    PROVE  LimitsInv'
<1> USE DEF LimitsInv, LimitsShape
<1>1. UNCHANGED <<instant, semaphore, madeSems, slot>> /\ instant \in 0..MaxInstant
  BY DEF CheckMutation, LimitsTypeOK
<1>2. CASE bucket[u] = None
  <2>1. PICK kept \in Survivors : Admit(u, <<>>, kept)
    BY <1>2 DEF CheckMutation
  <2>2. <<>> \in Seq(0..MaxInstant) /\ Len(<<>>) < AttemptLimit
    BY LimitNumbers
  <2> QED
    BY <1>1, <2>1, <2>2, AdmitKeeps
<1>3. CASE bucket[u] # None
  <2> DEFINE w == Live(bucket[u])
  <2>1. bucket[u] \in Seq(0..MaxInstant)
    BY <1>3
  <2>2. /\ w \in Seq(0..MaxInstant) /\ Len(w) \in Nat /\ Len(w) <= Len(bucket[u])
        /\ Len(bucket[u]) \in Nat /\ Len(bucket[u]) <= AttemptLimit
    BY <1>1, <1>3, <2>1, LiveWindow DEF ToldOfWindow
  <2>3. /\ Len(w) < AttemptLimit => Admit(u, w, Tracked)
        /\ ~(Len(w) < AttemptLimit) =>
              /\ bucket' = [bucket EXCEPT ![u] = w]
              /\ told' = [told EXCEPT ![u] = Head(w) + Window]
              /\ UNCHANGED used
    BY <1>3 DEF CheckMutation
  <2> HIDE DEF w
  <2>4. CASE Len(w) < AttemptLimit
    BY <1>1, <2>2, <2>3, <2>4, AdmitKeeps
  <2>5. CASE ~(Len(w) < AttemptLimit)
    <3>1. Len(w) = AttemptLimit /\ Len(w) > 0
      BY <2>2, <2>5, LimitNumbers
    <3>2. Head(w) = w[1] /\ w[1] \in 0..MaxInstant /\ Head(w) + Window \in Nat
      BY <2>2, <3>1, LimitNumbers
    <3>3. /\ bucket' \in [LimitedUsers -> Seq(0..MaxInstant) \cup {None}]
          /\ bucket'[u] = w
          /\ \A v \in LimitedUsers : v # u => bucket'[v] = bucket[v]
      BY <2>2, <2>3, <2>5
    <3>4. /\ told' \in [LimitedUsers -> Nat \cup {None}] /\ used' = used
          /\ told'[u] = w[1] + Window
          /\ \A v \in LimitedUsers : v # u => told'[v] = told[v]
      BY <2>3, <2>5, <3>2
    <3>5. ToldOfWindow'
      <4> SUFFICES ASSUME NEW v \in LimitedUsers, bucket'[v] # None
                   PROVE  /\ Len(bucket'[v]) <= AttemptLimit
                          /\ told'[v] # None => Len(bucket'[v]) > 0 /\ told'[v] = bucket'[v][1] + Window
        BY DEF ToldOfWindow
      <4>1. CASE v = u
        BY <3>1, <3>3, <3>4, <4>1, LimitNumbers
      <4>2. CASE v # u
        BY <3>3, <3>4, <4>2 DEF ToldOfWindow
      <4> QED
        BY <4>1, <4>2
    <3>6. LimitsShape'
      BY <1>1, <3>3, <3>4 DEF LimitsTypeOK
    <3>7. SemaphoresApart' /\ PermitsBounded'
      BY <1>1 DEF SemaphoresApart, PermitsBounded, Granting
    <3> QED
      BY <3>5, <3>6, <3>7
  <2> QED
    BY <2>4, <2>5
<1> QED
  BY <1>2, <1>3

\* A request finds the entry of its user, or makes one in place of an idle one.
LEMMA FindSemaphoreKeeps ==
    ASSUME LimitsInv, NEW r \in Slots, NEW u \in LimitedUsers, FindSemaphore(r, u)
    PROVE  LimitsInv'
<1> USE DEF LimitsInv, LimitsShape
<1>1. UNCHANGED <<instant, bucket, used, told>> /\ slot[r] = None
      /\ madeSems \in 0..MaxEntries /\ MaxEntries \in Nat
  BY LimitNumbers DEF FindSemaphore, LimitsTypeOK
<1>2. ToldOfWindow'
  BY <1>1 DEF ToldOfWindow
<1>3. \E n \in 1..MaxEntries :
        /\ slot' = [slot EXCEPT ![r] = [user |-> u, semaphore |-> n, permit |-> FALSE]]
        /\ semaphore'[u] = n
        /\ semaphore' \in [LimitedUsers -> 1..MaxEntries \cup {None}]
        /\ madeSems' \in 0..MaxEntries
        /\ \A v \in LimitedUsers : semaphore'[v] # None => semaphore'[v] \in 1..madeSems'
        /\ \A v, x \in LimitedUsers : semaphore'[v] # None /\ semaphore'[v] = semaphore'[x] => v = x
        /\ \A q \in Slots : slot[q] # None => slot[q].semaphore = semaphore'[slot[q].user]
  <2>1. CASE u \in Entries
    <3>1. /\ slot' = [slot EXCEPT ![r] = [user |-> u, semaphore |-> semaphore[u], permit |-> FALSE]]
          /\ UNCHANGED <<semaphore, madeSems>>
      BY <2>1 DEF FindSemaphore
    <3>2. semaphore[u] \in 1..MaxEntries
      BY <2>1 DEF Entries
    <3> QED
      BY <1>1, <3>1, <3>2 DEF SemaphoresApart
  <2>2. CASE u \notin Entries
    <3>1. PICK gone \in (IF Cardinality(Entries) < MaxKeys THEN {None} ELSE IdleEntries) :
             semaphore' = [v \in LimitedUsers |->
                 IF v = u THEN madeSems + 1 ELSE IF v = gone THEN None ELSE semaphore[v]]
      BY <2>2 DEF FindSemaphore
    <3>2. /\ madeSems < MaxEntries /\ madeSems' = madeSems + 1
          /\ slot' = [slot EXCEPT ![r] = [user |-> u, semaphore |-> madeSems + 1, permit |-> FALSE]]
          /\ semaphore[u] = None
      BY <2>2 DEF FindSemaphore, Entries
    <3>3. madeSems + 1 \in 1..MaxEntries /\ madeSems' \in 0..MaxEntries
      BY <1>1, <3>2
    <3>4. \A v \in LimitedUsers : semaphore[v] # None => semaphore[v] \in 1..madeSems
      BY DEF SemaphoresApart
    <3>5. semaphore'[u] = madeSems + 1 /\ semaphore' \in [LimitedUsers -> 1..MaxEntries \cup {None}]
      BY <3>1, <3>3
    <3>6. \A v \in LimitedUsers : semaphore'[v] # None =>
             v = u \/ (semaphore'[v] = semaphore[v] /\ semaphore[v] # None)
      BY <3>1
    <3>7. \A v \in LimitedUsers : semaphore'[v] # None => semaphore'[v] \in 1..madeSems'
      <4> TAKE v \in LimitedUsers
      <4> HAVE semaphore'[v] # None
      <4>1. CASE v = u
        BY <1>1, <3>2, <3>5, <4>1
      <4>2. CASE v # u
        <5>1. semaphore'[v] = semaphore[v] /\ semaphore[v] \in 1..madeSems
          BY <3>4, <3>6, <4>2
        <5> QED
          BY <1>1, <3>2, <5>1
      <4> QED
        BY <4>1, <4>2
    <3>8. ASSUME NEW v \in LimitedUsers, NEW x \in LimitedUsers,
                 semaphore'[v] # None, semaphore'[v] = semaphore'[x]
          PROVE  v = x
      BY <1>1, <3>4, <3>5, <3>6, <3>8 DEF SemaphoresApart
    <3>9. ASSUME NEW q \in Slots, slot[q] # None
          PROVE  slot[q].semaphore = semaphore'[slot[q].user]
      <4> DEFINE v == slot[q].user
      <4>1. slot[q] \in Request
        BY <3>9 DEF LimitsTypeOK
      <4>2. v \in LimitedUsers /\ slot[q].semaphore \in 1..MaxEntries /\ slot[q].semaphore = semaphore[v]
        BY <3>9, <4>1 DEF Request, SemaphoresApart
      <4>3. semaphore[v] # None
        BY <4>2, RateLimitsAssumption DEF RateLimitsAssumption
      <4>4. v # u
        BY <3>2, <4>3
      <4>5. v # gone
        <5>1. Referred(semaphore[v])
          BY <3>9, <4>2 DEF Referred
        <5>2. v \notin IdleEntries
          BY <5>1 DEF IdleEntries
        <5>3. CASE Cardinality(Entries) < MaxKeys
          BY <3>1, <4>2, <4>3, <5>3, RateLimitsAssumption DEF RateLimitsAssumption
        <5> QED
          BY <3>1, <5>2, <5>3
      <4> QED
        BY <3>1, <4>2, <4>4, <4>5
    <3> QED
      BY <3>2, <3>3, <3>5, <3>7, <3>8, <3>9
  <2> QED
    BY <2>1, <2>2
<1>4. PICK n \in 1..MaxEntries :
        /\ slot' = [slot EXCEPT ![r] = [user |-> u, semaphore |-> n, permit |-> FALSE]]
        /\ semaphore'[u] = n
        /\ semaphore' \in [LimitedUsers -> 1..MaxEntries \cup {None}]
        /\ madeSems' \in 0..MaxEntries
        /\ \A v \in LimitedUsers : semaphore'[v] # None => semaphore'[v] \in 1..madeSems'
        /\ \A v, x \in LimitedUsers : semaphore'[v] # None /\ semaphore'[v] = semaphore'[x] => v = x
        /\ \A q \in Slots : slot[q] # None => slot[q].semaphore = semaphore'[slot[q].user]
  BY <1>3
<1>5. [user |-> u, semaphore |-> n, permit |-> FALSE] \in Request
  BY DEF Request
<1>6. /\ slot' \in [Slots -> Request \cup {None}]
      /\ slot'[r] = [user |-> u, semaphore |-> n, permit |-> FALSE]
      /\ \A q \in Slots : q # r => slot'[q] = slot[q]
  BY <1>4, <1>5 DEF LimitsTypeOK
<1>7. LimitsShape'
  BY <1>1, <1>4, <1>6 DEF LimitsTypeOK
<1>8. SemaphoresApart'
  BY <1>4, <1>6 DEF SemaphoresApart
<1>9. \A m \in 1..MaxEntries : Granting(m)' \subseteq Granting(m)
  BY <1>6 DEF Granting
<1> QED
  BY <1>2, <1>7, <1>8, <1>9, FewerPermits

\* A request that goes, with or without its permit.
LEMMA LeavingKeeps ==
    ASSUME LimitsInv, NEW r \in Slots, slot' = [slot EXCEPT ![r] = None],
           UNCHANGED <<instant, bucket, used, told, semaphore, madeSems>>
    PROVE  LimitsInv'
<1> USE DEF LimitsInv, LimitsShape
<1>1. /\ slot' \in [Slots -> Request \cup {None}]
      /\ \A q \in Slots : slot'[q] # None => slot'[q] = slot[q]
  BY DEF LimitsTypeOK
<1>2. \A n \in 1..MaxEntries : Granting(n)' \subseteq Granting(n)
  BY <1>1 DEF Granting
<1>3. LimitsShape' /\ ToldOfWindow' /\ SemaphoresApart'
  BY <1>1 DEF LimitsTypeOK, ToldOfWindow, SemaphoresApart
<1> QED
  BY <1>2, <1>3, FewerPermits

\* UserConcurrencyLimiter::try_acquire hands out permits of the user's own semaphore only.
LEMMA AcquireKeeps ==
    ASSUME LimitsInv, NEW r \in Slots, TryAcquire(r)
    PROVE  LimitsInv'
<1> USE DEF LimitsInv, LimitsShape
<1>1. slot[r] # None /\ UNCHANGED <<instant, bucket, used, told, semaphore, madeSems>>
  BY DEF TryAcquire
<1>2. CASE slot' = [slot EXCEPT ![r] = None]
  BY <1>1, <1>2, LeavingKeeps
<1>3. CASE Granted(slot[r].semaphore) < PermitsPerUser /\ slot' = [slot EXCEPT ![r].permit = TRUE]
  <2> DEFINE g == slot[r].semaphore
  <2>1. slot[r] \in Request /\ slot'[r] = [slot[r] EXCEPT !.permit = TRUE]
    BY <1>1, <1>3 DEF LimitsTypeOK
  <2>2. slot'[r] \in Request /\ slot'[r].semaphore = g /\ slot'[r].user = slot[r].user
    BY <2>1 DEF Request
  <2>3. slot' \in [Slots -> Request \cup {None}] /\ \A q \in Slots : q # r => slot'[q] = slot[q]
    BY <1>3, <2>2 DEF LimitsTypeOK
  <2>4. \A n : n # g => Granting(n)' \subseteq Granting(n)
    BY <2>2, <2>3 DEF Granting
  <2>5. \A n : n = g => Granting(n)' \subseteq Granting(n) \cup {r}
    BY <2>3 DEF Granting
  <2>6. \A n : n = g => Cardinality(Granting(n)) < PermitsPerUser
    BY <1>3 DEF Granted, Granting
  <2> HIDE DEF g
  <2>7. PermitsBounded'
    <3> SUFFICES ASSUME NEW n \in 1..MaxEntries
                 PROVE  Cardinality(Granting(n)') <= PermitsPerUser
      BY DEF PermitsBounded
    <3>1. IsFiniteSet(Granting(n)) /\ Cardinality(Granting(n)) \in Nat
          /\ Cardinality(Granting(n)) <= PermitsPerUser
      BY LimitNumbers, FS_Subset, FS_CardinalityType DEF Granting, PermitsBounded
    <3>2. IsFiniteSet(Granting(n) \cup {r}) /\ Cardinality(Granting(n) \cup {r}) \in Nat
          /\ Cardinality(Granting(n) \cup {r}) <= Cardinality(Granting(n)) + 1
      BY <3>1, OneMore
    <3>3. CASE n = g
      <4>1. Granting(n)' \subseteq Granting(n) \cup {r} /\ Cardinality(Granting(n)) < PermitsPerUser
        BY <2>5, <2>6, <3>3
      <4>2. Cardinality(Granting(n)') \in Nat
            /\ Cardinality(Granting(n)') <= Cardinality(Granting(n) \cup {r})
        BY <3>2, <4>1, FS_Subset, FS_CardinalityType
      <4> QED
        BY <3>1, <3>2, <4>1, <4>2, LimitNumbers
    <3>4. CASE n # g
      <4>1. Granting(n)' \subseteq Granting(n)
        BY <2>4, <3>4
      <4>2. Cardinality(Granting(n)') \in Nat /\ Cardinality(Granting(n)') <= Cardinality(Granting(n))
        BY <3>1, <4>1, FS_Subset, FS_CardinalityType
      <4> QED
        BY <3>1, <4>2, LimitNumbers
    <3> QED
      BY <3>3, <3>4
  <2>8. LimitsShape' /\ ToldOfWindow'
    BY <1>1, <2>3 DEF LimitsTypeOK, ToldOfWindow
  <2>9. SemaphoresApart'
    BY <1>1, <2>2, <2>3 DEF SemaphoresApart, g
  <2> QED
    BY <2>7, <2>8, <2>9
<1> QED
  BY <1>2, <1>3 DEF TryAcquire

\* Both limiters start with empty maps.
LEMMA LimitsStart == LimitsInit => LimitsInv
<1> SUFFICES ASSUME LimitsInit
             PROVE  LimitsInv
  OBVIOUS
<1>1. \A n : Granting(n) = {}
  BY DEF LimitsInit, Granting
<1>2. PermitsBounded
  BY <1>1, FS_EmptySet, LimitNumbers DEF PermitsBounded
<1>3. LimitsShape
  BY LimitNumbers DEF LimitsInit, LimitsShape, LimitsTypeOK
<1> QED
  BY <1>2, <1>3 DEF LimitsInit, LimitsInv, ToldOfWindow, SemaphoresApart

\* Every check, request and release keeps LimitsInv.
LEMMA LimitsKept == LimitsInv /\ [LimitsNext]_limitVars => LimitsInv'
<1> SUFFICES ASSUME LimitsInv, [LimitsNext]_limitVars
             PROVE  LimitsInv'
  OBVIOUS
<1>1. ASSUME UNCHANGED <<bucket, used, told, semaphore, madeSems, slot>>, instant' \in 0..MaxInstant
      PROVE  LimitsInv'
  BY <1>1 DEF LimitsInv, LimitsShape, LimitsTypeOK, ToldOfWindow, SemaphoresApart, PermitsBounded, Granting
<1>2. CASE UNCHANGED limitVars
  BY <1>1, <1>2 DEF limitVars, LimitsInv, LimitsShape, LimitsTypeOK
<1>3. CASE InstantPasses
  <2>1. instant' \in 0..MaxInstant
    BY <1>3, LimitNumbers DEF InstantPasses, LimitsInv, LimitsShape, LimitsTypeOK
  <2> QED
    BY <1>1, <1>3, <2>1 DEF InstantPasses
<1>4. ASSUME NEW r \in Slots, ReleaseSlot(r)
      PROVE  LimitsInv'
  BY <1>4, LeavingKeeps DEF ReleaseSlot
<1> QED
  BY <1>2, <1>3, <1>4, CheckKeeps, FindSemaphoreKeeps, AcquireKeeps DEF LimitsNext

\* One user's requests hold permits of one semaphore; a first attempt that is
\* old enough leaves the window.
LEMMA LimitedHolds == LimitsInv => ConcurrencyBounded /\ RetryTimeHolds
<1> SUFFICES ASSUME LimitsInv
             PROVE  ConcurrencyBounded /\ RetryTimeHolds
  OBVIOUS
<1> USE DEF LimitsInv, LimitsShape
<1>1. ASSUME NEW u \in LimitedUsers
      PROVE  Cardinality({r \in Slots : slot[r] # None /\ slot[r].permit /\ slot[r].user = u}) <= PermitsPerUser
  <2> DEFINE H == {r \in Slots : slot[r] # None /\ slot[r].permit /\ slot[r].user = u}
  <2>1. CASE H = {}
    <3>1. Cardinality(H) = 0
      BY <2>1, FS_EmptySet
    <3> QED
      BY <3>1, LimitNumbers
  <2>2. CASE H # {}
    <3> DEFINE n == semaphore[u]
    <3>1. \A r \in H : slot[r] \in Request /\ slot[r].semaphore = n
      BY DEF LimitsTypeOK, SemaphoresApart
    <3>2. n \in 1..MaxEntries
      BY <2>2, <3>1 DEF Request
    <3>3. H \subseteq Granting(n)
      BY <3>1 DEF Granting
    <3>4. IsFiniteSet(Granting(n)) /\ Cardinality(Granting(n)) <= PermitsPerUser
      BY <3>2, LimitNumbers, FS_Subset DEF Granting, PermitsBounded
    <3>5. /\ Cardinality(Granting(n)) \in Nat /\ Cardinality(H) \in Nat
          /\ Cardinality(H) <= Cardinality(Granting(n))
      BY <3>3, <3>4, FS_Subset, FS_CardinalityType
    <3> QED
      BY <3>4, <3>5, LimitNumbers
  <2> QED
    BY <2>1, <2>2
<1>2. ASSUME NEW u \in LimitedUsers, told[u] # None, told[u] <= instant, bucket[u] # None
      PROVE  Len(Live(bucket[u])) < AttemptLimit
  <2>1. bucket[u] \in Seq(0..MaxInstant) /\ instant \in 0..MaxInstant
    BY <1>2 DEF LimitsTypeOK
  <2>2. /\ Len(bucket[u]) <= AttemptLimit /\ Len(bucket[u]) > 0
        /\ told[u] = bucket[u][1] + Window
    BY <1>2 DEF ToldOfWindow
  <2>3. bucket[u][1] \in 0..MaxInstant
    BY <2>1, <2>2, FirstOfWindow
  <2>4. instant - bucket[u][1] >= Window
    BY <1>2, <2>1, <2>2, <2>3, LimitNumbers
  <2>5. Len(Live(bucket[u])) \in Nat /\ Len(bucket[u]) \in Nat /\ Len(Live(bucket[u])) < Len(bucket[u])
    BY <2>1, <2>2, <2>4, LiveWindow
  <2> QED
    BY <2>2, <2>5, LimitNumbers
<1> QED
  BY <1>1, <1>2 DEF ConcurrencyBounded, RetryTimeHolds

-----------------------------------------------------------------------------
(* Pages of a list                                                         *)

\* a comes before b in a list.
Precedes(a, b) == Before(entry[a].sort, a, entry[b].sort, b)

\* The rows of a finite set stand in one order, each at its place.
LEMMA RowsInOrder ==
    ASSUME NEW S \in SUBSET Articles, \A a \in S : entry[a].sort \in Nat
    PROVE  LET n == Cardinality(S) rows == InOrder(S) IN
           /\ n \in Nat
           /\ rows \in [1..n -> S]
           /\ \A i, j \in 1..n : i < j => Precedes(rows[i], rows[j])
           /\ \A a \in S : \E i \in 1..n : rows[i] = a
<1> DEFINE n == Cardinality(S)
           Earlier(a) == {b \in S : Precedes(b, a)}
           place == [a \in S |-> Cardinality(Earlier(a)) + 1]
           Ordered(rows) == \A i, j \in 1..n : i < j => Precedes(rows[i], rows[j])
<1>1. S \subseteq Nat /\ IsFiniteSet(S) /\ n \in Nat
  BY StoreAssumption, FS_Subset, FS_CardinalityType DEF StoreAssumption
<1>2. \A a, b, c \in S :
         /\ ~Precedes(a, a)
         /\ Precedes(a, b) => ~Precedes(b, a)
         /\ Precedes(a, b) /\ Precedes(b, c) => Precedes(a, c)
         /\ a # b => Precedes(a, b) \/ Precedes(b, a)
  <2> TAKE a, b, c \in S
  <2>1. /\ a \in Nat /\ b \in Nat /\ c \in Nat
        /\ entry[a].sort \in Nat /\ entry[b].sort \in Nat /\ entry[c].sort \in Nat
    BY <1>1
  <2> DEFINE x == entry[a].sort
             y == entry[b].sort
             z == entry[c].sort
  <2> HIDE DEF x, y, z
  <2>2. x \in Nat /\ y \in Nat /\ z \in Nat
    BY <2>1 DEF x, y, z
  <2>3. /\ ~Before(x, a, x, a)
        /\ Before(x, a, y, b) => ~Before(y, b, x, a)
        /\ Before(x, a, y, b) /\ Before(y, b, z, c) => Before(x, a, z, c)
        /\ a # b => Before(x, a, y, b) \/ Before(y, b, x, a)
    BY <2>1, <2>2 DEF Before
  <2> QED
    BY <2>3 DEF Precedes, x, y, z
<1>3. ASSUME NEW a \in S
      PROVE  /\ IsFiniteSet(Earlier(a)) /\ Cardinality(Earlier(a)) \in Nat
             /\ Cardinality(Earlier(a)) < n
  <2>1. Earlier(a) \subseteq S /\ a \notin Earlier(a)
    BY <1>2
  <2> HIDE DEF Earlier
  <2>2. IsFiniteSet(Earlier(a)) /\ Cardinality(Earlier(a)) \in Nat
    BY <1>1, <2>1, FS_Subset, FS_CardinalityType
  <2>3. Cardinality(Earlier(a)) < n
    <3>1. Earlier(a) # S
      BY <2>1
    <3> QED
      BY <1>1, <2>1, <2>2, <3>1, FS_Subset
  <2> QED
    BY <2>2, <2>3
<1>4. ASSUME NEW a \in S, NEW b \in S, Precedes(a, b)
      PROVE  place[a] < place[b]
  <2>1. Earlier(a) \subseteq Earlier(b) /\ a \in Earlier(b) /\ a \notin Earlier(a)
    BY <1>2, <1>4
  <2>2. IsFiniteSet(Earlier(b)) /\ Cardinality(Earlier(a)) \in Nat /\ Cardinality(Earlier(b)) \in Nat
    BY <1>3
  <2> HIDE DEF Earlier
  <2>3. Cardinality(Earlier(a)) < Cardinality(Earlier(b))
    BY <2>1, <2>2, FS_Subset
  <2> QED
    BY <2>2, <2>3
<1>5. place \in Injection(S, 1..n)
  <2>1. \A a \in S : place[a] \in 1..n
    BY <1>1, <1>3
  <2>2. \A a, b \in S : place[a] = place[b] => a = b
    <3> HIDE DEF place
    <3> SUFFICES ASSUME NEW a \in S, NEW b \in S, place[a] = place[b], a # b
                 PROVE  FALSE
      OBVIOUS
    <3>1. place[a] \in Nat /\ place[b] \in Nat
      BY <1>1, <2>1
    <3> QED
      BY <1>2, <1>4, <3>1
  <2> QED
    BY <2>1, <2>2 DEF Injection, IsInjective
<1>6. IsFiniteSet(1..n) /\ Cardinality(1..n) = n
  BY <1>1, FS_Interval
<1> HIDE DEF place
<1>7. place \in Surjection(S, 1..n)
  BY <1>5, <1>6, FS_Injection
<1>8. place \in [S -> 1..n] /\ \A i \in 1..n : \E a \in S : place[a] = i
  BY <1>5, <1>7 DEF Injection, Surjection
<1> DEFINE listed == [i \in 1..n |-> CHOOSE a \in S : place[a] = i]
<1>9. listed \in [1..n -> S] /\ \A i \in 1..n : place[listed[i]] = i
  BY <1>8
<1> HIDE DEF listed
<1>10. Ordered(listed)
  <2> SUFFICES ASSUME NEW i \in 1..n, NEW j \in 1..n, i < j
               PROVE  Precedes(listed[i], listed[j])
    OBVIOUS
  <2>1. listed[i] \in S /\ listed[j] \in S /\ place[listed[i]] = i /\ place[listed[j]] = j
    BY <1>9
  <2>2. listed[i] # listed[j] /\ ~(j < i)
    BY <1>1, <2>1
  <2> QED
    BY <1>2, <1>4, <2>1, <2>2
<1> DEFINE rows == InOrder(S)
<1>11. rows \in [1..n -> S] /\ Ordered(rows)
  BY <1>9, <1>10 DEF InOrder, Precedes
<1> HIDE DEF rows
<1>12. rows \in Injection(1..n, S)
  <2>1. \A i, j \in 1..n : rows[i] = rows[j] => i = j
    <3> SUFFICES ASSUME NEW i \in 1..n, NEW j \in 1..n, rows[i] = rows[j], i # j
                 PROVE  FALSE
      OBVIOUS
    <3>1. i < j \/ j < i
      BY <1>1
    <3>2. rows[i] \in S /\ ~Precedes(rows[i], rows[i])
      BY <1>2, <1>11
    <3> QED
      BY <1>11, <3>1, <3>2
  <2> QED
    BY <1>11, <2>1 DEF Injection, IsInjective
<1>13. rows \in Surjection(1..n, S)
  BY <1>1, <1>6, <1>12, FS_Injection
<1>14. \A a \in S : \E i \in 1..n : rows[i] = a
  BY <1>13 DEF Surjection
<1> HIDE DEF n
<1> QED
  BY <1>1, <1>11, <1>14 DEF n, rows

\* What is listed of the store has a place.
LEMMA ListedRows ==
    ASSUME StoreTypeOK, NEW u \in Readers
    PROVE  /\ ListRows(u) \in SUBSET Articles
           /\ \A a \in ListRows(u) : /\ entry[a] # NULL /\ entry[a] \in Row
                                     /\ entry[a].sort \in Dates /\ entry[a].sort \in Nat
<1>1. ListRows(u) \subseteq Articles /\ \A a \in ListRows(u) : entry[a] # NULL
  BY DEF ListRows, Matches, Visible
<1>2. \A a \in ListRows(u) : entry[a] \in Row
  BY <1>1, RowsAreThere
<1> QED
  BY <1>1, <1>2, StoreAssumption DEF Row, StoreAssumption

\* A page is the beginning of what is listed: all of it, or as much as the
\* limit allows, and then the rest comes after the last row of the page.
LEMMA PageOfList ==
    ASSUME StoreTypeOK, NEW u \in Readers
    PROVE  /\ Page(u) \in Seq(Articles) /\ Len(Page(u)) \in Nat
           /\ \A i \in 1..Len(Page(u)) : Page(u)[i] \in ListRows(u)
           /\ \A i, j \in 1..Len(Page(u)) : i < j => Precedes(Page(u)[i], Page(u)[j])
           /\ ~HasMore(u) => \A a \in ListRows(u) : \E i \in 1..Len(Page(u)) : Page(u)[i] = a
           /\ HasMore(u) =>
                 /\ Len(Page(u)) > 0 /\ Last(Page(u)) = Page(u)[Len(Page(u))]
                 /\ \A a \in ListRows(u) :
                       (\E i \in 1..Len(Page(u)) : Page(u)[i] = a) \/ Precedes(Last(Page(u)), a)
<1> DEFINE S == ListRows(u)
           n == Cardinality(S)
           rows == InOrder(S)
<1>1. S \in SUBSET Articles /\ \A a \in S : entry[a].sort \in Nat
  BY ListedRows
<1> HIDE DEF S
<1>2. /\ n \in Nat /\ rows \in [1..n -> S]
      /\ \A i, j \in 1..n : i < j => Precedes(rows[i], rows[j])
      /\ \A a \in S : \E i \in 1..n : rows[i] = a
  BY <1>1, RowsInOrder
<1>3. HasMore(u) <=> n > PageLimit
  BY DEF HasMore, S
<1>4. Page(u) = IF HasMore(u) THEN SubSeq(rows, 1, PageLimit) ELSE rows
  BY DEF Page, S
<1>5. PageLimit \in Nat /\ PageLimit > 0
  BY ListAssumption DEF ListAssumption
<1> HIDE DEF n, rows
<1>6. rows \in [1..n -> Articles]
  BY <1>1, <1>2
<1>7. CASE ~HasMore(u)
  <2>1. rows \in Seq(Articles) /\ Len(rows) = n
    BY <1>2, <1>6
  <2> QED
    BY <1>2, <1>4, <1>7, <2>1 DEF S
<1>8. CASE HasMore(u)
  <2>1. PageLimit \in 0..n /\ PageLimit \in Int /\ 1 \in Int
    BY <1>2, <1>3, <1>5, <1>8
  <2>2. \A i \in 1..PageLimit : rows[i] \in Articles
    BY <1>2, <1>6, <2>1
  <2>3. /\ SubSeq(rows, 1, PageLimit) \in Seq(Articles)
        /\ Len(SubSeq(rows, 1, PageLimit)) = IF 1 <= PageLimit THEN PageLimit - 1 + 1 ELSE 0
        /\ \A i \in 1..PageLimit - 1 + 1 : SubSeq(rows, 1, PageLimit)[i] = rows[1 + i - 1]
    BY <2>1, <2>2, SubSeqProperties
  <2>4. /\ Page(u) \in Seq(Articles) /\ Len(Page(u)) = PageLimit
        /\ \A i \in 1..PageLimit : Page(u)[i] = rows[i]
    BY <1>4, <1>5, <1>8, <2>3
  <2>5. Last(Page(u)) = Page(u)[Len(Page(u))]
    BY DEF Last
  <2>6. ASSUME NEW a \in S
        PROVE  (\E i \in 1..PageLimit : Page(u)[i] = a) \/ Precedes(Page(u)[PageLimit], a)
    <3>1. PICK i \in 1..n : rows[i] = a
      BY <1>2
    <3>2. CASE i <= PageLimit
      <4>1. i \in 1..PageLimit
        BY <1>2, <1>5, <3>2
      <4> QED
        BY <2>4, <3>1, <4>1
    <3>3. CASE PageLimit < i
      <4>1. PageLimit \in 1..n /\ PageLimit \in 1..PageLimit
        BY <1>5, <2>1
      <4> QED
        BY <1>2, <2>4, <3>1, <3>3, <4>1
    <3> QED
      BY <1>2, <1>5, <3>2, <3>3
  <2>7. \A i \in 1..PageLimit : i \in 1..n
    BY <1>2, <2>1
  <2> QED
    BY <1>2, <1>5, <1>8, <2>4, <2>5, <2>6, <2>7 DEF S
<1> QED
  BY <1>7, <1>8

-----------------------------------------------------------------------------
(* Walks                                                                   *)

\* An entry that a walk has behind it: it is gone, it came after the walk
\* began, or the cursor is past its place.
Behind(u, a) ==
    \/ entry[a] = NULL
    \/ entry[a].gen > walk[u].gen
    \/ walk[u].last # NULL /\ ~Before(walk[u].at, walk[u].last, entry[a].sort, a)

\* An entry that matched all the while was shown or is still to come.
StillAhead(u, a) ==
    /\ Matches(u, a, walk[u].filter)
    /\ entry[a].gen <= walk[u].gen
    /\ \/ a \in ToSet(walk[u].shown)
       \/ walk[u].last = NULL
       \/ Before(walk[u].at, walk[u].last, entry[a].sort, a)

WalkOK(u) ==
    LET w == walk[u] IN
    /\ IsInjective(w.shown)
    /\ w.pc \in {"none", "first"} => w.shown = <<>> /\ w.last = NULL
    /\ w.pc = "more" => w.last # NULL /\ w.at # NULL
    /\ w.pc \in {"first", "more"} =>
          /\ w.gen <= generation
          /\ \A a \in ToSet(w.shown) : Behind(u, a)
          /\ \A a \in w.due : StillAhead(u, a)
    /\ w.pc = "done" => w.due \subseteq ToSet(w.shown)

ListInv == StoreInv /\ walk \in [Readers -> Walk] /\ \A u \in Readers : WalkOK(u)

\* What a walk consists of.
LEMMA WalkColumns ==
    ASSUME NEW w \in Walk
    PROVE  /\ w.pc \in {"none", "first", "more", "done"} /\ w.filter \in Filters /\ w.gen \in Nat
           /\ w.last \in Articles \cup {NULL} /\ w.at \in Dates \cup {NULL}
           /\ w.shown \in Seq(Articles) /\ w.due \in SUBSET Articles
BY DEF Walk

\* A walk that shows nothing yet.
LEMMA ForgottenWalk ==
    /\ NoWalk \in Walk
    /\ NoWalk.pc = "none" /\ NoWalk.shown = <<>> /\ NoWalk.last = NULL
    /\ IsInjective(<<>>) /\ ToSet(<<>>) = {}
<1>1. NoWalk \in Walk
  <2>1. <<>> \in Seq(Articles)
    OBVIOUS
  <2> QED
    BY <2>1 DEF NoWalk, Walk, Filters
<1>2. IsInjective(<<>>) /\ ToSet(<<>>) = {}
  BY DEF IsInjective, ToSet
<1> QED
  BY <1>1, <1>2 DEF NoWalk

\* The generation only grows, and an entry keeps its place while it is there.
LEMMA PlacesLast ==
    ASSUME StoreInv, StoreNext
    PROVE  /\ generation \in Nat /\ generation' \in Nat /\ generation <= generation'
           /\ \A a \in Articles : entry'[a] # NULL =>
                 /\ entry[a] = NULL => entry'[a].gen > generation
                 /\ entry[a] # NULL => entry'[a].gen = entry[a].gen /\ entry'[a].sort = entry[a].sort
                 /\ entry'[a].gen \in Nat
<1>1. generation \in Nat /\ StoreInv' /\ generation' \in Nat
  <2>1. StoreInv'
    BY StoreKept
  <2> QED
    BY <2>1 DEF StoreInv, StoreTypeOK
<1>2. generation <= generation'
  <2>1. CASE Refresh
    <3>1. PICK f, doc, time : PersistFeed(f, doc, time)
      BY <2>1 DEF Refresh
    <3>2. generation' = IF Incoming(doc) = {} THEN generation ELSE generation + 1
      BY <3>1 DEF PersistFeed, NextGeneration
    <3> QED
      BY <1>1, <3>2
  <2>2. CASE Organize \/ Read \/ Retain
    <3>1. generation' = generation
      BY <2>2 DEF Organize, Subscribe, Unsubscribe, MoveSubscription, Read, UpdateState, MarkRead,
                  Retain, PurgeReadArticles, store
    <3> QED
      BY <1>1, <3>1
  <2> QED
    BY <2>1, <2>2 DEF StoreNext
<1>3. \A a \in Articles : Lasts(a)
  BY EntryStep
<1>4. \A a \in Articles : entry'[a] # NULL => entry'[a] \in Row
  BY <1>1, RowAssumption DEF StoreInv, StoreTypeOK
<1> QED
  BY <1>1, <1>2, <1>3, <1>4 DEF Lasts, Row

\* A step of the store leaves a walk what it has behind it and ahead of it.
LEMMA StoreKeepsWalks ==
    ASSUME ListInv, StoreStep
    PROVE  ListInv'
<1>1. StoreInv /\ StoreNext /\ StoreInv'
  BY StoreKept DEF ListInv, StoreStep
<1>2. ASSUME NEW u \in Readers
      PROVE  WalkOK(u)' /\ walk'[u] \in Walk
  <2> DEFINE w == walk[u]
             v == walk'[u]
  <2>1. w \in Walk /\ WalkOK(u) /\ v = StillDue(u)
    BY <1>2 DEF ListInv, StoreStep
  <2>2. CASE w.pc \in {"none", "done"}
    <3>1. v = NoWalk
      BY <2>1, <2>2 DEF StillDue
    <3> QED
      BY <3>1, ForgottenWalk DEF WalkOK
  <2>3. CASE w.pc \in {"first", "more"}
    <3> DEFINE due == {a \in w.due : \A filter \in Filters :
                                        w.filter = filter => Matches(u, a, filter)'}
    <3>1. v = [w EXCEPT !.due = due]
      BY <2>1, <2>3 DEF StillDue
    <3>2. /\ w.pc \in {"first", "more"} /\ w.filter \in Filters /\ w.gen \in Nat
          /\ w.shown \in Seq(Articles) /\ w.due \in SUBSET Articles
      BY <2>1, <2>3, WalkColumns
    <3>3. PICK filter \in Filters : w.filter = filter
      BY <3>2
    <3>4. due \subseteq w.due /\ \A a \in due : Matches(u, a, filter)'
      BY <3>3
    <3> HIDE DEF due
    <3>5. /\ v \in Walk /\ v.pc = w.pc /\ v.filter = w.filter /\ v.gen = w.gen
          /\ v.last = w.last /\ v.at = w.at /\ v.shown = w.shown /\ v.due = due
      BY <2>1, <3>1, <3>2, <3>4 DEF Walk
    <3>6. /\ generation \in Nat /\ generation' \in Nat /\ generation <= generation'
          /\ \A a \in Articles : entry'[a] # NULL =>
                /\ entry[a] = NULL => entry'[a].gen > generation
                /\ entry[a] # NULL => entry'[a].gen = entry[a].gen /\ entry'[a].sort = entry[a].sort
                /\ entry'[a].gen \in Nat
      BY <1>1, PlacesLast
    <3>7. /\ w.gen <= generation
          /\ \A a \in ToSet(w.shown) : Behind(u, a)
          /\ \A a \in w.due : StillAhead(u, a)
      BY <2>1, <2>3 DEF WalkOK
    <3>8. v.gen <= generation'
      BY <3>2, <3>5, <3>6, <3>7
    <3>9. ASSUME NEW a \in ToSet(w.shown)
          PROVE  Behind(u, a)'
      <4>1. a \in Articles
        BY <3>2 DEF ToSet
      <4>2. \/ entry'[a] = NULL
            \/ entry'[a].gen > w.gen
            \/ w.last # NULL /\ ~Before(w.at, w.last, entry'[a].sort, a)
        <5>1. CASE entry[a] = NULL
          BY <3>2, <3>6, <3>7, <4>1, <5>1
        <5>2. CASE entry[a] # NULL
          BY <3>6, <3>7, <4>1, <5>2 DEF Behind
        <5> QED
          BY <5>1, <5>2
      <4> QED
        BY <3>5, <4>2 DEF Behind
    <3>10. ASSUME NEW a \in due
          PROVE  StillAhead(u, a)'
      <4>1. a \in Articles /\ Matches(u, a, filter)' /\ StillAhead(u, a)
        BY <3>2, <3>4, <3>7
      <4>2. entry[a] # NULL /\ entry'[a] # NULL
        BY <4>1 DEF StillAhead, Matches, Visible
      <4>3. /\ entry'[a].gen <= w.gen
            /\ a \in ToSet(w.shown) \/ w.last = NULL \/ Before(w.at, w.last, entry'[a].sort, a)
        BY <3>6, <4>1, <4>2 DEF StillAhead
      <4>4. Matches(u, a, walk[u].filter)'
        BY <3>5, <3>3, <4>1 DEF Matches, Visible, IsRead, BaseRead, OverrideOf, Starred
      <4> QED
        BY <3>5, <4>3, <4>4 DEF StillAhead
    <3> QED
      BY <2>1, <2>3, <3>5, <3>8, <3>9, <3>10 DEF WalkOK
  <2> QED
    BY <2>1, <2>2, <2>3, WalkColumns
<1>3. walk' = [u \in Readers |-> walk'[u]]
  BY DEF StoreStep
<1> QED
  BY <1>1, <1>2, <1>3 DEF ListInv

\* Another reader's request does not concern a walk.
LEMMA OtherWalk ==
    ASSUME NEW u \in Readers, WalkOK(u), walk'[u] = walk[u], UNCHANGED storeVars
    PROVE  WalkOK(u)'
<1>1. \A a : Behind(u, a) => Behind(u, a)'
  BY DEF Behind, storeVars
<1>2. \A a : StillAhead(u, a) => StillAhead(u, a)'
  BY DEF StillAhead, storeVars, Matches, Visible, IsRead, BaseRead, OverrideOf, Starred
<1> QED
  BY <1>1, <1>2 DEF WalkOK, storeVars

\* A first request takes the generation, and what matches then is due.
LEMMA StartKeeps ==
    ASSUME ListInv, NEW u \in Readers, NEW filter \in Filters, StartWalk(u, filter)
    PROVE  ListInv'
<1> DEFINE due == {a \in Articles : Matches(u, a, filter)}
           v == walk'[u]
<1>1. /\ UNCHANGED storeVars /\ walk' \in [Readers -> {walk'[q] : q \in Readers}]
      /\ v = [NoWalk EXCEPT !.pc = "first", !.filter = filter, !.gen = generation, !.due = due]
      /\ \A q \in Readers : q # u => walk'[q] = walk[q]
  BY DEF StartWalk, ListInv
<1>2. generation \in Nat /\ due \in SUBSET Articles
  BY DEF ListInv, StoreInv, StoreTypeOK
<1>3. \A a \in due : entry[a] # NULL /\ entry[a].gen <= generation
  BY DEF ListInv, StoreInv, SequencesFollowGenerations, Matches, Visible
<1> HIDE DEF due
<1>4. /\ v.pc = "first" /\ v.filter = filter /\ v.gen = generation /\ v.last = NULL
      /\ v.shown = <<>> /\ v.due = due /\ v \in Walk
  BY <1>1, <1>2, ForgottenWalk DEF NoWalk, Walk
<1>5. StoreInv' /\ generation' = generation /\ entry' = entry
  BY <1>1, StoreKept DEF ListInv, storeVars
<1>6. ASSUME NEW a \in due
      PROVE  StillAhead(u, a)'
  <2>1. Matches(u, a, filter)'
    BY <1>1 DEF due, storeVars, Matches, Visible, IsRead, BaseRead, OverrideOf, Starred
  <2>2. Matches(u, a, walk[u].filter)'
    BY <1>4, <2>1 DEF Matches, Visible, IsRead, BaseRead, OverrideOf, Starred
  <2> QED
    BY <1>3, <1>4, <1>5, <2>2 DEF StillAhead
<1>7. WalkOK(u)'
  BY <1>2, <1>4, <1>5, <1>6, ForgottenWalk DEF WalkOK
<1>8. ASSUME NEW q \in Readers, q # u
      PROVE  WalkOK(q)'
  BY <1>1, <1>8, OtherWalk DEF ListInv
<1> QED
  BY <1>1, <1>4, <1>5, <1>7, <1>8 DEF ListInv

\* A cursor that moves on leaves behind what was behind it.
LEMMA CursorMoves ==
    ASSUME NEW x \in Nat, NEW y \in Nat, NEW z \in Nat, NEW a \in Nat, NEW b \in Nat, NEW c \in Nat,
           Before(x, a, y, b), ~Before(x, a, z, c)
    PROVE  ~Before(y, b, z, c)
BY DEF Before

\* Two pages after each other show what either shows, and nothing twice if
\* neither does and they have nothing in common.
LEMMA JoinedPages ==
    ASSUME NEW S, NEW s \in Seq(S), NEW t \in Seq(S)
    PROVE  /\ ToSet(s \o t) = ToSet(s) \cup ToSet(t)
           /\ IsInjective(s) /\ IsInjective(t) /\ ToSet(s) \cap ToSet(t) = {} => IsInjective(s \o t)
<1> DEFINE m == Len(s)
           n == Len(t)
           r == s \o t
<1>1. m \in Nat /\ n \in Nat /\ DOMAIN s = 1..m /\ DOMAIN t = 1..n
  OBVIOUS
<1>2. r \in Seq(S) /\ Len(r) = m + n /\ \A i \in 1..m + n : r[i] = IF i <= m THEN s[i] ELSE t[i - m]
  BY ConcatProperties
<1>3. DOMAIN r = 1..m + n
  BY <1>2
<1> HIDE DEF m, n, r
<1>4. \A i \in 1..m : i \in 1..m + n /\ r[i] = s[i]
  BY <1>1, <1>2
<1>5. \A i \in 1..n : i + m \in 1..m + n /\ r[i + m] = t[i]
  <2> TAKE i \in 1..n
  <2>1. i + m \in 1..m + n /\ ~(i + m <= m) /\ (i + m) - m = i
    BY <1>1
  <2> QED
    BY <1>2, <2>1
<1>6. \A i \in 1..m + n : \/ i \in 1..m /\ r[i] = s[i]
                          \/ ~(i <= m) /\ i - m \in 1..n /\ r[i] = t[i - m]
  <2> TAKE i \in 1..m + n
  <2>1. CASE i <= m
    BY <1>1, <1>2, <2>1
  <2>2. CASE ~(i <= m)
    <3>1. i - m \in 1..n
      BY <1>1, <2>2
    <3> QED
      BY <1>2, <2>2, <3>1
  <2> QED
    BY <2>1, <2>2
<1>7. ToSet(r) = ToSet(s) \cup ToSet(t)
  <2>1. ASSUME NEW x \in ToSet(r)
        PROVE  x \in ToSet(s) \cup ToSet(t)
    <3>1. PICK i \in 1..m + n : r[i] = x
      BY <1>3 DEF ToSet
    <3> QED
      BY <1>1, <1>6, <3>1 DEF ToSet
  <2>2. ASSUME NEW x \in ToSet(s)
        PROVE  x \in ToSet(r)
    BY <1>1, <1>3, <1>4 DEF ToSet
  <2>3. ASSUME NEW x \in ToSet(t)
        PROVE  x \in ToSet(r)
    <3>1. PICK i \in 1..n : t[i] = x
      BY <1>1 DEF ToSet
    <3>2. i + m \in 1..m + n /\ r[i + m] = x
      BY <1>5, <3>1
    <3> QED
      BY <1>3, <3>2 DEF ToSet
  <2> QED
    BY <2>1, <2>2, <2>3
<1>8. ASSUME IsInjective(s), IsInjective(t), ToSet(s) \cap ToSet(t) = {}
      PROVE  IsInjective(r)
  <2> SUFFICES ASSUME NEW i \in 1..m + n, NEW j \in 1..m + n, r[i] = r[j]
               PROVE  i = j
    BY <1>3 DEF IsInjective
  <2>1. \A k \in 1..m, l \in 1..n : s[k] # t[l]
    BY <1>1, <1>8 DEF ToSet
  <2>2. CASE i \in 1..m /\ r[i] = s[i]
    <3>1. CASE j \in 1..m /\ r[j] = s[j]
      BY <1>1, <1>8, <2>2, <3>1 DEF IsInjective
    <3>2. CASE j - m \in 1..n /\ r[j] = t[j - m]
      BY <2>1, <2>2, <3>2
    <3> QED
      BY <1>6, <3>1, <3>2
  <2>3. CASE i - m \in 1..n /\ r[i] = t[i - m]
    <3>1. CASE j \in 1..m /\ r[j] = s[j]
      BY <2>1, <2>3, <3>1
    <3>2. CASE j - m \in 1..n /\ r[j] = t[j - m]
      <4>1. i - m = j - m
        BY <1>1, <1>8, <2>3, <3>2 DEF IsInjective
      <4> QED
        BY <1>1, <4>1
    <3> QED
      BY <1>6, <3>1, <3>2
  <2> QED
    BY <1>6, <2>2, <2>3
<1> QED
  BY <1>7, <1>8 DEF r

\* A page shows nothing that was shown, and skips nothing that is due.
LEMMA FetchKeeps ==
    ASSUME ListInv, NEW u \in Readers, FetchPage(u)
    PROVE  ListInv'
<1> DEFINE w == walk[u]
           v == walk'[u]
           page == Page(u)
           shown == w.shown \o page
           more == HasMore(u)
<1>1. /\ w.pc \in {"first", "more"} /\ UNCHANGED storeVars
      /\ walk' = [walk EXCEPT
             ![u].pc = IF more THEN "more" ELSE "done",
             ![u].shown = shown,
             ![u].last = IF more THEN Last(page) ELSE NULL,
             ![u].at = IF more THEN entry[Last(page)].sort ELSE NULL]
  BY DEF FetchPage
<1>2. w \in Walk /\ WalkOK(u) /\ StoreInv /\ StoreTypeOK /\ walk \in [Readers -> Walk]
  BY DEF ListInv, StoreInv
<1>3. /\ w.filter \in Filters /\ w.gen \in Nat /\ w.last \in Articles \cup {NULL}
      /\ w.at \in Dates \cup {NULL} /\ w.shown \in Seq(Articles) /\ w.due \in SUBSET Articles
      /\ Len(w.shown) \in Nat
  BY <1>2, WalkColumns
<1>4. /\ page \in Seq(Articles) /\ Len(page) \in Nat
      /\ \A i \in 1..Len(page) : page[i] \in ListRows(u)
      /\ \A i, j \in 1..Len(page) : i < j => Precedes(page[i], page[j])
      /\ ~more => \A a \in ListRows(u) : \E i \in 1..Len(page) : page[i] = a
      /\ more => /\ Len(page) > 0 /\ Last(page) = page[Len(page)]
                 /\ \A a \in ListRows(u) :
                       (\E i \in 1..Len(page) : page[i] = a) \/ Precedes(Last(page), a)
  BY <1>2, PageOfList
<1>5. \A a \in ListRows(u) :
         /\ a \in Articles /\ a \in Nat
         /\ entry[a] # NULL /\ entry[a] \in Row /\ entry[a].sort \in Dates /\ entry[a].sort \in Nat
         /\ entry[a].gen <= w.gen /\ entry[a].gen \in Nat
         /\ w.last # NULL => Before(w.at, w.last, entry[a].sort, a)
  <2>1. \A a \in ListRows(u) : /\ entry[a].gen <= w.gen
                               /\ w.last # NULL => Before(w.at, w.last, entry[a].sort, a)
    BY DEF ListRows
  <2> QED
    BY <1>2, <2>1, ListedRows, StoreAssumption DEF Row, StoreAssumption
<1> HIDE DEF page, more
<1>6. more => Last(page) \in ListRows(u)
  BY <1>4
<1>7. shown \in Seq(Articles)
  BY <1>3, <1>4, ConcatProperties
<1> HIDE DEF shown
<1>8. /\ v = [w EXCEPT !.pc = IF more THEN "more" ELSE "done", !.shown = shown,
                       !.last = IF more THEN Last(page) ELSE NULL,
                       !.at = IF more THEN entry[Last(page)].sort ELSE NULL]
      /\ \A q \in Readers : q # u => walk'[q] = walk[q]
  BY <1>1, <1>2
<1>9. /\ v \in Walk /\ v.pc = (IF more THEN "more" ELSE "done") /\ v.filter = w.filter /\ v.gen = w.gen
      /\ v.last = (IF more THEN Last(page) ELSE NULL)
      /\ v.at = (IF more THEN entry[Last(page)].sort ELSE NULL)
      /\ v.shown = shown /\ v.due = w.due
  <2>1. (IF more THEN Last(page) ELSE NULL) \in Articles \cup {NULL}
    BY <1>5, <1>6
  <2>2. (IF more THEN entry[Last(page)].sort ELSE NULL) \in Dates \cup {NULL}
    BY <1>5, <1>6
  <2> QED
    BY <1>2, <1>7, <1>8, <2>1, <2>2 DEF Walk
<1>10. ToSet(shown) = ToSet(w.shown) \cup ToSet(page)
  BY <1>3, <1>4, JoinedPages DEF shown
<1>11. /\ \A a \in ToSet(w.shown) : Behind(u, a) /\ a \in Articles
       /\ \A a \in ToSet(page) : a \in ListRows(u) /\ ~Behind(u, a)
  <2>1. \A a \in ToSet(w.shown) : Behind(u, a) /\ a \in Articles
    BY <1>1, <1>2, <1>3 DEF WalkOK, ToSet
  <2>2. \A a \in ToSet(page) : a \in ListRows(u)
    BY <1>4 DEF ToSet
  <2>3. \A a \in ListRows(u) : ~Behind(u, a)
    BY <1>3, <1>5 DEF Behind
  <2> QED
    BY <2>1, <2>2, <2>3
<1>12. IsInjective(shown)
  <2>1. IsInjective(page)
    <3> SUFFICES ASSUME NEW i \in 1..Len(page), NEW j \in 1..Len(page), page[i] = page[j], i # j
                 PROVE  FALSE
      BY <1>4 DEF IsInjective
    <3>1. i < j \/ j < i
      BY <1>4
    <3>2. page[i] \in ListRows(u) /\ Precedes(page[i], page[i])
      BY <1>4, <3>1
    <3> QED
      BY <1>5, <3>2 DEF Precedes, Before
  <2>2. ToSet(w.shown) \cap ToSet(page) = {}
    BY <1>11
  <2>3. IsInjective(w.shown)
    BY <1>2 DEF WalkOK
  <2> QED
    BY <1>3, <1>4, <2>1, <2>2, <2>3, JoinedPages DEF shown
<1>13. \A a \in w.due : /\ a \in ToSet(w.shown) \/ a \in ListRows(u)
                        /\ Matches(u, a, w.filter) /\ entry[a].gen <= w.gen
  <2> SUFFICES ASSUME NEW a \in w.due
               PROVE  /\ a \in ToSet(w.shown) \/ a \in ListRows(u)
                      /\ Matches(u, a, w.filter) /\ entry[a].gen <= w.gen
    OBVIOUS
  <2>1. StillAhead(u, a) /\ a \in Articles
    BY <1>1, <1>2, <1>3 DEF WalkOK
  <2> QED
    BY <2>1 DEF StillAhead, ListRows
<1>14. UNCHANGED <<generation, entry, sub, state>>
  BY <1>1 DEF storeVars
<1>15. ASSUME ~more
       PROVE  WalkOK(u)'
  <2>1. ListRows(u) \subseteq ToSet(page)
    BY <1>4, <1>15 DEF ToSet
  <2>2. w.due \subseteq ToSet(shown)
    BY <1>10, <1>13, <2>1
  <2>3. v.pc = "done" /\ IsInjective(v.shown) /\ v.due \subseteq ToSet(v.shown)
    BY <1>9, <1>12, <1>15, <2>2
  <2> QED
    BY <2>3 DEF WalkOK
<1>16. ASSUME more
       PROVE  WalkOK(u)'
  <2> DEFINE last == Last(page)
  <2>1. /\ last \in Articles /\ last \in Nat /\ last # NULL
        /\ entry[last].sort \in Nat /\ entry[last].sort # NULL
        /\ v.pc = "more" /\ v.last = last /\ v.at = entry[last].sort
        /\ w.last # NULL => Before(w.at, w.last, entry[last].sort, last)
    BY <1>5, <1>6, <1>9, <1>16, StoreAssumption DEF StoreAssumption
  <2>2. ASSUME NEW a \in ToSet(shown)
        PROVE  Behind(u, a)'
    <3>1. \/ entry[a] = NULL
          \/ entry[a].gen > w.gen
          \/ ~Before(entry[last].sort, last, entry[a].sort, a)
      <4>1. CASE a \in ToSet(page)
        <5>1. PICK i \in 1..Len(page) : page[i] = a
          BY <1>4, <4>1 DEF ToSet
        <5>2. a \in Nat /\ entry[a].sort \in Nat
          BY <1>4, <1>5, <5>1
        <5>3. i = Len(page) \/ i < Len(page)
          BY <1>4
        <5>4. a = last \/ Precedes(a, last)
          BY <1>4, <1>16, <5>1, <5>3
        <5> QED
          BY <2>1, <5>2, <5>4 DEF Precedes, Before
      <4>2. CASE a \in ToSet(w.shown)
        <5>1. Behind(u, a) /\ a \in Articles
          BY <1>11, <4>2
        <5>2. CASE entry[a] = NULL \/ entry[a].gen > w.gen
          BY <5>2
        <5>3. CASE entry[a] # NULL /\ w.last # NULL /\ ~Before(w.at, w.last, entry[a].sort, a)
          <6>1. /\ entry[a] \in Row /\ entry[a].sort \in Nat /\ a \in Nat /\ w.last \in Nat
            BY <1>2, <1>3, <5>1, <5>3, RowsAreThere, StoreAssumption DEF Row, StoreAssumption
          <6>2. w.at \in Nat
            <7>1. w.pc = "more"
              BY <1>1, <1>2, <5>3 DEF WalkOK
            <7> QED
              BY <1>2, <1>3, <7>1, StoreAssumption DEF WalkOK, StoreAssumption
          <6> QED
            BY <2>1, <5>3, <6>1, <6>2, CursorMoves
        <5> QED
          BY <5>1, <5>2, <5>3 DEF Behind
      <4> QED
        BY <1>10, <4>1, <4>2
    <3> QED
      BY <1>9, <1>14, <2>1, <3>1 DEF Behind
  <2>3. ASSUME NEW a \in w.due
        PROVE  StillAhead(u, a)'
    <3>1. a \in ToSet(shown) \/ Before(entry[last].sort, last, entry[a].sort, a)
      <4>1. CASE a \in ToSet(w.shown)
        BY <1>10, <4>1
      <4>2. CASE a \in ListRows(u)
        <5>1. CASE Precedes(last, a)
          BY <5>1 DEF Precedes
        <5>2. ASSUME NEW i \in 1..Len(page), page[i] = a
              PROVE  a \in ToSet(page)
          BY <1>4, <5>2 DEF ToSet
        <5> QED
          BY <1>4, <1>10, <1>16, <4>2, <5>1, <5>2
      <4> QED
        BY <1>13, <4>1, <4>2
    <3>2. Matches(u, a, walk[u].filter)'
      BY <1>9, <1>13, <1>14 DEF Matches, Visible, IsRead, BaseRead, OverrideOf, Starred
    <3> QED
      BY <1>9, <1>13, <1>14, <2>1, <3>1, <3>2 DEF StillAhead
  <2>4. w.gen <= generation
    BY <1>1, <1>2 DEF WalkOK
  <2>5. /\ v.pc = "more" /\ v.last # NULL /\ v.at # NULL /\ IsInjective(v.shown)
        /\ v.gen <= generation'
        /\ \A a \in ToSet(v.shown) : Behind(u, a)'
        /\ \A a \in v.due : StillAhead(u, a)'
    BY <1>9, <1>12, <1>14, <2>1, <2>2, <2>3, <2>4
  <2> QED
    BY <2>5 DEF WalkOK
<1>17. WalkOK(u)'
  BY <1>15, <1>16
<1>18. \A q \in Readers : q # u => WalkOK(q)'
  BY <1>1, <1>8, OtherWalk DEF ListInv
<1>19. StoreInv'
  BY <1>1, <1>2, StoreKept
<1>20. walk' \in [Readers -> Walk]
  BY <1>1, <1>2, <1>8, <1>9
<1> QED
  BY <1>17, <1>18, <1>19, <1>20 DEF ListInv

\* No walk has begun before the first page is asked for.
LEMMA ListStart == ListInit => ListInv
<1> SUFFICES ASSUME ListInit
             PROVE  ListInv
  OBVIOUS
<1>1. StoreInv /\ walk = [u \in Readers |-> NoWalk]
  BY StoreStart DEF ListInit
<1> QED
  BY <1>1, ForgottenWalk DEF ListInv, WalkOK

\* Every step of the entry store, of a refresh and of a walk keeps ListInv.
LEMMA ListKept == ListInv /\ [ListNext]_listVars => ListInv'
<1> SUFFICES ASSUME ListInv, [ListNext]_listVars
             PROVE  ListInv'
  OBVIOUS
<1>1. CASE UNCHANGED listVars
  <2>1. UNCHANGED storeVars /\ walk' = walk
    BY <1>1 DEF listVars, storeVars
  <2>2. StoreInv'
    BY <2>1, StoreKept DEF ListInv
  <2> QED
    BY <2>1, <2>2, OtherWalk DEF ListInv
<1> QED
  BY <1>1, StoreKeepsWalks, FetchKeeps, StartKeeps DEF ListNext

\* A walk shows every entry once, and all that was there to be shown.
THEOREM WalksShowAll == ListSpec => []WalkShowsAll
<1>1. ListInv => WalkShowsAll
  BY DEF ListInv, WalkOK, WalkShowsAll
<1> QED
  BY <1>1, ListStart, ListKept, PTL DEF ListSpec

-----------------------------------------------------------------------------
(* The services together                                                   *)

ServicesInv == ListInv /\ AccountsInv /\ AdmissionInv /\ LimitsInv /\ FetchInv

\* A step is of one service and leaves the others as they are.
LEMMA OneService ==
    ASSUME ServicesNext
    PROVE  /\ [ListNext]_listVars /\ [AccountsNext]_accountVars /\ [AdmissionNext]_admissionVars
           /\ [LimitsNext]_limitVars /\ [FetchNext]_fetchVars
BY DEF ServicesNext, Keep

\* The five services of MCServices keep their invariants together.
LEMMA ServicesSafe == ServicesSpec => []ServicesInv
<1>1. ServicesInit => ServicesInv
  BY ListStart, AccountsStart, AdmissionStart, LimitsStart, FetchStart DEF ServicesInit, ServicesInv
<1>2. ServicesInv /\ UNCHANGED servicesVars => ServicesInv'
  <2> SUFFICES ASSUME ServicesInv, UNCHANGED servicesVars
               PROVE  ServicesInv'
    OBVIOUS
  <2>1. UNCHANGED listVars /\ UNCHANGED accountVars /\ UNCHANGED admissionVars /\ UNCHANGED limitVars
        /\ UNCHANGED fetchVars
    BY DEF servicesVars
  <2> QED
    BY <2>1, ListKept, AccountsKept, AdmissionKept, LimitsKept, FetchStep DEF ServicesInv
<1>3. ServicesInv /\ ServicesNext => ServicesInv'
  BY OneService, ListKept, AccountsKept, AdmissionKept, LimitsKept, FetchStep DEF ServicesInv
<1> QED
  BY <1>1, <1>2, <1>3, PTL DEF ServicesSpec

(* Types and limits hold, whatever is cancelled, evicted, edited or late   *)
(* (auth/password.rs, content/ai/admission.rs, api/rate_limit.rs).         *)
THEOREM LimitsStand == ServicesSpec => []LimitsHold
<1>1. ListInv => TypeOK
  BY DEF ListInv, StoreInv, TypeOK
<1>2. AccountsInv => AccountsTypeOK /\ PasswordWorkBounded
  <2> SUFFICES ASSUME AccountsInv
               PROVE  AccountsTypeOK /\ PasswordWorkBounded
    OBVIOUS
  <2>1. permits \in Nat /\ hashing \in Nat /\ PasswordSlots \in Nat /\ permits + hashing = PasswordSlots
    BY AccountsAssumption DEF AccountsInv, AccountsTypeOK, AccountsAssumption
  <2> QED
    BY <2>1 DEF AccountsInv, PasswordWorkBounded
<1>3. AdmissionInv => AdmissionTypeOK /\ UneditedBounded
  BY UneditedHolds DEF AdmissionInv, AdmissionShape
<1>4. LimitsInv => LimitsTypeOK /\ ConcurrencyBounded /\ RetryTimeHolds
  BY LimitedHolds DEF LimitsInv, LimitsShape
<1>5. FetchInv => FetchTypeOK
  BY DEF FetchInv, FetchShape, FetchState, Sound, FetchTypeOK
<1>6. ServicesInv => LimitsHold
  BY <1>1, <1>2, <1>3, <1>4, <1>5 DEF ServicesInv, LimitsHold, ServicesTypeOK
<1> QED
  BY <1>6, ServicesSafe, PTL

=============================================================================
