--------------------------- MODULE TranslationProofs ---------------------------
(***************************************************************************)
(* Proofs about translations, for any value of the constants: edits of the *)
(* settings, how an article is cut, and what a request puts together and   *)
(* tells its page.                                                         *)
(***************************************************************************)
EXTENDS Translation, FiniteSetTheorems, SequenceTheorems, WellFoundedInduction, TLAPS

-----------------------------------------------------------------------------
(* The settings of translations.                                           *)

Drafted == [draft : Drafts, key : BOOLEAN, revision : Nat]

\* A page shows the settings of an earlier revision, or those that are there.
LeafOK(c) ==
    leaf[c] # None =>
        /\ leaf[c] = [row |-> leaf[c].row] /\ leaf[c].row \in Settings \cup {None}
        /\ leaf[c].row # None =>
              /\ settings # None /\ leaf[c].row.revision <= settings.revision
              /\ leaf[c].row.revision = settings.revision => leaf[c].row = settings

\* A save goes on from the settings its page shows, and its result can be used.
SaveOK(c) ==
    /\ save[c].at \in {"none", "read", "write", "answer"}
    /\ save[c].at = "none" => save[c] = NoSave
    /\ save[c] # NoSave => leaf[c] # None
    /\ save[c].at = "read" => save[c].draft \in Drafts /\ save[c].key \in {"keep", "clear", "set"}
    /\ save[c].at = "write" =>
          /\ save[c].row \in Drafted /\ Usable(save[c].row.draft, save[c].row.key)
          /\ save[c].row.revision =
                IF leaf[c].row = None THEN 0 ELSE leaf[c].row.revision + 1

SettingsInv ==
    /\ settings \in Settings \cup {None} /\ SettingsUsable
    /\ leaf = [c \in SettingsPages |-> leaf[c]] /\ save = [c \in SettingsPages |-> save[c]]
    /\ \A c \in SettingsPages : LeafOK(c) /\ SaveOK(c)

\* Nothing of the settings changes.
LEMMA SettingsStay ==
    ASSUME SettingsInv, UNCHANGED <<settings, leaf, save>>
    PROVE  SettingsInv'
BY DEF SettingsInv, SettingsUsable, Usable, LeafOK, SaveOK, NoSave, Drafted, Settings

\* A step of one page that leaves the settings alone.
LEMMA PageKeeps ==
    ASSUME SettingsInv, NEW c \in SettingsPages, UNCHANGED settings,
           leaf' = [leaf EXCEPT ![c] = leaf'[c]], save' = [save EXCEPT ![c] = save'[c]],
           LeafOK(c)', SaveOK(c)'
    PROVE  SettingsInv'
<1>1. leaf' = [d \in SettingsPages |-> leaf'[d]] /\ save' = [d \in SettingsPages |-> save'[d]]
  BY DEF SettingsInv
<1>2. ASSUME NEW d \in SettingsPages, d # c
      PROVE  leaf'[d] = leaf[d] /\ save'[d] = save[d]
  BY <1>2 DEF SettingsInv
<1>3. ASSUME NEW d \in SettingsPages
      PROVE  LeafOK(d)' /\ SaveOK(d)'
  BY <1>2 DEF SettingsInv, LeafOK, SaveOK, Usable
<1> QED
  BY <1>1, <1>3 DEF SettingsInv, SettingsUsable, Usable

\* What a page is shown, it shows.
LEMMA ShownOK ==
    ASSUME SettingsInv, NEW c \in SettingsPages, UNCHANGED settings, leaf'[c] = [row |-> settings]
    PROVE  LeafOK(c)'
BY DEF SettingsInv, LeafOK, Settings

\* A save that ended waits for nothing.
LEMMA EndedOK ==
    ASSUME NEW c \in SettingsPages, save'[c] = NoSave
    PROVE  SaveOK(c)'
BY DEF SaveOK, NoSave

\* The columns of a draft.
LEMMA DraftColumns ==
    ASSUME NEW d \in Drafts
    PROVE  /\ d.engine \in {"openai", "deeplx"} /\ d.on \in BOOLEAN
           /\ d.url \in {"plain", "keyed"} /\ d.progressive \in BOOLEAN
BY TranslationAssumption DEF TranslationAssumption

\* The settings that a save stores, by what its page shows.
LEMMA ReadKeeps ==
    ASSUME SettingsInv, NEW c \in SettingsPages, ReadStored(c)
    PROVE  SettingsInv'
<1> DEFINE draft == save[c].draft
           key == KeyAfter(save[c].key)
           row == [draft |-> draft, key |-> key,
                   revision |-> IF settings = None THEN 0 ELSE settings.revision + 1]
<1>1. save[c].at = "read" /\ leaf[c] # None /\ draft \in Drafts /\ save[c].key \in {"keep", "clear", "set"}
      /\ LeafOK(c)
  BY DEF ReadStored, SettingsInv, SaveOK, NoSave
<1>2. settings # None => settings \in Settings /\ settings.revision \in Nat /\ settings.key \in BOOLEAN
  BY TranslationAssumption DEF SettingsInv, Settings, TranslationAssumption
<1>3. key \in BOOLEAN
  BY <1>1, <1>2 DEF KeyAfter
<1>4. LeafOK(c)'
  BY <1>1 DEF ReadStored, LeafOK, SettingsInv
<1>5. save' = [save EXCEPT ![c] = save'[c]] /\ leaf' = [leaf EXCEPT ![c] = leaf'[c]]
  BY DEF ReadStored, SettingsInv
<1>6. CASE Usable(draft, key) /\ SeenBy(c)
  <2>1. save'[c] = [at |-> "write", row |-> row]
    BY <1>6 DEF ReadStored, SettingsInv
  <2>2. row \in Drafted
    BY <1>1, <1>2, <1>3 DEF Drafted
  <2>3. leaf[c].row = None <=> settings = None
    BY <1>1, <1>2, <1>6, SettingsAssumption DEF SeenBy, RevisionOf, LeafOK, Settings
  <2>4. leaf[c].row # None => leaf[c].row.revision = settings.revision
    BY <1>6, <2>3 DEF SeenBy, RevisionOf
  <2>5. SaveOK(c)'
    <3> HIDE DEF row, draft, key
    <3>1. row.draft = draft /\ row.key = key
          /\ row.revision = IF settings = None THEN 0 ELSE settings.revision + 1
      BY DEF row
    <3>2. leaf'[c] = leaf[c]
      BY DEF ReadStored
    <3>3. save'[c].at = "write" /\ save'[c].row = row
      BY <2>1
    <3>4. save'[c] # NoSave
      BY <2>1 DEF NoSave
    <3> QED
      BY <1>1, <1>6, <2>2, <2>3, <2>4, <3>1, <3>2, <3>3, <3>4 DEF SaveOK, Usable, NoSave
  <2> QED
    BY <1>4, <1>5, <2>5, PageKeeps DEF ReadStored
<1>7. CASE ~(Usable(draft, key) /\ SeenBy(c))
  <2>1. save'[c] = NoSave
    BY <1>7 DEF ReadStored, SettingsInv
  <2> QED
    BY <1>4, <1>5, <2>1, EndedOK, PageKeeps DEF ReadStored
<1> QED
  BY <1>6, <1>7

\* A write that finds the revision it read finds the settings its page shows.
LEMMA WriteFindsShown ==
    ASSUME SettingsInv, NEW c \in SettingsPages, save[c].at = "write", StillAsRead(c)
    PROVE  leaf[c] = [row |-> settings]
<1>1. SaveOK(c) /\ LeafOK(c) /\ save[c] # NoSave /\ leaf[c] # None
  BY DEF SettingsInv, SaveOK, NoSave
<1>2. settings # None => settings.revision \in Nat
  BY TranslationAssumption DEF SettingsInv, Settings, TranslationAssumption
<1>3. leaf[c].row # None => leaf[c].row.revision \in Nat
  BY <1>1, TranslationAssumption DEF LeafOK, Settings, TranslationAssumption
<1>4. leaf[c].row = settings
  BY <1>1, <1>2, <1>3 DEF SaveOK, LeafOK, StillAsRead
<1> QED
  BY <1>1, <1>4 DEF LeafOK

\* A save that writes, or finds other settings than its page shows.
LEMMA WriteKeeps ==
    ASSUME SettingsInv, NEW c \in SettingsPages, WriteSettings(c)
    PROVE  SettingsInv'
<1>1. save[c].at = "write" /\ save[c] # NoSave /\ SaveOK(c) /\ LeafOK(c) /\ leaf[c] # None
  BY DEF WriteSettings, SettingsInv, SaveOK, NoSave
<1>2. leaf' = leaf /\ leaf' = [leaf EXCEPT ![c] = leaf'[c]] /\ save' = [save EXCEPT ![c] = save'[c]]
  BY DEF WriteSettings, SettingsInv
<1>3. CASE StillAsRead(c)
  <2> DEFINE row == save[c].row
  <2>1. leaf[c].row = settings
    BY <1>1, <1>3, WriteFindsShown
  <2>2. row \in Drafted /\ row.draft \in Drafts /\ row.key \in BOOLEAN /\ row.revision \in Nat
        /\ row.revision <= MaxSettingsRevision /\ Usable(row.draft, row.key)
    BY <1>1 DEF SaveOK, Drafted, WriteSettings
  <2>3. settings' = Stored(row) /\ save'[c] = [at |-> "answer"]
    BY <1>3 DEF WriteSettings, SettingsInv
  <2>4. settings' \in Settings /\ settings'.revision = row.revision
    BY <2>2, <2>3, DraftColumns, TranslationAssumption DEF Stored, Settings, TranslationAssumption
  <2>5. SettingsUsable'
    BY <2>2, <2>3 DEF SettingsUsable, Stored, Usable
  <2>6. settings' # None
    BY <2>4, SettingsAssumption
  <2>7. settings # None => row.revision = settings.revision + 1 /\ settings.revision \in Nat
    BY <1>1, <2>1, TranslationAssumption DEF SaveOK, SettingsInv, Settings, TranslationAssumption
  <2>8. ASSUME NEW d \in SettingsPages
        PROVE  LeafOK(d)'
    <3>1. LeafOK(d) /\ leaf'[d] = leaf[d]
      BY <1>2 DEF SettingsInv
    <3>2. leaf[d] # None /\ leaf[d].row # None => leaf[d].row.revision \in Nat
      BY <3>1, TranslationAssumption DEF LeafOK, Settings, TranslationAssumption
    <3>3. leaf[d] # None /\ leaf[d].row # None => leaf[d].row.revision < settings'.revision
      BY <3>1, <3>2, <2>4, <2>7 DEF LeafOK
    <3> QED
      BY <3>1, <3>2, <3>3, <2>2, <2>4, <2>6 DEF LeafOK
  <2>9. ASSUME NEW d \in SettingsPages
        PROVE  SaveOK(d)'
    <3>1. CASE d = c
      BY <1>1, <1>2, <2>3, <3>1 DEF SaveOK, NoSave
    <3>2. CASE d # c
      <4>1. save'[d] = save[d] /\ leaf'[d] = leaf[d] /\ SaveOK(d)
        BY <1>2, <3>2 DEF SettingsInv
      <4> QED
        BY <4>1 DEF SaveOK, Usable
    <3> QED
      BY <3>1, <3>2
  <2>10. leaf' = [d \in SettingsPages |-> leaf'[d]] /\ save' = [d \in SettingsPages |-> save'[d]]
    BY <1>2 DEF SettingsInv
  <2> QED
    BY <2>4, <2>5, <2>8, <2>9, <2>10 DEF SettingsInv
<1>4. CASE ~StillAsRead(c)
  <2>1. settings' = settings /\ save'[c] = NoSave
    BY <1>4 DEF WriteSettings, SettingsInv
  <2>2. LeafOK(c)'
    BY <1>1, <1>2, <2>1 DEF LeafOK
  <2> QED
    BY <1>2, <2>1, <2>2, EndedOK, PageKeeps
<1> QED
  BY <1>3, <1>4

\* At first there are no settings and no page.
LEMMA SettingsStart == TranslationInit => SettingsInv
BY DEF TranslationInit, SettingsInv, SettingsUsable, LeafOK, SaveOK, NoSave

\* Every step of translations keeps what is so of the settings.
LEMMA SettingsKept == SettingsInv /\ [TranslationNext]_translationVars => SettingsInv'
<1> SUFFICES ASSUME SettingsInv, [TranslationNext]_translationVars
             PROVE  SettingsInv'
  OBVIOUS
<1>1. CASE UNCHANGED <<settings, leaf, save>>
  BY <1>1, SettingsStay
<1>2. ASSUME NEW c \in SettingsPages, ShowSettings(c)
      PROVE  SettingsInv'
  <2>1. leaf'[c] = [row |-> settings] /\ save'[c] = NoSave
    BY <1>2 DEF ShowSettings, SettingsInv
  <2> QED
    BY <1>2, <2>1, ShownOK, EndedOK, PageKeeps DEF ShowSettings, SettingsInv
<1>3. ASSUME NEW c \in SettingsPages, NEW draft \in Drafts, NEW key \in {"keep", "clear", "set"},
             NEW second \in BOOLEAN, BeginSave(c, draft, key, second)
      PROVE  SettingsInv'
  <2>1. save'[c] = [at |-> "read", draft |-> draft, key |-> key] /\ leaf'[c] = leaf[c] /\ leaf[c] # None
    BY <1>3 DEF BeginSave, SettingsInv
  <2>2. SaveOK(c)'
    BY <2>1 DEF SaveOK, NoSave
  <2>3. LeafOK(c)'
    BY <1>3 DEF BeginSave, SettingsInv, LeafOK
  <2>4. leaf' = [leaf EXCEPT ![c] = leaf'[c]] /\ save' = [save EXCEPT ![c] = save'[c]] /\ settings' = settings
    BY <1>3 DEF BeginSave, SettingsInv
  <2> QED
    BY <2>2, <2>3, <2>4, PageKeeps
<1>4. ASSUME NEW c \in SettingsPages, AnswerSave(c)
      PROVE  SettingsInv'
  <2>1. leaf'[c] = [row |-> settings] /\ save'[c] = NoSave
    BY <1>4 DEF AnswerSave, SettingsInv
  <2> QED
    BY <1>4, <2>1, ShownOK, EndedOK, PageKeeps DEF AnswerSave, SettingsInv
<1>5. ASSUME NEW c \in SettingsPages, AbandonSave(c)
      PROVE  SettingsInv'
  <2>1. save'[c] = NoSave /\ leaf' = leaf /\ settings' = settings
    BY <1>5 DEF AbandonSave, SettingsInv
  <2>2. LeafOK(c)'
    BY <2>1 DEF SettingsInv, LeafOK
  <2>3. leaf' = [leaf EXCEPT ![c] = leaf'[c]] /\ save' = [save EXCEPT ![c] = save'[c]]
    BY <1>5 DEF AbandonSave, SettingsInv
  <2> QED
    BY <2>1, <2>2, <2>3, EndedOK, PageKeeps
<1>6. ASSUME NEW r \in Requests, \/ \E kind \in {"entry", "progressive", "text", "lookup", "test"} : Begin(r, kind)
                                 \/ Serve(r) \/ Hear(r) \/ Leave(r)
      PROVE  UNCHANGED <<settings, leaf, save>>
  BY <1>6 DEF Begin, Serve, Hear, Leave, ReadSettings, Validate, ReadSource, Cut, ReadKey, SendCall,
              Answered, CallFails, TimesOut, CompleteTranslation
<1>7. Upheaval \/ UNCHANGED translationVars => UNCHANGED <<settings, leaf, save>>
  BY DEF Upheaval, translationVars
<1> QED
  BY <1>1, <1>2, <1>3, <1>4, <1>5, <1>6, <1>7, ReadKeeps, WriteKeeps DEF TranslationNext
-----------------------------------------------------------------------------
(* Sets of numbers, and folds over the places of a sequence.               *)

\* A set of numbers that goes on from 0 has all of them, up to a bound.
LEMMA SetUpTo ==
    ASSUME NEW S, NEW n \in Nat, 0 \in S, \A i \in 0..(n - 1) : i \in S => i + 1 \in S
    PROVE  \A i \in 0..n : i \in S
<1> SUFFICES ASSUME NEW k \in 0..n, k \notin S
             PROVE  FALSE
  OBVIOUS
<1> DEFINE T == {i \in 0..n : i \notin S}
<1>1. T # {} /\ T \subseteq Nat
  OBVIOUS
<1>2. PICK m \in T : \A i \in T : <<i, m>> \notin OpToRel(<, Nat)
  <2> HIDE DEF T
  <2> QED
    BY <1>1, NatLessThanWellFounded, WFMin
<1>3. \A i \in T : ~(i < m)
  <2> HIDE DEF T
  <2> QED
    BY <1>1, <1>2, Zenon DEF OpToRel
<1>4. m \in 1..n /\ m \notin S /\ m - 1 \in 0..(n - 1)
  OBVIOUS
<1>5. m - 1 \in S
  BY <1>3, <1>4
<1> QED
  BY <1>4, <1>5

\* A set of indices has a greatest one.
LEMMA GreatestIndex ==
    ASSUME NEW n \in Nat, NEW s \in SUBSET (1..n), s # {}
    PROVE  Max(s) \in s /\ \A x \in s : x <= Max(s)
<1> DEFINE T == {i \in 0..n : \A x \in s : x <= i}
<1>1. T # {} /\ T \subseteq Nat
  <2>1. n \in T
    OBVIOUS
  <2> QED
    BY <2>1
<1>2. PICK m \in T : \A i \in T : <<i, m>> \notin OpToRel(<, Nat)
  <2> HIDE DEF T
  <2> QED
    BY <1>1, NatLessThanWellFounded, WFMin
<1>3. \A i \in T : ~(i < m)
  <2> HIDE DEF T
  <2> QED
    BY <1>1, <1>2, Zenon DEF OpToRel
<1>4. m \in 0..n /\ \A x \in s : x <= m
  BY <1>2
<1>5. m \in s
  <2> SUFFICES ASSUME m \notin s
               PROVE  FALSE
    OBVIOUS
  <2>1. \A x \in s : x <= m - 1 /\ x >= 1
    BY <1>4
  <2>2. m - 1 \in 0..n
    <3>1. PICK x \in s : TRUE
      OBVIOUS
    <3> QED
      BY <1>4, <2>1, <3>1
  <2>3. m - 1 \in T
    BY <2>1, <2>2
  <2> QED
    BY <1>3, <1>4, <2>3
<1> QED
  BY <1>4, <1>5 DEF Max

\* A set of the first indices ends in its greatest, and before it are the others.
LEMMA LastOfFirst ==
    ASSUME NEW n \in Nat, NEW i \in 1..n
    PROVE  /\ 1..i \in SUBSET (1..n) /\ 1..i # {} /\ Max(1..i) = i
           /\ (1..i) \ {i} = 1..(i - 1) /\ 1..(i - 1) \in SUBSET (1..n)
<1> DEFINE s == 1..i
           m == Max(s)
<1>1. s \in SUBSET (1..n) /\ i \in s /\ s # {} /\ s \in SUBSET (1..i)
  OBVIOUS
<1>2. m \in s /\ \A x \in s : x <= m
  <2> HIDE DEF s
  <2> QED
    BY <1>1, GreatestIndex
<1>3. m = i
  <2>1. m \in 1..i /\ i <= m
    BY <1>1, <1>2
  <2> HIDE DEF m
  <2> QED
    BY <2>1
<1>4. s \ {i} = 1..(i - 1) /\ 1..(i - 1) \in SUBSET (1..n)
  OBVIOUS
<1> QED
  BY <1>1, <1>3, <1>4

\* A fold over the places of a sequence, whatever it does with each.
Folds(g, base, step, seq, n) ==
    \A s \in SUBSET (1..n) :
        g[s] = IF s = {} THEN base ELSE step[<<g[s \ {Max(s)}], seq[Max(s)]>>]

\* Without the greatest of its indices, a set goes less far.
LEMMA LessFar ==
    ASSUME NEW i \in Nat, NEW s \in SUBSET (1..(i + 1)), s # {}
    PROVE  Max(s) \in s /\ s \ {Max(s)} \in SUBSET (1..i)
<1>1. Max(s) \in s /\ \A x \in s : x <= Max(s)
  <2>1. i + 1 \in Nat
    OBVIOUS
  <2> QED
    BY <2>1, GreatestIndex
<1>2. ASSUME NEW x \in s \ {Max(s)}
      PROVE  x \in 1..i
  <2>1. x \in 1..(i + 1) /\ Max(s) \in 1..(i + 1) /\ x <= Max(s) /\ x # Max(s)
    BY <1>1
  <2> QED
    BY <2>1
<1> QED
  BY <1>1, <1>2

\* A fold over the places of a sequence has a value for every set of places.
LEMMA FoldExists ==
    ASSUME NEW A, NEW B, NEW base \in A, NEW step \in [A \X B -> A],
           NEW n \in Nat, NEW seq \in [1..n -> B]
    PROVE  \E g \in [SUBSET (1..n) -> A] : Folds(g, base, step, seq, n)
<1> DEFINE S == {i \in 0..n : \E g \in [SUBSET (1..i) -> A] : Folds(g, base, step, seq, i)}
<1>1. 0 \in S
  <2> DEFINE g == [x \in SUBSET (1..0) |-> base]
  <2>1. g \in [SUBSET (1..0) -> A]
    OBVIOUS
  <2>2. Folds(g, base, step, seq, 0)
    <3> SUFFICES ASSUME NEW s \in SUBSET (1..0)
                 PROVE  g[s] = IF s = {} THEN base ELSE step[<<g[s \ {Max(s)}], seq[Max(s)]>>]
      BY DEF Folds
    <3>1. s = {}
      OBVIOUS
    <3> QED
      BY <3>1
  <2> HIDE DEF g
  <2>3. \E f \in [SUBSET (1..0) -> A] : Folds(f, base, step, seq, 0)
    BY <2>1, <2>2
  <2>4. 0 \in 0..n
    OBVIOUS
  <2> QED
    BY ONLY <2>3, <2>4
<1>2. ASSUME NEW i \in 0..(n - 1), i \in S
      PROVE  i + 1 \in S
  <2>1. PICK g \in [SUBSET (1..i) -> A] : Folds(g, base, step, seq, i)
    BY <1>2
  <2> DEFINE H(s) == IF s = {} THEN base ELSE step[<<g[s \ {Max(s)}], seq[Max(s)]>>]
             h == [s \in SUBSET (1..(i + 1)) |-> H(s)]
  <2>2. i \in Nat /\ i + 1 \in 0..n
    OBVIOUS
  <2>3. ASSUME NEW s \in SUBSET (1..(i + 1)), s # {}
        PROVE  /\ Max(s) \in s /\ s \ {Max(s)} \in SUBSET (1..i)
               /\ seq[Max(s)] \in B /\ g[s \ {Max(s)}] \in A
    <3>1. Max(s) \in s /\ s \ {Max(s)} \in SUBSET (1..i)
      BY <2>2, <2>3, LessFar
    <3>2. Max(s) \in 1..(i + 1)
      BY <3>1
    <3>3. Max(s) \in 1..n
      BY <3>2, <2>2
    <3> QED
      BY <3>1, <3>3
  <2>4. h \in [SUBSET (1..(i + 1)) -> A]
    <3> SUFFICES ASSUME NEW s \in SUBSET (1..(i + 1))
                 PROVE  H(s) \in A
      OBVIOUS
    <3> QED
      BY <2>3
  <2>5. Folds(h, base, step, seq, i + 1)
    <3> SUFFICES ASSUME NEW s \in SUBSET (1..(i + 1))
                 PROVE  h[s] = IF s = {} THEN base ELSE step[<<h[s \ {Max(s)}], seq[Max(s)]>>]
      BY DEF Folds
    <3>0. h[s] = H(s)
      OBVIOUS
    <3>1. CASE s = {}
      <4> HIDE DEF h
      <4> QED
        BY <3>0, <3>1
    <3>2. CASE s # {}
      <4> DEFINE t == s \ {Max(s)}
      <4>1. t \in SUBSET (1..i) /\ t \in SUBSET (1..(i + 1))
        BY <2>3, <3>2
      <4>2. h[t] = H(t)
        BY <4>1
      <4>3. H(t) = g[t]
        BY <2>1, <4>1 DEF Folds
      <4>4. h[t] = g[t]
        BY <4>2, <4>3
      <4> HIDE DEF t
      <4> QED
        BY <3>2, <4>4 DEF t
    <3> QED
      BY <3>1, <3>2
  <2> HIDE DEF h
  <2> QED
    BY <2>2, <2>4, <2>5
<1>3. n \in S
  <2> HIDE DEF S
  <2>1. \A i \in 0..n : i \in S
    BY <1>1, <1>2, SetUpTo
  <2> QED
    BY <2>1
<1> QED
  BY <1>3

-----------------------------------------------------------------------------
(* Sums.                                                                   *)

Numbers == Seq(Nat)

\* A sum is taken from the first number to the last.
LEMMA TotalSteps ==
    ASSUME NEW ns \in Numbers
    PROVE  \E d : /\ d[0] = 0 /\ \A i \in 1..Len(ns) : d[i] = d[i - 1] + ns[i]
                  /\ Total(ns) = d[Len(ns)]
<1> DEFINE n == Len(ns)
           step == [p \in Nat \X Nat |-> p[1] + p[2]]
           P(f) == f = [s \in SUBSET (1..n) |-> IF s = {} THEN 0 ELSE f[s \ {Max(s)}] + ns[Max(s)]]
           it == CHOOSE f : P(f)
<1>1. n \in Nat /\ DOMAIN ns = 1..n /\ \A i \in 1..n : ns[i] \in Nat
  BY DEF Numbers
<1>2. \E g \in [SUBSET (1..n) -> Nat] : Folds(g, 0, step, ns, n)
  <2> DEFINE Z == Nat
  <2>1. step \in [Z \X Z -> Z]
    OBVIOUS
  <2>2. 0 \in Z
    OBVIOUS
  <2>3. ns \in [1..n -> Z]
    BY <1>1 DEF Numbers
  <2>4. n \in Nat
    BY <1>1
  <2> HIDE DEF n, step, Z
  <2>5. \E g \in [SUBSET (1..n) -> Z] : Folds(g, 0, step, ns, n)
    BY ONLY <2>1, <2>2, <2>3, <2>4, FoldExists, Zenon
  <2> QED
    BY <2>5 DEF Z
<1>3. PICK g \in [SUBSET (1..n) -> Nat] : Folds(g, 0, step, ns, n)
  BY <1>2
<1>4. P(g)
  <2> SUFFICES ASSUME NEW s \in SUBSET (1..n)
               PROVE  g[s] = IF s = {} THEN 0 ELSE g[s \ {Max(s)}] + ns[Max(s)]
    OBVIOUS
  <2>1. CASE s = {}
    BY <1>3, <2>1 DEF Folds
  <2>2. CASE s # {}
    <3>1. Max(s) \in s
      BY <1>1, <2>2, GreatestIndex
    <3>2. g[s \ {Max(s)}] \in Nat /\ ns[Max(s)] \in Nat
      BY <1>1, <3>1
    <3> QED
      BY <1>3, <2>2, <3>2 DEF Folds
  <2> QED
    BY <2>1, <2>2
<1>5. P(it)
  <2> HIDE DEF P
  <2> QED
    BY <1>4
<1>6. Total(ns) = it[1..n]
  BY <1>1, Zenon DEF Total, FoldLeft, MapThenFoldSet
<1> HIDE DEF it
<1> DEFINE d == [i \in 0..n |-> it[1..i]]
<1>7. d[0] = 0
  <2>1. 1..0 = {} /\ {} \in SUBSET (1..n) /\ 0 \in 0..n
    BY <1>1
  <2>2. it[{}] = 0
    BY <1>5, <2>1
  <2> QED
    BY <2>1, <2>2
<1>8. ASSUME NEW i \in 1..n
      PROVE  d[i] = d[i - 1] + ns[i]
  <2> DEFINE s == 1..i
  <2>1. s \in SUBSET (1..n) /\ s # {} /\ Max(s) = i /\ s \ {i} = 1..(i - 1)
    BY <1>1, LastOfFirst
  <2>2. it[s] = it[1..(i - 1)] + ns[i]
    <3> HIDE DEF s
    <3> QED
      BY <1>5, <2>1
  <2>3. i - 1 \in 0..n /\ i \in 0..n
    BY <1>1
  <2> QED
    BY <2>2, <2>3
<1>9. Total(ns) = d[n]
  BY <1>1, <1>6
<1> HIDE DEF d
<1> QED
  BY <1>7, <1>8, <1>9

\* Whatever begins at 0 and grows by one number after the other ends at the sum.
LEMMA TotalIs ==
    ASSUME NEW ns \in Numbers, NEW e, e[0] = 0, \A i \in 1..Len(ns) : e[i] = e[i - 1] + ns[i]
    PROVE  Total(ns) = e[Len(ns)]
<1>1. PICK d : /\ d[0] = 0 /\ \A i \in 1..Len(ns) : d[i] = d[i - 1] + ns[i]
               /\ Total(ns) = d[Len(ns)]
  BY TotalSteps
<1> DEFINE n == Len(ns)
           S == {i \in 0..n : d[i] = e[i]}
<1>2. n \in Nat
  BY DEF Numbers
<1>3. 0 \in S
  BY <1>1, <1>2
<1>4. ASSUME NEW i \in 0..(n - 1), i \in S
      PROVE  i + 1 \in S
  <2>1. i + 1 \in 1..n /\ i + 1 \in 0..n /\ (i + 1) - 1 = i
    BY <1>2
  <2>2. d[i + 1] = d[i] + ns[i + 1] /\ e[i + 1] = e[i] + ns[i + 1]
    BY <1>1, <2>1
  <2> QED
    BY <1>4, <2>1, <2>2
<1>5. n \in S
  <2> HIDE DEF S, n
  <2>1. \A i \in 0..n : i \in S
    BY <1>2, <1>3, <1>4, SetUpTo
  <2> QED
    BY <1>2, <2>1
<1> QED
  BY <1>1, <1>5

\* Totals of numbers: a natural number, of nothing, of one, and of one more.
LEMMA TotalNat ==
    ASSUME NEW ns \in Numbers
    PROVE  Total(ns) \in Nat
<1>1. PICK d : /\ d[0] = 0 /\ \A i \in 1..Len(ns) : d[i] = d[i - 1] + ns[i]
               /\ Total(ns) = d[Len(ns)]
  BY TotalSteps
<1> DEFINE n == Len(ns)
           S == {i \in 0..n : d[i] \in Nat}
<1>2. n \in Nat /\ \A i \in 1..n : ns[i] \in Nat
  BY DEF Numbers
<1>3. 0 \in S
  BY <1>1, <1>2
<1>4. ASSUME NEW i \in 0..(n - 1), i \in S
      PROVE  i + 1 \in S
  <2>1. i + 1 \in 1..n /\ i + 1 \in 0..n /\ (i + 1) - 1 = i
    BY <1>2
  <2> QED
    BY <1>1, <1>2, <1>4, <2>1
<1>5. n \in S
  <2> HIDE DEF S, n
  <2>1. \A i \in 0..n : i \in S
    BY <1>2, <1>3, <1>4, SetUpTo
  <2> QED
    BY <1>2, <2>1
<1> QED
  BY <1>1, <1>5

\* Of nothing.
LEMMA TotalEmpty == Total(<<>>) = 0
<1> DEFINE e == [i \in 0..0 |-> 0]
<1>1. <<>> \in Numbers /\ Len(<<>>) = 0
  BY DEF Numbers
<1>2. e[0] = 0 /\ \A i \in 1..Len(<<>>) : e[i] = e[i - 1] + <<>>[i]
  BY <1>1
<1> HIDE DEF e
<1>3. Total(<<>>) = e[Len(<<>>)]
  BY ONLY <1>1, <1>2, TotalIs
<1> QED
  BY <1>1, <1>2, <1>3

\* A sum of two lists is the sum of their sums.
LEMMA TotalConcat ==
    ASSUME NEW s \in Numbers, NEW t \in Numbers
    PROVE  s \o t \in Numbers /\ Total(s \o t) = Total(s) + Total(t)
<1>1. PICK d : /\ d[0] = 0 /\ \A i \in 1..Len(s) : d[i] = d[i - 1] + s[i]
               /\ Total(s) = d[Len(s)]
  BY TotalSteps
<1>2. PICK g : /\ g[0] = 0 /\ \A i \in 1..Len(t) : g[i] = g[i - 1] + t[i]
               /\ Total(t) = g[Len(t)]
  BY TotalSteps
<1> DEFINE m == Len(s)
           n == Len(t)
           e == [i \in 0..(m + n) |-> IF i <= m THEN d[i] ELSE Total(s) + g[i - m]]
<1>3. /\ m \in Nat /\ n \in Nat /\ s \o t \in Numbers /\ Len(s \o t) = m + n
      /\ \A i \in 1..m : (s \o t)[i] = s[i]
      /\ \A i \in (m + 1)..(m + n) : (s \o t)[i] = t[i - m]
  BY DEF Numbers
<1>4. Total(s) \in Nat /\ Total(t) \in Nat
  BY TotalNat
<1>5. e[0] = 0
  BY <1>1, <1>3
<1>6. ASSUME NEW i \in 1..(m + n)
      PROVE  e[i] = e[i - 1] + (s \o t)[i]
  <2>1. i \in 0..(m + n) /\ i - 1 \in 0..(m + n)
    BY <1>3
  <2>2. CASE i <= m
    <3>1. e[i] = d[i] /\ e[i - 1] = d[i - 1] /\ i \in 1..m
      BY <1>3, <2>1, <2>2
    <3> HIDE DEF e, m
    <3> QED
      BY <1>1, <1>3, <3>1 DEF m
  <2>3. CASE i = m + 1
    <3>1. e[i] = Total(s) + g[1] /\ e[i - 1] = d[m] /\ 1 \in 1..n /\ i \in (m + 1)..(m + n) /\ i - m = 1
      BY <1>3, <2>1, <2>3
    <3>2. g[1] = g[0] + t[1] /\ t[1] \in Nat
      BY <1>2, <3>1 DEF Numbers
    <3> HIDE DEF e, m, n
    <3>3. (s \o t)[i] = t[1] /\ d[m] = Total(s)
      BY <1>1, <1>3, <3>1 DEF m
    <3> QED
      BY <1>2, <1>4, <3>1, <3>2, <3>3
  <2>4. CASE i > m + 1
    <3>1. /\ e[i] = Total(s) + g[i - m] /\ e[i - 1] = Total(s) + g[(i - 1) - m] /\ i - m \in 1..n
          /\ i \in (m + 1)..(m + n) /\ (i - 1) - m = (i - m) - 1
      BY <1>3, <2>1, <2>4
    <3> DEFINE k == i - m
    <3>2. g[k] = g[k - 1] + t[k] /\ (s \o t)[i] = t[k]
      <4>1. g[k] = g[k - 1] + t[k]
        BY <1>2, <3>1
      <4> QED
        BY <1>3, <3>1, <4>1
    <3>3. g[k - 1] \in Nat /\ t[k] \in Nat
      <4> DEFINE S == {j \in 0..n : g[j] \in Nat}
      <4>1. 0 \in S
        BY <1>2, <1>3
      <4>2. ASSUME NEW j \in 0..(n - 1), j \in S
            PROVE  j + 1 \in S
        <5>1. j + 1 \in 1..n /\ j + 1 \in 0..n /\ (j + 1) - 1 = j
          BY <1>3
        <5>2. t[j + 1] \in Nat
          BY <5>1 DEF Numbers
        <5> QED
          BY <1>2, <4>2, <5>1, <5>2
      <4>3. \A j \in 0..n : j \in S
        <5> HIDE DEF S, n
        <5> QED
          BY <1>3, <4>1, <4>2, SetUpTo
      <4>4. k \in 1..n /\ k - 1 \in 0..n
        BY <3>1, <1>3
      <4>5. t[k] \in Nat
        BY <4>4 DEF Numbers
      <4> QED
        BY <4>3, <4>4, <4>5
    <3> HIDE DEF e, m, n
    <3>4. e[i] = Total(s) + g[k] /\ e[i - 1] = Total(s) + g[k - 1]
      BY <3>1
    <3> HIDE DEF k
    <3> QED
      BY <1>4, <3>2, <3>3, <3>4
  <2> QED
    BY <1>3, <2>2, <2>3, <2>4
<1>7. e[m + n] = Total(s) + Total(t)
  <2>1. CASE n = 0
    BY <1>1, <1>2, <1>3, <1>4, <2>1
  <2>2. CASE n > 0
    BY <1>2, <1>3, <2>2
  <2> QED
    BY <1>3, <2>1, <2>2
<1> HIDE DEF e
<1>8. Total(s \o t) = e[Len(s \o t)]
  <2> DEFINE u == s \o t
  <2>1. u \in Numbers /\ Len(u) = m + n /\ \A i \in 1..Len(u) : e[i] = e[i - 1] + u[i]
    BY <1>3, <1>6
  <2> HIDE DEF u
  <2>2. Total(u) = e[Len(u)]
    BY ONLY <1>5, <2>1, TotalIs
  <2> QED
    BY <2>2 DEF u
<1> QED
  BY <1>3, <1>7, <1>8

\* Of one number.
LEMMA TotalOne ==
    ASSUME NEW x \in Nat
    PROVE  <<x>> \in Numbers /\ Total(<<x>>) = x
<1> DEFINE e == [i \in 0..1 |-> IF i = 0 THEN 0 ELSE x]
           s == <<x>>
<1>1. s \in Numbers /\ Len(s) = 1
  BY DEF Numbers
<1>2. e[0] = 0 /\ e[1] = x /\ \A i \in 1..Len(s) : e[i] = e[i - 1] + s[i]
  BY <1>1
<1> HIDE DEF e, s
<1>3. Total(s) = e[Len(s)]
  BY ONLY <1>1, <1>2, TotalIs
<1> QED
  BY <1>1, <1>2, <1>3 DEF s

\* Of one number more.
LEMMA TotalAppend ==
    ASSUME NEW s \in Numbers, NEW x \in Nat
    PROVE  Append(s, x) \in Numbers /\ Total(Append(s, x)) = Total(s) + x
<1>1. <<x>> \in Numbers /\ Total(<<x>>) = x
  BY TotalOne
<1>2. Append(s, x) = s \o <<x>>
  BY DEF Numbers
<1> QED
  BY <1>1, <1>2, TotalConcat

\* The same number over and over.
LEMMA TotalSame ==
    ASSUME NEW n \in Nat, NEW c \in Nat, NEW s, s = [i \in 1..n |-> c]
    PROVE  s \in Numbers /\ Total(s) = n * c
<1> DEFINE e == [i \in 0..n |-> i * c]
<1>1. s \in Numbers /\ Len(s) = n
  BY DEF Numbers
<1>2. e[0] = 0 /\ e[n] = n * c
  OBVIOUS
<1>3. ASSUME NEW i \in 1..Len(s)
      PROVE  e[i] = e[i - 1] + s[i]
  <2>1. i \in 1..n /\ i \in 0..n /\ i - 1 \in 0..n /\ s[i] = c
    BY <1>1
  <2>2. i * c = (i - 1) * c + c
    BY <2>1
  <2> QED
    BY <2>1, <2>2
<1> HIDE DEF e
<1>4. Total(s) = e[Len(s)]
  BY ONLY <1>1, <1>2, <1>3, TotalIs
<1> QED
  BY <1>1, <1>2, <1>4

-----------------------------------------------------------------------------
(* How the words of a text are cut into chunks.                            *)

CutState == [chunks : Seq(Numbers), rest : Numbers]
Word == Nat \ {0}

Within(chunk, limit) == chunk \in Numbers /\ chunk # <<>> /\ Length(chunk) <= limit
LettersOf(chunks) == [i \in 1..Len(chunks) |-> Letters(chunks[i])]

\* The chunks so far and what is open fit, and hold the letters so far.
WellCut(cut, limit, sum) ==
    /\ cut \in CutState
    /\ \A i \in 1..Len(cut.chunks) : Within(cut.chunks[i], limit)
    /\ cut.rest # <<>> => Within(cut.rest, limit)
    /\ Total(LettersOf(cut.chunks)) + Total(cut.rest) = sum

\* The letters of chunks: numbers, of chunks put together, and of one chunk.
LEMMA LettersList ==
    ASSUME NEW cs \in Seq(Numbers)
    PROVE  LettersOf(cs) \in Numbers
<1>1. \A i \in 1..Len(cs) : Letters(cs[i]) \in Nat
  BY TotalNat DEF Letters
<1>2. Len(cs) \in Nat
  OBVIOUS
<1> QED
  BY <1>1, <1>2 DEF LettersOf, Numbers

\* Of chunks put together.
LEMMA LettersConcat ==
    ASSUME NEW a \in Seq(Numbers), NEW b \in Seq(Numbers)
    PROVE  /\ a \o b \in Seq(Numbers)
           /\ Total(LettersOf(a \o b)) = Total(LettersOf(a)) + Total(LettersOf(b))
<1>1. a \o b \in Seq(Numbers) /\ Len(a \o b) = Len(a) + Len(b) /\ Len(a) \in Nat /\ Len(b) \in Nat
  OBVIOUS
<1>2. LettersOf(a) \in Numbers /\ LettersOf(b) \in Numbers
  BY LettersList
<1>3. LettersOf(a \o b) = LettersOf(a) \o LettersOf(b)
  <2> DEFINE p == LettersOf(a)
             q == LettersOf(b)
             u == LettersOf(a \o b)
  <2>1. /\ p \in Seq(Nat) /\ Len(p) = Len(a) /\ \A i \in 1..Len(a) : p[i] = Letters(a[i])
        /\ q \in Seq(Nat) /\ Len(q) = Len(b) /\ \A i \in 1..Len(b) : q[i] = Letters(b[i])
    BY <1>1, <1>2 DEF LettersOf, Numbers
  <2>2. /\ u \in Seq(Nat) /\ Len(u) = Len(a) + Len(b)
        /\ \A i \in 1..(Len(a) + Len(b)) : u[i] = Letters((a \o b)[i])
    <3>1. u \in Seq(Nat)
      BY <1>1, LettersList DEF Numbers
    <3> QED
      BY <1>1, <3>1 DEF LettersOf
  <2>3. /\ p \o q \in Seq(Nat) /\ Len(p \o q) = Len(p) + Len(q)
        /\ \A i \in 1..(Len(p) + Len(q)) : (p \o q)[i] = IF i <= Len(p) THEN p[i] ELSE q[i - Len(p)]
    <3>1. p \in Seq(Nat)
      BY <2>1
    <3>2. q \in Seq(Nat)
      BY <2>1
    <3> HIDE DEF p, q
    <3> QED
      BY ONLY <3>1, <3>2, ConcatProperties
  <2>4. \A i \in 1..(Len(a) + Len(b)) : (a \o b)[i] = IF i <= Len(a) THEN a[i] ELSE b[i - Len(a)]
    BY ConcatProperties
  <2> HIDE DEF p, q, u
  <2>5. ASSUME NEW i \in 1..Len(u)
        PROVE  u[i] = (p \o q)[i]
    <3>1. i \in 1..(Len(a) + Len(b))
      BY <2>2
    <3>2. CASE i <= Len(a)
      <4>1. i \in 1..Len(a)
        BY <1>1, <3>1, <3>2
      <4> QED
        BY <2>1, <2>2, <2>3, <2>4, <3>1, <3>2, <4>1
    <3>3. CASE ~(i <= Len(a))
      <4>1. i - Len(a) \in 1..Len(b)
        BY <1>1, <3>1, <3>3
      <4> QED
        BY <2>1, <2>2, <2>3, <2>4, <3>1, <3>3, <4>1
    <3> QED
      BY <3>2, <3>3
  <2>6. u = p \o q
    BY <2>1, <2>2, <2>3, <2>5, SeqEqual
  <2> QED
    BY <2>6 DEF p, q, u
<1> QED
  BY <1>1, <1>2, <1>3, TotalConcat

\* Of one chunk.
LEMMA LettersOne ==
    ASSUME NEW c \in Numbers
    PROVE  <<c>> \in Seq(Numbers) /\ Total(LettersOf(<<c>>)) = Total(c)
<1>1. LettersOf(<<c>>) = <<Total(c)>>
  BY DEF LettersOf, Letters
<1>2. Total(c) \in Nat
  BY TotalNat
<1> QED
  BY <1>1, <1>2, TotalOne

\* A sequence of one number, and one more.
LEMMA LengthOne ==
    ASSUME NEW x \in Nat
    PROVE  <<x>> \in Numbers /\ <<x>> # <<>> /\ Length(<<x>>) = x
<1>1. <<x>> \in Numbers /\ Total(<<x>>) = x /\ Len(<<x>>) = 1
  BY TotalOne
<1> QED
  BY <1>1 DEF Length

\* A word more, and the space before it.
LEMMA LengthAppend ==
    ASSUME NEW s \in Numbers, NEW x \in Nat
    PROVE  /\ Append(s, x) \in Numbers /\ Append(s, x) # <<>>
           /\ Total(Append(s, x)) = Total(s) + x
           /\ Length(Append(s, x)) = Length(s) + 1 + x
<1>1. Append(s, x) \in Numbers /\ Total(Append(s, x)) = Total(s) + x
  BY TotalAppend
<1>2. Len(Append(s, x)) = Len(s) + 1 /\ Len(s) \in Nat /\ Append(s, x) # <<>>
  BY DEF Numbers
<1>3. Total(s) \in Nat
  BY TotalNat
<1> QED
  BY <1>1, <1>2, <1>3 DEF Length

\* What AddWord makes, by its cases.
Opened(cut) == cut.rest # <<>>
Filled(cut) == IF Opened(cut) THEN Length(cut.rest) + 1 ELSE 0
ClosedChunks(cut) == IF Opened(cut) THEN Append(cut.chunks, cut.rest) ELSE cut.chunks
WholeOf(word, limit) == [i \in 1..(word \div limit) |-> <<limit>>]

\* A cut that goes on with its rest.
LEMMA CutExcept ==
    ASSUME NEW A, NEW B, NEW cut \in [chunks : A, rest : B], NEW word
    PROVE  [cut EXCEPT !.rest = Append(@, word)] = [chunks |-> cut.chunks, rest |-> Append(cut.rest, word)]
OBVIOUS

\* The three things AddWord does.
LEMMA AddWordCases ==
    ASSUME NEW limit, NEW cut \in CutState, NEW word
    PROVE  AddWord(limit, cut, word) =
             IF Filled(cut) + word <= limit
             THEN [chunks |-> cut.chunks, rest |-> Append(cut.rest, word)]
             ELSE IF word <= limit THEN [chunks |-> ClosedChunks(cut), rest |-> <<word>>]
             ELSE [chunks |-> ClosedChunks(cut) \o WholeOf(word, limit),
                   rest |-> IF word % limit = 0 THEN <<>> ELSE <<word % limit>>]
<1>1. [cut EXCEPT !.rest = Append(@, word)] = [chunks |-> cut.chunks, rest |-> Append(cut.rest, word)]
  BY CutExcept DEF CutState
<1> QED
  BY <1>1 DEF AddWord, Opened, Filled, ClosedChunks, WholeOf

\* The pieces of a word that is too long.
LEMMA WholeWords ==
    ASSUME NEW limit \in Word, NEW word \in Word
    PROVE  /\ WholeOf(word, limit) \in Seq(Numbers)
           /\ \A i \in 1..Len(WholeOf(word, limit)) : Within(WholeOf(word, limit)[i], limit)
           /\ Total(LettersOf(WholeOf(word, limit))) + (word % limit) = word
           /\ word > limit => WholeOf(word, limit) # <<>>
           /\ word % limit \in 0..(limit - 1)
<1> DEFINE n == word \div limit
           whole == WholeOf(word, limit)
<1>1. n \in Nat /\ word = n * limit + (word % limit) /\ word % limit \in 0..(limit - 1)
  BY DEF Word
<1>2. whole = [i \in 1..n |-> <<limit>>]
  BY DEF WholeOf
<1>3. <<limit>> \in Numbers /\ <<limit>> # <<>> /\ Length(<<limit>>) = limit /\ Total(<<limit>>) = limit
  BY LengthOne, TotalOne DEF Word
<1> HIDE DEF n, whole
<1>4. whole \in Seq(Numbers) /\ Len(whole) = n /\ \A i \in 1..n : whole[i] = <<limit>>
  BY <1>1, <1>2, <1>3
<1>5. LettersOf(whole) = [i \in 1..n |-> limit]
  BY <1>3, <1>4 DEF LettersOf, Letters
<1>6. Total(LettersOf(whole)) = n * limit
  BY <1>1, <1>5, TotalSame DEF Word
<1>7. word > limit => n > 0
  BY <1>1 DEF Word
<1>8. \A i \in 1..n : Within(whole[i], limit)
  <2>1. limit \in Nat /\ limit <= limit
    BY DEF Word
  <2>2. Within(<<limit>>, limit)
    BY ONLY <1>3, <2>1 DEF Within
  <2> QED
    BY ONLY <1>4, <2>2
<1>9. n > 0 => whole # <<>>
  BY <1>4
<1>10. n * limit + (word % limit) = word
  BY <1>1
<1> QED
  BY <1>1, <1>4, <1>6, <1>7, <1>8, <1>9, <1>10 DEF whole

\* What is open is closed.
LEMMA ClosedCut ==
    ASSUME NEW limit \in Word, NEW sum, NEW cut, WellCut(cut, limit, sum)
    PROVE  /\ ClosedChunks(cut) \in Seq(Numbers) /\ Total(LettersOf(ClosedChunks(cut))) = sum
           /\ \A i \in 1..Len(ClosedChunks(cut)) : Within(ClosedChunks(cut)[i], limit)
           /\ cut.rest # <<>> => ClosedChunks(cut) # <<>>
<1> DEFINE cs == cut.chunks
           rest == cut.rest
<1>1. cs \in Seq(Numbers) /\ rest \in Numbers /\ Len(cs) \in Nat
  BY DEF WellCut, CutState
<1>2. CASE rest = <<>>
  BY <1>1, <1>2, TotalEmpty, TotalNat, LettersList DEF WellCut, ClosedChunks, Opened
<1>3. CASE rest # <<>>
  <2>1. ClosedChunks(cut) = cs \o <<rest>> /\ ClosedChunks(cut) = Append(cs, rest)
    BY <1>1, <1>3 DEF ClosedChunks, Opened
  <2>2. <<rest>> \in Seq(Numbers) /\ Total(LettersOf(<<rest>>)) = Total(rest)
    BY <1>1, LettersOne
  <2>3. ClosedChunks(cut) \in Seq(Numbers) /\ Total(LettersOf(ClosedChunks(cut))) = Total(LettersOf(cs)) + Total(rest)
    BY <1>1, <2>1, <2>2, LettersConcat
  <2>4. Len(ClosedChunks(cut)) = Len(cs) + 1 /\ ClosedChunks(cut)[Len(cs) + 1] = rest
        /\ \A i \in 1..Len(cs) : ClosedChunks(cut)[i] = cs[i]
    BY <1>1, <2>1
  <2>5. ASSUME NEW i \in 1..Len(ClosedChunks(cut))
        PROVE  Within(ClosedChunks(cut)[i], limit)
    <3>1. i \in 1..Len(cs) \/ i = Len(cs) + 1
      BY <1>1, <2>4
    <3> QED
      BY <1>3, <2>4, <3>1 DEF WellCut
  <2>6. ClosedChunks(cut) # <<>>
    BY <1>1, <2>1
  <2> QED
    BY <2>3, <2>5, <2>6 DEF WellCut
<1> QED
  BY <1>2, <1>3

\* A word more is cut well too, and leaves something to send.
LEMMA WordCut ==
    ASSUME NEW limit \in Word, NEW sum \in Nat, NEW cut, WellCut(cut, limit, sum), NEW word \in Word
    PROVE  /\ WellCut(AddWord(limit, cut, word), limit, sum + word)
           /\ \/ AddWord(limit, cut, word).chunks # <<>>
              \/ AddWord(limit, cut, word).rest # <<>>
<1> DEFINE next == AddWord(limit, cut, word)
           cs == cut.chunks
           rest == cut.rest
<1>1. cut \in CutState /\ cs \in Seq(Numbers) /\ rest \in Numbers /\ word \in Nat /\ limit \in Nat
  BY DEF WellCut, CutState, Word
<1>2. CASE Filled(cut) + word <= limit
  <2>1. next = [chunks |-> cs, rest |-> Append(rest, word)]
    BY <1>1, <1>2, AddWordCases
  <2>2. /\ Append(rest, word) \in Numbers /\ Append(rest, word) # <<>>
        /\ Total(Append(rest, word)) = Total(rest) + word
        /\ Length(Append(rest, word)) = Length(rest) + 1 + word
    BY <1>1, LengthAppend
  <2>3. Length(Append(rest, word)) <= limit
    <3>1. CASE rest = <<>>
      BY <1>1, <1>2, <2>2, <3>1, TotalEmpty DEF Filled, Opened, Length
    <3>2. CASE rest # <<>>
      BY <1>2, <2>2, <3>2 DEF Filled, Opened
    <3> QED
      BY <3>1, <3>2
  <2>4. Total(LettersOf(cs)) \in Nat /\ Total(rest) \in Nat
    BY <1>1, LettersList, TotalNat
  <2> HIDE DEF next
  <2>5. next.chunks = cs /\ next.rest = Append(rest, word) /\ next \in CutState
    BY <1>1, <2>1, <2>2 DEF CutState
  <2>6. Total(LettersOf(next.chunks)) + Total(next.rest) = sum + word
    BY <1>1, <2>2, <2>4, <2>5 DEF WellCut
  <2> QED
    BY <2>2, <2>3, <2>5, <2>6 DEF WellCut, Within, next
<1>3. CASE ~(Filled(cut) + word <= limit) /\ word <= limit
  <2>1. next = [chunks |-> ClosedChunks(cut), rest |-> <<word>>]
    BY <1>1, <1>3, AddWordCases
  <2>2. /\ ClosedChunks(cut) \in Seq(Numbers) /\ Total(LettersOf(ClosedChunks(cut))) = sum
        /\ \A i \in 1..Len(ClosedChunks(cut)) : Within(ClosedChunks(cut)[i], limit)
    BY ClosedCut
  <2>3. <<word>> \in Numbers /\ <<word>> # <<>> /\ Length(<<word>>) = word /\ Total(<<word>>) = word
    BY <1>1, LengthOne, TotalOne
  <2> HIDE DEF next
  <2>4. next.chunks = ClosedChunks(cut) /\ next.rest = <<word>> /\ next \in CutState
    BY <2>1, <2>2, <2>3 DEF CutState
  <2> QED
    BY <1>3, <2>2, <2>3, <2>4 DEF WellCut, Within, next
<1>4. CASE ~(Filled(cut) + word <= limit) /\ ~(word <= limit)
  <2> DEFINE closed == ClosedChunks(cut)
             whole == WholeOf(word, limit)
             left == IF word % limit = 0 THEN <<>> ELSE <<word % limit>>
  <2>1. next = [chunks |-> closed \o whole, rest |-> left]
    BY <1>1, <1>4, AddWordCases
  <2>2. /\ closed \in Seq(Numbers) /\ Total(LettersOf(closed)) = sum
        /\ \A i \in 1..Len(closed) : Within(closed[i], limit)
    BY ClosedCut
  <2>3. /\ whole \in Seq(Numbers) /\ whole # <<>>
        /\ \A i \in 1..Len(whole) : Within(whole[i], limit)
        /\ Total(LettersOf(whole)) + (word % limit) = word
        /\ word % limit \in 0..(limit - 1)
    BY <1>1, <1>4, WholeWords
  <2>4. /\ left \in Numbers /\ Total(left) = word % limit
        /\ left # <<>> => Within(left, limit)
    <3>1. CASE word % limit = 0
      BY <3>1, TotalEmpty DEF Numbers
    <3>2. CASE word % limit # 0
      BY <1>1, <2>3, <3>2, LengthOne, TotalOne DEF Within
    <3> QED
      BY <3>1, <3>2
  <2> HIDE DEF next, closed, whole, left
  <2>5. closed \o whole \in Seq(Numbers)
        /\ Total(LettersOf(closed \o whole)) = Total(LettersOf(closed)) + Total(LettersOf(whole))
    BY <2>2, <2>3, LettersConcat
  <2>6. next.chunks = closed \o whole /\ next.rest = left /\ next \in CutState
    BY <2>1, <2>4, <2>5 DEF CutState
  <2>7. Total(LettersOf(whole)) \in Nat
    BY <2>3, LettersList, TotalNat
  <2>8. Total(LettersOf(next.chunks)) + Total(next.rest) = sum + word
    <3> DEFINE m == word % limit
               w == Total(LettersOf(whole))
    <3>1. m \in Nat /\ w \in Nat /\ w + m = word /\ Total(left) = m
      BY <1>1, <2>3, <2>4, <2>7
    <3>2. Total(LettersOf(next.chunks)) = sum + w
      BY <2>2, <2>5, <2>6
    <3> HIDE DEF m, w
    <3> QED
      BY <2>6, <3>1, <3>2
  <2>9. ASSUME NEW i \in 1..Len(next.chunks)
        PROVE  Within(next.chunks[i], limit)
    <3>1. Len(closed) \in Nat /\ Len(whole) \in Nat /\ Len(closed \o whole) = Len(closed) + Len(whole)
      BY <2>2, <2>3
    <3>2. CASE i <= Len(closed)
      <4>1. (closed \o whole)[i] = closed[i] /\ i \in 1..Len(closed)
        BY <2>2, <2>3, <2>6, <3>1, <3>2
      <4> QED
        BY <2>2, <2>6, <4>1
    <3>3. CASE ~(i <= Len(closed))
      <4>1. (closed \o whole)[i] = whole[i - Len(closed)] /\ i - Len(closed) \in 1..Len(whole)
        BY <2>2, <2>3, <2>6, <3>1, <3>3
      <4> QED
        BY <2>3, <2>6, <4>1
    <3> QED
      BY <3>2, <3>3
  <2>10. next.chunks # <<>>
    BY <2>2, <2>3, <2>6
  <2> QED
    BY <2>4, <2>6, <2>8, <2>9, <2>10 DEF WellCut, next
<1> QED
  BY <1>2, <1>3, <1>4

\* A text is cut word by word.
LEMMA ChunkSteps ==
    ASSUME NEW limit \in Word, NEW text \in Seq(Word)
    PROVE  \E d : /\ d[0] = [chunks |-> <<>>, rest |-> <<>>]
                  /\ \A i \in 1..Len(text) : d[i] = AddWord(limit, d[i - 1], text[i])
                  /\ LET cut == d[Len(text)] IN
                     Chunks(text, limit) = IF cut.rest = <<>> THEN cut.chunks ELSE Append(cut.chunks, cut.rest)
<1> DEFINE n == Len(text)
           base == [chunks |-> <<>>, rest |-> <<>>]
           step == [p \in CutState \X Word |-> AddWord(limit, p[1], p[2])]
           P(f) == f = [s \in SUBSET (1..n) |-> IF s = {} THEN base ELSE AddWord(limit, f[s \ {Max(s)}], text[Max(s)])]
           it == CHOOSE f : P(f)
<1>1. n \in Nat /\ DOMAIN text = 1..n /\ \A i \in 1..n : text[i] \in Word
  OBVIOUS
<1>2. ASSUME NEW cut \in CutState, NEW word \in Word
      PROVE  AddWord(limit, cut, word) \in CutState
  <2>1. cut.chunks \in Seq(Numbers) /\ cut.rest \in Numbers /\ word \in Nat /\ limit \in Nat
    BY DEF CutState, Word
  <2>2. ClosedChunks(cut) \in Seq(Numbers)
    BY <2>1 DEF ClosedChunks
  <2>3. WholeOf(word, limit) \in Seq(Numbers) /\ word % limit \in Nat
    BY WholeWords
  <2>4. ClosedChunks(cut) \o WholeOf(word, limit) \in Seq(Numbers)
    BY <2>2, <2>3, ConcatProperties
  <2>5. <<word>> \in Numbers /\ <<word % limit>> \in Numbers /\ <<>> \in Numbers
    BY <2>1, <2>3, TotalOne DEF Numbers
  <2>6. Append(cut.rest, word) \in Numbers
    BY <2>1, TotalAppend
  <2> DEFINE left == IF word % limit = 0 THEN <<>> ELSE <<word % limit>>
  <2>7. left \in Numbers
    BY <2>5
  <2>8. AddWord(limit, cut, word) \in
            {[chunks |-> cut.chunks, rest |-> Append(cut.rest, word)],
             [chunks |-> ClosedChunks(cut), rest |-> <<word>>],
             [chunks |-> ClosedChunks(cut) \o WholeOf(word, limit), rest |-> left]}
    BY AddWordCases
  <2> HIDE DEF left
  <2>9. \A a \in Seq(Numbers), b \in Numbers : [chunks |-> a, rest |-> b] \in CutState
    BY DEF CutState
  <2> QED
    BY <2>1, <2>2, <2>4, <2>5, <2>6, <2>7, <2>8, <2>9
<1>3. \E g \in [SUBSET (1..n) -> CutState] : Folds(g, base, step, text, n)
  <2>1. step \in [CutState \X Word -> CutState]
    BY <1>2
  <2>2. base \in CutState
    BY DEF CutState, Numbers
  <2>3. text \in [1..n -> Word]
    BY <1>1
  <2>4. n \in Nat
    BY <1>1
  <2> HIDE DEF n, step, base
  <2> QED
    BY ONLY <2>1, <2>2, <2>3, <2>4, FoldExists, Zenon
<1>4. PICK g \in [SUBSET (1..n) -> CutState] : Folds(g, base, step, text, n)
  BY <1>3
<1>5. P(g)
  <2> SUFFICES ASSUME NEW s \in SUBSET (1..n)
               PROVE  g[s] = IF s = {} THEN base ELSE AddWord(limit, g[s \ {Max(s)}], text[Max(s)])
    OBVIOUS
  <2>1. CASE s = {}
    BY <1>4, <2>1 DEF Folds
  <2>2. CASE s # {}
    <3>1. Max(s) \in s
      BY <1>1, <2>2, GreatestIndex
    <3>2. g[s \ {Max(s)}] \in CutState /\ text[Max(s)] \in Word
      BY <1>1, <3>1
    <3> HIDE DEF base
    <3> QED
      BY <1>4, <2>2, <3>2 DEF Folds
  <2> QED
    BY <2>1, <2>2
<1>6. P(it)
  <2> HIDE DEF P
  <2> QED
    BY <1>5
<1> DEFINE last == it[1..n]
<1>7. Chunks(text, limit) = IF last.rest = <<>> THEN last.chunks ELSE Append(last.chunks, last.rest)
  <2> DEFINE D == DOMAIN text
             that == CHOOSE f : f = [s \in SUBSET D |->
                         IF s = {} THEN base ELSE AddWord(limit, f[s \ {Max(s)}], text[Max(s)])]
  <2>1. Chunks(text, limit) = IF that[D].rest = <<>> THEN that[D].chunks
                              ELSE Append(that[D].chunks, that[D].rest)
    BY Zenon DEF Chunks, FoldLeft, MapThenFoldSet
  <2>2. D = 1..n
    BY <1>1
  <2> HIDE DEF D
  <2>3. that = it
    BY <2>2
  <2> HIDE DEF that, it
  <2> QED
    BY <2>1, <2>2, <2>3
<1> HIDE DEF it
<1> DEFINE d == [i \in 0..n |-> it[1..i]]
<1>8. d[0] = base
  <2>1. 1..0 = {} /\ {} \in SUBSET (1..n) /\ 0 \in 0..n
    BY <1>1
  <2>2. it[{}] = base
    <3> HIDE DEF base
    <3> QED
      BY <1>6, <2>1
  <2> QED
    BY <2>1, <2>2
<1>9. ASSUME NEW i \in 1..n
      PROVE  d[i] = AddWord(limit, d[i - 1], text[i])
  <2> DEFINE s == 1..i
  <2>1. s \in SUBSET (1..n) /\ s # {} /\ Max(s) = i /\ s \ {i} = 1..(i - 1)
    BY <1>1, LastOfFirst
  <2>2. it[s] = AddWord(limit, it[1..(i - 1)], text[i])
    <3> HIDE DEF s, base
    <3> QED
      BY <1>6, <2>1
  <2>3. i - 1 \in 0..n /\ i \in 0..n
    BY <1>1
  <2> QED
    BY <2>2, <2>3
<1>10. d[n] = last
  BY <1>1
<1> HIDE DEF d, last, base
<1> QED
  BY <1>7, <1>8, <1>9, <1>10 DEF base

\* Chunks fit, there are some, and they hold the letters of the text.
LEMMA ChunksFit ==
    ASSUME NEW limit \in Word, NEW text \in Seq(Word), text # <<>>
    PROVE  /\ Chunks(text, limit) \in Seq(Numbers) /\ Chunks(text, limit) # <<>>
           /\ \A i \in 1..Len(Chunks(text, limit)) : Within(Chunks(text, limit)[i], limit)
           /\ Total(LettersOf(Chunks(text, limit))) = Letters(text)
<1> DEFINE n == Len(text)
<1>1. PICK d : /\ d[0] = [chunks |-> <<>>, rest |-> <<>>]
               /\ \A i \in 1..Len(text) : d[i] = AddWord(limit, d[i - 1], text[i])
               /\ LET cut == d[Len(text)] IN
                  Chunks(text, limit) = IF cut.rest = <<>> THEN cut.chunks ELSE Append(cut.chunks, cut.rest)
  BY ChunkSteps
<1>2. text \in Numbers /\ n \in Nat \ {0} /\ \A i \in 1..n : text[i] \in Word /\ text[i] \in Nat
  BY DEF Numbers, Word
<1>3. PICK e : /\ e[0] = 0 /\ \A i \in 1..Len(text) : e[i] = e[i - 1] + text[i]
               /\ Total(text) = e[Len(text)]
  BY <1>2, TotalSteps
<1> DEFINE Left(c) == c.chunks # <<>> \/ c.rest # <<>>
           S == {i \in 0..n : e[i] \in Nat /\ WellCut(d[i], limit, e[i]) /\ (i > 0 => Left(d[i]))}
<1>4. 0 \in S
  <2>1. d[0] \in CutState /\ d[0].chunks = <<>> /\ d[0].rest = <<>>
    BY <1>1 DEF CutState, Numbers
  <2>2. LettersOf(<<>>) = <<>>
    BY DEF LettersOf
  <2>3. Len(<<>>) = 0
    OBVIOUS
  <2>4. WellCut(d[0], limit, e[0])
    <3> DEFINE cut == d[0]
    <3> HIDE DEF cut
    <3>1. cut \in CutState /\ cut.chunks = <<>> /\ cut.rest = <<>>
      BY <2>1 DEF cut
    <3>2. \A i \in 1..Len(cut.chunks) : Within(cut.chunks[i], limit)
      BY <2>3, <3>1
    <3>3. Total(LettersOf(cut.chunks)) + Total(cut.rest) = 0
      BY <2>2, <3>1, TotalEmpty
    <3> QED
      BY <1>3, <3>1, <3>2, <3>3 DEF WellCut, cut
  <2> QED
    BY <1>2, <1>3, <2>4
<1>5. ASSUME NEW i \in 0..(n - 1), i \in S
      PROVE  i + 1 \in S
  <2>1. i + 1 \in 1..n /\ i + 1 \in 0..n /\ (i + 1) - 1 = i
    BY <1>2
  <2>2. d[i + 1] = AddWord(limit, d[i], text[i + 1]) /\ e[i + 1] = e[i] + text[i + 1]
    BY <1>1, <1>3, <2>1
  <2>3. text[i + 1] \in Word /\ text[i + 1] \in Nat /\ e[i] \in Nat /\ WellCut(d[i], limit, e[i])
    BY <1>2, <1>5, <2>1
  <2> DEFINE cut == d[i]
             word == text[i + 1]
             sum == e[i]
  <2> HIDE DEF cut, word, sum
  <2>4. /\ WellCut(AddWord(limit, cut, word), limit, sum + word)
        /\ \/ AddWord(limit, cut, word).chunks # <<>>
           \/ AddWord(limit, cut, word).rest # <<>>
    BY <2>3, WordCut DEF cut, word, sum
  <2> QED
    BY <2>1, <2>2, <2>3, <2>4 DEF cut, word, sum
<1>6. e[n] \in Nat /\ WellCut(d[n], limit, e[n]) /\ Left(d[n])
  <2>1. n \in S
    <3> HIDE DEF S, n
    <3>1. \A i \in 0..n : i \in S
      BY <1>2, <1>4, <1>5, SetUpTo
    <3> QED
      BY <1>2, <3>1
  <2> QED
    BY <1>2, <2>1
<1> DEFINE cut == d[n]
<1>7. Chunks(text, limit) = ClosedChunks(cut)
  BY <1>1 DEF ClosedChunks, Opened
<1>8. ClosedChunks(cut) # <<>>
  <2>1. CASE cut.rest # <<>>
    <3> HIDE DEF cut
    <3> QED
      BY <1>6, <2>1, ClosedCut DEF cut
  <2>2. CASE cut.rest = <<>>
    BY <1>6, <2>2 DEF ClosedChunks, Opened
  <2> QED
    BY <2>1, <2>2
<1> HIDE DEF cut
<1> QED
  BY <1>3, <1>6, <1>7, <1>8, ClosedCut DEF Letters, cut

\* What is left over after whole limits.
LEMMA Remainder ==
    ASSUME NEW a \in Nat, NEW b \in Nat \ {0}, NEW q \in Nat, q * b <= a, a < q * b + b
    PROVE  a % b = a - q * b /\ a \div b = q
OBVIOUS

\* A text that is cut by its length alone.
LEMMA PiecesFit ==
    ASSUME NEW size \in Word, NEW limit \in Word
    PROVE  /\ Pieces(size, limit) \in Numbers /\ Pieces(size, limit) # <<>>
           /\ \A i \in 1..Len(Pieces(size, limit)) : Pieces(size, limit)[i] <= limit
           /\ Total(Pieces(size, limit)) = size
<1> DEFINE n == (size + limit - 1) \div limit
           ps == Pieces(size, limit)
           e == [i \in 0..n |-> IF i * limit <= size THEN i * limit ELSE size]
<1>1. size \in Nat /\ limit \in Nat /\ size > 0 /\ limit > 0 /\ size + limit - 1 \in Nat
  BY DEF Word
<1>2. n \in Nat /\ n * limit >= size /\ n * limit < size + limit /\ n > 0
  <2> DEFINE w == size + limit - 1
             q == w \div limit
             m == w % limit
  <2>1. w \in Nat /\ q \in Nat /\ w = q * limit + m /\ m \in 0..(limit - 1)
    BY <1>1
  <2> HIDE DEF q, m
  <2>2. q * limit >= size /\ q * limit < size + limit /\ q \in Nat
    BY <1>1, <2>1
  <2>3. q > 0
    BY <1>1, <2>2
  <2> QED
    BY <2>2, <2>3 DEF q
<1> HIDE DEF n
<1>3. ps = [i \in 1..n |-> IF i * limit <= size THEN limit ELSE size % limit]
  BY DEF Pieces, n
<1> HIDE DEF ps
<1>4. ASSUME NEW i \in 1..n
      PROVE  (i - 1) * limit < size /\ i * limit = (i - 1) * limit + limit /\ i * limit \in Nat
  <2>1. i \in Nat /\ i * limit = (i - 1) * limit + limit /\ i * limit \in Nat
    BY <1>1
  <2>2. i * limit <= n * limit
    BY <1>1, <1>2
  <2> QED
    BY <1>1, <1>2, <2>1, <2>2
<1>5. ASSUME NEW i \in 1..n
      PROVE  ps[i] \in Nat /\ ps[i] <= limit /\ e[i] = e[i - 1] + ps[i]
  <2> DEFINE b == (i - 1) * limit
  <2>1. i \in 0..n /\ i - 1 \in 0..n /\ b \in Nat /\ b < size
    BY <1>1, <1>2, <1>4
  <2>2. e[i - 1] = b
    <3>1. e[i - 1] = IF b <= size THEN b ELSE size
      BY <2>1
    <3>2. b <= size
      BY <1>1, <2>1
    <3> HIDE DEF b
    <3> QED
      BY <3>1, <3>2
  <2>3. CASE i * limit <= size
    BY <1>1, <1>3, <1>4, <2>1, <2>2, <2>3
  <2>4. CASE ~(i * limit <= size)
    <3>1. ps[i] = size % limit /\ e[i] = size
      BY <1>3, <2>1, <2>4
    <3>2. size < b + limit
      BY <1>1, <1>4, <2>4
    <3>3. size % limit = size - b
      <4> DEFINE q == i - 1
      <4>1. q \in Nat /\ q * limit <= size /\ size < q * limit + limit /\ b = q * limit
        BY <1>1, <2>1, <3>2
      <4> HIDE DEF q, b
      <4> QED
        BY <1>1, <4>1, Remainder DEF Word
    <3> HIDE DEF b, e
    <3> QED
      BY <1>1, <2>1, <2>2, <3>1, <3>2, <3>3
  <2> QED
    BY <2>3, <2>4
<1>6. ps \in Numbers /\ Len(ps) = n
  <2>1. \A i \in 1..n : ps[i] \in Nat
    BY <1>5
  <2> QED
    BY <1>2, <1>3, <2>1 DEF Numbers
<1>7. e[0] = 0 /\ e[n] = size
  BY <1>1, <1>2
<1> HIDE DEF e
<1>8. \A i \in 1..Len(ps) : e[i] = e[i - 1] + ps[i]
  BY <1>5, <1>6
<1>9. Total(ps) = e[Len(ps)]
  BY ONLY <1>6, <1>7, <1>8, TotalIs
<1>10. ps # <<>> /\ \A i \in 1..Len(ps) : ps[i] <= limit
  BY <1>2, <1>5, <1>6
<1> QED
  BY <1>6, <1>7, <1>9, <1>10 DEF ps

\* A text has a length.
LEMMA TextLength ==
    ASSUME NEW text \in Seq(Word), text # <<>>
    PROVE  text \in Numbers /\ Length(text) \in Word /\ Letters(text) \in Nat
<1> DEFINE n == Len(text)
<1>1. text \in Numbers /\ n \in Nat \ {0} /\ \A i \in 1..n : text[i] \in Word
  BY DEF Numbers, Word
<1>2. Total(text) \in Nat
  BY <1>1, TotalNat
<1>3. Total(text) > 0
  <2> DEFINE s == SubSeq(text, 1, n - 1)
             x == text[n]
  <2>1. text = Append(s, x) /\ s \in Seq(Word) /\ x \in Word
    BY <1>1
  <2> HIDE DEF s, x
  <2>2. s \in Numbers /\ x \in Nat /\ x > 0
    BY <2>1 DEF Numbers, Word
  <2>3. Total(s) \in Nat /\ Total(text) = Total(s) + x
    BY <2>1, <2>2, TotalNat, TotalAppend
  <2> QED
    BY <2>2, <2>3
<1> QED
  BY <1>1, <1>2, <1>3 DEF Length, Letters, Word

-----------------------------------------------------------------------------
(* Lists of lists, one after the other.                                    *)

\* A flattened sequence is made one sequence at a time.
LEMMA FlattenSteps ==
    ASSUME NEW B, NEW ss \in Seq(Seq(B))
    PROVE  \E d : /\ d[0] = <<>> /\ \A i \in 0..Len(ss) : d[i] \in Seq(B)
                  /\ \A i \in 1..Len(ss) : d[i] = d[i - 1] \o ss[i]
                  /\ FlattenSeq(ss) = d[Len(ss)]
<1> DEFINE n == Len(ss)
           Goes(g, i) == \A k \in 1..i : g[k] = IF k = 1 THEN ss[k] ELSE g[k - 1] \o ss[k]
           S == {i \in 0..n : \E g \in [1..i -> Seq(B)] : Goes(g, i)}
<1>1. n \in Nat /\ \A i \in 1..n : ss[i] \in Seq(B)
  OBVIOUS
<1>2. 0 \in S
  <2> DEFINE g == [k \in 1..0 |-> <<>>]
  <2>1. g \in [1..0 -> Seq(B)] /\ Goes(g, 0)
    OBVIOUS
  <2> HIDE DEF g, Goes
  <2>2. \E f \in [1..0 -> Seq(B)] : Goes(f, 0)
    BY <2>1
  <2>3. 0 \in 0..n
    BY <1>1
  <2> QED
    BY ONLY <2>2, <2>3
<1>3. ASSUME NEW i \in 0..(n - 1), i \in S
      PROVE  i + 1 \in S
  <2>1. PICK g \in [1..i -> Seq(B)] : Goes(g, i)
    BY <1>3
  <2> DEFINE G(k) == IF k <= i THEN g[k] ELSE IF k = 1 THEN ss[k] ELSE g[k - 1] \o ss[k]
             h == [k \in 1..(i + 1) |-> G(k)]
  <2>2. i \in Nat /\ i + 1 \in 0..n /\ i + 1 \in 1..n
    BY <1>1
  <2>3. ASSUME NEW k \in 1..(i + 1)
        PROVE  G(k) \in Seq(B)
    <3>1. CASE k <= i
      BY <2>2, <3>1
    <3>2. CASE ~(k <= i)
      <4>1. k = i + 1 /\ ss[k] \in Seq(B)
        BY <1>1, <2>2, <3>2
      <4>2. CASE k = 1
        BY <3>2, <4>1, <4>2
      <4>3. CASE k # 1
        <5>1. k - 1 \in 1..i
          BY <2>2, <4>1, <4>3
        <5>2. g[k - 1] \in Seq(B)
          BY <5>1
        <5>3. g[k - 1] \o ss[k] \in Seq(B)
          BY <4>1, <5>2, ConcatProperties
        <5> QED
          BY <3>2, <4>3, <5>3
      <4> QED
        BY <4>2, <4>3
    <3> QED
      BY <3>1, <3>2
  <2>4. h \in [1..(i + 1) -> Seq(B)]
    <3> HIDE DEF G
    <3> QED
      BY <2>3
  <2>5. ASSUME NEW k \in 1..(i + 1)
        PROVE  h[k] = IF k = 1 THEN ss[k] ELSE h[k - 1] \o ss[k]
    <3>1. h[k] = G(k)
      OBVIOUS
    <3>2. k # 1 => h[k - 1] = g[k - 1]
      BY <2>2
    <3>3. CASE k <= i
      <4>1. h[k] = g[k] /\ k \in 1..i
        BY <2>2, <3>1, <3>3
      <4> HIDE DEF h
      <4> QED
        BY <2>1, <3>2, <4>1
    <3>4. CASE ~(k <= i)
      <4>1. h[k] = IF k = 1 THEN ss[k] ELSE g[k - 1] \o ss[k]
        BY <3>1, <3>4
      <4> HIDE DEF h
      <4> QED
        BY <3>2, <4>1
    <3> QED
      BY <3>3, <3>4
  <2> HIDE DEF h
  <2> QED
    BY <2>2, <2>4, <2>5
<1>4. n \in S
  <2> HIDE DEF S, n
  <2>1. \A i \in 0..n : i \in S
    BY <1>1, <1>2, <1>3, SetUpTo
  <2> QED
    BY <1>1, <2>1
<1>5. PICK g \in [1..n -> Seq(B)] : Goes(g, n)
  BY <1>4
<1> DEFINE P(f) == f = [k \in 1..n |-> IF k = 1 THEN ss[k] ELSE f[k - 1] \o ss[k]]
           it == CHOOSE f : P(f)
<1>6. P(it)
  <2>1. P(g)
    BY <1>5
  <2> HIDE DEF P
  <2> QED
    BY <2>1
<1>7. n # 0 => FlattenSeq(ss) = it[n]
  BY Zenon DEF FlattenSeq
<1> HIDE DEF it
<1> DEFINE d == [i \in 0..n |-> IF i = 0 THEN <<>> ELSE it[i]]
<1>8. d[0] = <<>>
  BY <1>1
<1>9. ASSUME NEW i \in 1..n
      PROVE  d[i] = d[i - 1] \o ss[i]
  <2>1. i \in 0..n /\ i - 1 \in 0..n /\ i # 0 /\ ss[i] \in Seq(B)
    BY <1>1
  <2>2. d[i] = it[i]
    BY <2>1
  <2>3. it[i] = IF i = 1 THEN ss[i] ELSE it[i - 1] \o ss[i]
    BY <1>6
  <2>4. CASE i = 1
    <3>1. d[i - 1] = <<>>
      BY <2>1, <2>4
    <3> HIDE DEF d
    <3> QED
      BY <2>1, <2>2, <2>3, <2>4, <3>1, ConcatEmptySeq
  <2>5. CASE i # 1
    <3>1. d[i - 1] = it[i - 1]
      BY <2>1, <2>5
    <3> HIDE DEF d
    <3> QED
      BY <2>2, <2>3, <2>5, <3>1
  <2> QED
    BY <2>4, <2>5
<1>10. FlattenSeq(ss) = d[n]
  <2>1. CASE n = 0
    <3>1. ss = <<>> /\ FlattenSeq(ss) = ss
      BY <2>1 DEF FlattenSeq
    <3> QED
      BY <1>8, <2>1, <3>1
  <2>2. CASE n # 0
    <3>1. d[n] = it[n]
      BY <1>1, <2>2
    <3> QED
      BY <1>7, <2>2, <3>1
  <2> QED
    BY <2>1, <2>2
<1> HIDE DEF d
<1>11. \A i \in 0..n : d[i] \in Seq(B)
  <2> DEFINE T == {i \in 0..n : d[i] \in Seq(B)}
  <2>1. 0 \in T
    <3>1. <<>> \in Seq(B) /\ 0 \in 0..n
      BY <1>1
    <3> QED
      BY <1>8, <3>1
  <2>2. ASSUME NEW i \in 0..(n - 1), i \in T
        PROVE  i + 1 \in T
    <3>1. i + 1 \in 1..n /\ i + 1 \in 0..n /\ (i + 1) - 1 = i
      BY <1>1
    <3>2. d[i + 1] = d[i] \o ss[i + 1] /\ d[i] \in Seq(B) /\ ss[i + 1] \in Seq(B)
      BY <1>1, <1>9, <2>2, <3>1
    <3>3. d[i + 1] \in Seq(B)
      BY <3>2, ConcatProperties
    <3> QED
      BY <3>1, <3>3
  <2>3. \A i \in 0..n : i \in T
    <3> HIDE DEF T, n
    <3> QED
      BY <1>1, <2>1, <2>2, SetUpTo
  <2> QED
    BY <2>3
<1> QED
  BY <1>8, <1>9, <1>10, <1>11

-----------------------------------------------------------------------------
(* The pieces of an article.                                               *)

Piece == [owner : Nat, size : Nat, letters : Nat]
Sized(limit) == {p \in Piece : p.size <= limit}

AllLetters(ps) == [i \in 1..Len(ps) |-> ps[i].letters]
OwnLetters(ps, o) == [i \in 1..Len(ps) |-> IF ps[i].owner = o THEN ps[i].letters ELSE 0]

\* The owners of pieces are the texts in their order, none left out.
InTurn(ps, n) ==
    /\ ps # <<>> /\ ps[1].owner = 1 /\ ps[Len(ps)].owner = n
    /\ \A i \in 1..(Len(ps) - 1) : ps[i + 1].owner \in {ps[i].owner, ps[i].owner + 1}

\* The pieces of each text.
PiecesOf(groups, limit) ==
    /\ groups \in Seq(Seq(Sized(limit))) /\ groups # <<>>
    /\ \A o \in 1..Len(groups) :
          /\ groups[o] # <<>>
          /\ \A i \in 1..Len(groups[o]) : groups[o][i].owner = o

\* The columns of a piece.
LEMMA PieceFields ==
    ASSUME NEW x \in Piece
    PROVE  x.owner \in Nat /\ x.size \in Nat /\ x.letters \in Nat
BY DEF Piece

\* The letters of one text, in pieces put together.
LEMMA OwnLettersConcat ==
    ASSUME NEW a \in Seq(Piece), NEW b \in Seq(Piece), NEW o
    PROVE  /\ OwnLetters(a \o b, o) \in Numbers
           /\ Total(OwnLetters(a \o b, o)) = Total(OwnLetters(a, o)) + Total(OwnLetters(b, o))
<1> DEFINE p == OwnLetters(a, o)
           q == OwnLetters(b, o)
           u == OwnLetters(a \o b, o)
           W(x) == IF x.owner = o THEN x.letters ELSE 0
<1>1. /\ Len(a) \in Nat /\ Len(b) \in Nat /\ a \o b \in Seq(Piece) /\ Len(a \o b) = Len(a) + Len(b)
      /\ \A i \in 1..(Len(a) + Len(b)) : (a \o b)[i] = IF i <= Len(a) THEN a[i] ELSE b[i - Len(a)]
  BY ConcatProperties
<1>2. \A x \in Piece : W(x) \in Nat
  <2> SUFFICES ASSUME NEW x \in Piece
               PROVE  W(x) \in Nat
    OBVIOUS
  <2>1. x.letters \in Nat
    BY PieceFields
  <2>2. CASE x.owner = o
    BY <2>1, <2>2
  <2>3. CASE x.owner # o
    BY <2>3
  <2> QED
    BY <2>2, <2>3
<1>3. \A c \in Seq(Piece) : OwnLetters(c, o) \in Seq(Nat) /\ Len(OwnLetters(c, o)) = Len(c)
                            /\ \A i \in 1..Len(c) : OwnLetters(c, o)[i] = W(c[i])
  <2> SUFFICES ASSUME NEW c \in Seq(Piece)
               PROVE  OwnLetters(c, o) \in Seq(Nat) /\ Len(OwnLetters(c, o)) = Len(c)
                      /\ \A i \in 1..Len(c) : OwnLetters(c, o)[i] = W(c[i])
    OBVIOUS
  <2>1. OwnLetters(c, o) = [i \in 1..Len(c) |-> W(c[i])]
    BY DEF OwnLetters
  <2>2. \A i \in 1..Len(c) : c[i] \in Piece
    OBVIOUS
  <2> HIDE DEF W
  <2> QED
    BY <1>2, <2>1, <2>2
<1> HIDE DEF W
<1>4. /\ p \in Seq(Nat) /\ Len(p) = Len(a) /\ \A i \in 1..Len(a) : p[i] = W(a[i])
      /\ q \in Seq(Nat) /\ Len(q) = Len(b) /\ \A i \in 1..Len(b) : q[i] = W(b[i])
      /\ u \in Seq(Nat) /\ Len(u) = Len(a) + Len(b)
      /\ \A i \in 1..(Len(a) + Len(b)) : u[i] = W((a \o b)[i])
  BY <1>1, <1>3
<1> HIDE DEF p, q, u
<1>5. /\ p \o q \in Seq(Nat) /\ Len(p \o q) = Len(p) + Len(q)
      /\ \A i \in 1..(Len(p) + Len(q)) : (p \o q)[i] = IF i <= Len(p) THEN p[i] ELSE q[i - Len(p)]
  <2>1. p \in Seq(Nat)
    BY <1>4
  <2>2. q \in Seq(Nat)
    BY <1>4
  <2> QED
    BY ONLY <2>1, <2>2, ConcatProperties
<1>6. ASSUME NEW i \in 1..Len(u)
      PROVE  u[i] = (p \o q)[i]
  <2>1. i \in 1..(Len(a) + Len(b))
    BY <1>4
  <2>2. CASE i <= Len(a)
    <3>1. i \in 1..Len(a)
      BY <1>1, <2>1, <2>2
    <3> QED
      BY <1>1, <1>4, <1>5, <2>1, <2>2, <3>1
  <2>3. CASE ~(i <= Len(a))
    <3>1. i - Len(a) \in 1..Len(b)
      BY <1>1, <2>1, <2>3
    <3>2. u[i] = W((a \o b)[i])
      BY <1>4, <2>1
    <3>3. (a \o b)[i] = b[i - Len(a)]
      BY <1>1, <2>1, <2>3
    <3>4. Len(p) = Len(a) /\ Len(q) = Len(b)
      BY <1>4
    <3>5. (p \o q)[i] = q[i - Len(a)]
      BY <1>5, <2>1, <2>3, <3>4
    <3>6. q[i - Len(a)] = W(b[i - Len(a)])
      BY <1>4, <3>1
    <3> QED
      BY <3>2, <3>3, <3>5, <3>6
  <2> QED
    BY <2>2, <2>3
<1>7. u = p \o q
  BY <1>4, <1>5, <1>6, SeqEqual
<1>8. Total(p \o q) = Total(p) + Total(q)
  BY <1>4, TotalConcat DEF Numbers
<1> QED
  BY <1>4, <1>7, <1>8 DEF p, q, u, Numbers

\* A group has all its letters for its own text, and none for another.
LEMMA GroupLetters ==
    ASSUME NEW g \in Seq(Piece), NEW o, NEW q, \A i \in 1..Len(g) : g[i].owner = q
    PROVE  /\ OwnLetters(g, o) \in Numbers /\ AllLetters(g) \in Numbers
           /\ Total(OwnLetters(g, o)) = IF q = o THEN Total(AllLetters(g)) ELSE 0
<1>1. Len(g) \in Nat /\ \A i \in 1..Len(g) : g[i].letters \in Nat
  <2>1. \A i \in 1..Len(g) : g[i] \in Piece
    OBVIOUS
  <2> QED
    BY <2>1, PieceFields
<1>2. CASE q = o
  <2>1. OwnLetters(g, o) = AllLetters(g)
    BY <1>2 DEF OwnLetters, AllLetters
  <2>2. AllLetters(g) \in Numbers
    BY <1>1 DEF AllLetters, Numbers
  <2> QED
    BY <1>2, <2>1, <2>2
<1>3. CASE q # o
  <2>1. OwnLetters(g, o) = [i \in 1..Len(g) |-> 0]
    BY <1>3 DEF OwnLetters
  <2>2. OwnLetters(g, o) \in Numbers /\ Total(OwnLetters(g, o)) = Len(g) * 0
    BY <1>1, <2>1, TotalSame
  <2>3. AllLetters(g) \in Numbers
    BY <1>1 DEF AllLetters, Numbers
  <2> QED
    BY <1>1, <1>3, <2>2, <2>3
<1> QED
  BY <1>2, <1>3

\* One text more in its turn.
LEMMA NextInTurn ==
    ASSUME NEW B, B \subseteq Piece, NEW a \in Seq(B), NEW g \in Seq(B), NEW n \in Nat, g # <<>>,
           \A i \in 1..Len(g) : g[i].owner = n + 1,
           IF n = 0 THEN a = <<>> ELSE InTurn(a, n)
    PROVE  InTurn(a \o g, n + 1)
<1> DEFINE u == a \o g
<1>1. /\ Len(a) \in Nat /\ Len(g) \in Nat \ {0} /\ Len(u) = Len(a) + Len(g) /\ u \in Seq(B)
      /\ \A i \in 1..(Len(a) + Len(g)) : u[i] = IF i <= Len(a) THEN a[i] ELSE g[i - Len(a)]
  BY ConcatProperties
<1> HIDE DEF u
<1>2. u # <<>> /\ u[Len(u)].owner = n + 1
  <2>1. Len(u) \in 1..(Len(a) + Len(g)) /\ Len(u) - Len(a) = Len(g) /\ ~(Len(u) <= Len(a)) /\ Len(g) \in 1..Len(g)
    BY <1>1
  <2> QED
    BY <1>1, <2>1
<1>3. u[1].owner = 1
  <2>1. CASE n = 0
    BY <1>1, <2>1
  <2>2. CASE n # 0
    <3>1. 1 <= Len(a) /\ 1 \in 1..(Len(a) + Len(g))
      BY <1>1, <2>2 DEF InTurn
    <3> QED
      BY <1>1, <2>2, <3>1 DEF InTurn
  <2> QED
    BY <2>1, <2>2
<1>4. ASSUME NEW i \in 1..(Len(u) - 1)
      PROVE  u[i + 1].owner \in {u[i].owner, u[i].owner + 1}
  <2>1. i \in 1..(Len(a) + Len(g)) /\ i + 1 \in 1..(Len(a) + Len(g))
    BY <1>1
  <2>2. CASE i + 1 <= Len(a)
    <3>1. n # 0 /\ i \in 1..(Len(a) - 1) /\ u[i] = a[i] /\ u[i + 1] = a[i + 1]
      BY <1>1, <2>1, <2>2
    <3> QED
      BY <3>1 DEF InTurn
  <2>3. CASE i = Len(a)
    <3>1. n # 0 /\ u[i] = a[Len(a)] /\ u[i + 1] = g[1] /\ 1 \in 1..Len(g)
      BY <1>1, <2>1, <2>3
    <3> QED
      BY <3>1 DEF InTurn
  <2>4. CASE i > Len(a)
    <3>1. /\ u[i] = g[i - Len(a)] /\ u[i + 1] = g[i + 1 - Len(a)]
          /\ i - Len(a) \in 1..Len(g) /\ i + 1 - Len(a) \in 1..Len(g)
      BY <1>1, <2>1, <2>4
    <3> QED
      BY <3>1
  <2> QED
    BY <1>1, <2>1, <2>2, <2>3, <2>4
<1> QED
  BY <1>2, <1>3, <1>4 DEF InTurn, u

\* Pieces of a size are pieces.
LEMMA SizedPieces ==
    ASSUME NEW limit
    PROVE  Sized(limit) \subseteq Piece /\ Seq(Sized(limit)) \subseteq Seq(Piece)
<1>1. Sized(limit) \subseteq Piece
  BY DEF Sized
<1>2. ASSUME NEW s \in Seq(Sized(limit))
      PROVE  s \in Seq(Piece)
  BY <1>1
<1> QED
  BY <1>1, <1>2

\* No pieces have no letters.
LEMMA NoLetters ==
    ASSUME NEW o
    PROVE  Total(OwnLetters(<<>>, o)) = 0
<1>1. OwnLetters(<<>>, o) = <<>>
  BY DEF OwnLetters
<1> QED
  BY <1>1, TotalEmpty

\* The pieces of all texts, one text after the other.
LEMMA GroupsFlat ==
    ASSUME NEW limit, NEW groups, PiecesOf(groups, limit)
    PROVE  /\ FlattenSeq(groups) \in Seq(Sized(limit)) /\ InTurn(FlattenSeq(groups), Len(groups))
           /\ \A o \in 1..Len(groups) :
                 Total(OwnLetters(FlattenSeq(groups), o)) = Total(AllLetters(groups[o]))
<1> DEFINE n == Len(groups)
           B == Sized(limit)
<1>1. groups \in Seq(Seq(B)) /\ n \in Nat /\ n # 0 /\ B \subseteq Piece /\ Seq(B) \subseteq Seq(Piece)
  BY SizedPieces DEF PiecesOf
<1>2. PICK d : /\ d[0] = <<>> /\ \A i \in 0..n : d[i] \in Seq(B)
               /\ \A i \in 1..n : d[i] = d[i - 1] \o groups[i]
               /\ FlattenSeq(groups) = d[n]
  <2> HIDE DEF B
  <2> QED
    BY <1>1, FlattenSteps
<1>3. \A o \in 1..n : /\ groups[o] \in Seq(B) /\ groups[o] # <<>>
                      /\ \A i \in 1..Len(groups[o]) : groups[o][i].owner = o
  BY <1>1 DEF PiecesOf
<1> DEFINE Good(k) ==
             /\ IF k = 0 THEN d[k] = <<>> ELSE InTurn(d[k], k)
             /\ \A o \in 1..n : Total(OwnLetters(d[k], o)) = IF o <= k THEN Total(AllLetters(groups[o])) ELSE 0
           T == {k \in 0..n : Good(k)}
<1> HIDE DEF B
<1>4. 0 \in T
  <2>1. \A o \in 1..n : ~(o <= 0) /\ Total(OwnLetters(<<>>, o)) = 0
    BY NoLetters
  <2> QED
    BY <1>1, <1>2, <2>1
<1>5. ASSUME NEW k \in 0..(n - 1), k \in T
      PROVE  k + 1 \in T
  <2>1. k \in Nat /\ k + 1 \in 1..n /\ k + 1 \in 0..n /\ k \in 0..n /\ (k + 1) - 1 = k
    BY <1>1
  <2> DEFINE a == d[k]
             g == groups[k + 1]
  <2>2. /\ a \in Seq(B) /\ g \in Seq(B) /\ g # <<>> /\ \A i \in 1..Len(g) : g[i].owner = k + 1
        /\ d[k + 1] = a \o g /\ (IF k = 0 THEN a = <<>> ELSE InTurn(a, k))
        /\ \A o \in 1..n : Total(OwnLetters(a, o)) = IF o <= k THEN Total(AllLetters(groups[o])) ELSE 0
    BY <1>2, <1>3, <1>5, <2>1
  <2> HIDE DEF a
  <2>3. InTurn(a \o g, k + 1)
    <3> HIDE DEF g
    <3> QED
      BY ONLY <1>1, <2>1, <2>2, NextInTurn
  <2>4. ASSUME NEW o \in 1..n
        PROVE  Total(OwnLetters(a \o g, o)) = IF o <= k + 1 THEN Total(AllLetters(groups[o])) ELSE 0
    <3>1. a \in Seq(Piece) /\ g \in Seq(Piece)
      BY <1>1, <2>2
    <3>2. Total(OwnLetters(a \o g, o)) = Total(OwnLetters(a, o)) + Total(OwnLetters(g, o))
      <4> HIDE DEF g
      <4> QED
        BY <3>1, OwnLettersConcat
    <3>3. AllLetters(g) \in Numbers /\ Total(OwnLetters(g, o)) = IF k + 1 = o THEN Total(AllLetters(g)) ELSE 0
      <4> DEFINE q == k + 1
      <4>1. g \in Seq(Piece) /\ \A i \in 1..Len(g) : g[i].owner = q
        BY <2>2, <3>1
      <4> HIDE DEF q, g
      <4>2. AllLetters(g) \in Numbers /\ Total(OwnLetters(g, o)) = IF q = o THEN Total(AllLetters(g)) ELSE 0
        BY <4>1, GroupLetters
      <4> QED
        BY <4>2 DEF q
    <3>4. Total(AllLetters(g)) \in Nat
      BY <3>3, TotalNat
    <3>5. o <= k => Total(AllLetters(groups[o])) \in Nat
      <4>1. groups[o] \in Seq(Piece) /\ \A i \in 1..Len(groups[o]) : groups[o][i].owner = o
        BY <1>1, <1>3
      <4>2. AllLetters(groups[o]) \in Numbers
        <5> DEFINE h == groups[o]
        <5> HIDE DEF h
        <5>1. h \in Seq(Piece) /\ \A i \in 1..Len(h) : h[i].owner = o
          BY <4>1 DEF h
        <5>2. AllLetters(h) \in Numbers
          BY <5>1, GroupLetters
        <5> QED
          BY <5>2 DEF h
      <4> QED
        BY <4>2, TotalNat
    <3>6. CASE o <= k
      BY <2>1, <2>2, <3>2, <3>3, <3>5, <3>6
    <3>7. CASE o = k + 1
      BY <2>1, <2>2, <3>2, <3>3, <3>4, <3>7
    <3>8. CASE o > k + 1
      BY <2>1, <2>2, <3>2, <3>3, <3>8
    <3> QED
      BY <2>1, <3>6, <3>7, <3>8
  <2>5. k + 1 # 0
    BY <2>1
  <2>6. Good(k + 1)
    <3> DEFINE m == k + 1
    <3> HIDE DEF m, g
    <3>1. m # 0 /\ d[m] = a \o g /\ InTurn(a \o g, m)
          /\ \A o \in 1..n : Total(OwnLetters(a \o g, o)) = IF o <= m THEN Total(AllLetters(groups[o])) ELSE 0
      BY <2>2, <2>3, <2>4, <2>5 DEF m
    <3>2. Good(m)
      BY ONLY <3>1
    <3> QED
      BY <3>2 DEF m
  <2> HIDE DEF Good
  <2> QED
    BY <2>1, <2>6
<1>6. n \in T
  <2>1. \A k \in 0..n : k \in T
    <3> HIDE DEF T, n
    <3> QED
      BY <1>1, <1>4, <1>5, SetUpTo
  <2> QED
    BY <1>1, <2>1
<1>7. /\ d[n] \in Seq(B) /\ InTurn(d[n], n)
      /\ \A o \in 1..n : o <= n /\ Total(OwnLetters(d[n], o)) = Total(AllLetters(groups[o]))
  <2>1. n \in 0..n /\ \A o \in 1..n : o <= n
    BY <1>1
  <2>2. Good(n) /\ d[n] \in Seq(B) /\ n # 0
    BY <1>1, <1>2, <1>6, <2>1
  <2> HIDE DEF n
  <2> QED
    BY ONLY <2>1, <2>2
<1> QED
  BY <1>2, <1>7 DEF B

\* Pieces that are numbered through.
NPiece == [id : Word, owner : Nat, size : Nat, letters : Nat]

\* Numbering pieces changes nothing else of them.
LEMMA Numbered ==
    ASSUME NEW limit, NEW ps \in Seq(Sized(limit))
    PROVE  /\ Number(ps) \in Seq(NPiece) /\ Len(Number(ps)) = Len(ps)
           /\ \A i \in 1..Len(ps) : Number(ps)[i].id = i /\ Number(ps)[i].size <= limit
           /\ \A o : OwnLetters(Number(ps), o) = OwnLetters(ps, o)
           /\ \A n : InTurn(ps, n) => InTurn(Number(ps), n)
<1> DEFINE np == Number(ps)
           n == Len(ps)
<1>1. n \in Nat
  OBVIOUS
<1>2. np = [i \in 1..n |-> [id |-> i, owner |-> ps[i].owner, size |-> ps[i].size, letters |-> ps[i].letters]]
  BY DEF Number
<1> HIDE DEF np
<1>3. ASSUME NEW i \in 1..n
      PROVE  /\ np[i] \in NPiece /\ np[i].id = i /\ np[i].size <= limit
             /\ np[i].owner = ps[i].owner /\ np[i].letters = ps[i].letters
  <2>1. ps[i] \in Piece /\ ps[i].size <= limit
    BY DEF Sized
  <2>2. ps[i].owner \in Nat /\ ps[i].size \in Nat /\ ps[i].letters \in Nat
    BY <2>1, PieceFields
  <2>3. i \in Word
    BY <1>1 DEF Word
  <2> QED
    BY <1>2, <2>1, <2>2, <2>3 DEF NPiece
<1>4. np \in Seq(NPiece) /\ Len(np) = n
  BY <1>1, <1>2, <1>3
<1>5. ASSUME NEW o
      PROVE  OwnLetters(np, o) = OwnLetters(ps, o)
  BY <1>3, <1>4 DEF OwnLetters
<1>6. ASSUME NEW m, InTurn(ps, m)
      PROVE  InTurn(np, m)
  <2>1. /\ ps # <<>> /\ ps[1].owner = 1 /\ ps[n].owner = m
        /\ \A i \in 1..(n - 1) : ps[i + 1].owner \in {ps[i].owner, ps[i].owner + 1}
    BY <1>6 DEF InTurn
  <2>2. n # 0 /\ 1 \in 1..n /\ n \in 1..n /\ np # <<>>
    BY <1>1, <1>4, <2>1
  <2>3. \A i \in 1..(n - 1) : i \in 1..n /\ i + 1 \in 1..n
    BY <1>1
  <2>4. np[1].owner = 1 /\ np[n].owner = m
    BY <1>3, <2>1, <2>2
  <2>5. ASSUME NEW i \in 1..(n - 1)
        PROVE  np[i + 1].owner \in {np[i].owner, np[i].owner + 1}
    <3>1. np[i].owner = ps[i].owner /\ np[i + 1].owner = ps[i + 1].owner
      BY <1>3, <2>3
    <3> QED
      BY <2>1, <3>1
  <2> QED
    BY <1>4, <2>2, <2>4, <2>5 DEF InTurn
<1> QED
  BY <1>3, <1>4, <1>5, <1>6 DEF np

-----------------------------------------------------------------------------
(* The two ways an article is cut into pieces.                             *)

Content(text, spaces) == IF spaces THEN Length(text) ELSE Letters(text)

\* Numbered pieces that fit and have what each text has, in turn.
CutOf(ps, article, limit, spaces) ==
    /\ ps \in Seq(NPiece) /\ ps # <<>>
    /\ \A i \in 1..Len(ps) : ps[i].id = i /\ ps[i].size <= limit
    /\ InTurn(ps, Len(article))
    /\ \A o \in 1..Len(article) : Total(OwnLetters(ps, o)) = Content(article[o], spaces)

\* An article is a sequence of texts, none of which is empty.
LEMMA ArticleTexts ==
    ASSUME NEW article \in Articles
    PROVE  /\ Len(article) \in Nat \ {0} /\ article = [o \in 1..Len(article) |-> article[o]]
           /\ \A o \in 1..Len(article) : article[o] \in Seq(Word) /\ article[o] # <<>>
<1>1. PICK n \in 1..(MaxSegments + 1) : article \in [1..n -> Texts]
  BY DEF Articles
<1>2. n \in Nat \ {0} /\ article \in Seq(Texts) /\ Len(article) = n
  <2>1. MaxSegments \in Nat
    BY TranslationAssumption
  <2> QED
    BY <1>1, <2>1
<1>3. \A o \in 1..n : article[o] \in Texts
  BY <1>1
<1> QED
  BY <1>1, <1>2, <1>3, TranslationAssumption DEF Word

\* The pieces of each text, one text after the other, are a cut of the article.
LEMMA GroupsCut ==
    ASSUME NEW limit, NEW groups, NEW article, NEW spaces,
           PiecesOf(groups, limit), Len(groups) = Len(article),
           \A o \in 1..Len(article) : Total(AllLetters(groups[o])) = Content(article[o], spaces)
    PROVE  CutOf(Number(FlattenSeq(groups)), article, limit, spaces)
<1> DEFINE flat == FlattenSeq(groups)
           ps == Number(flat)
<1>1. /\ flat \in Seq(Sized(limit)) /\ InTurn(flat, Len(groups))
      /\ \A o \in 1..Len(groups) : Total(OwnLetters(flat, o)) = Total(AllLetters(groups[o]))
  BY GroupsFlat
<1> HIDE DEF flat
<1>2. /\ ps \in Seq(NPiece) /\ Len(ps) = Len(flat)
      /\ \A i \in 1..Len(flat) : ps[i].id = i /\ ps[i].size <= limit
      /\ \A o : OwnLetters(ps, o) = OwnLetters(flat, o)
      /\ \A n : InTurn(flat, n) => InTurn(ps, n)
  BY <1>1, Numbered
<1> HIDE DEF ps
<1>3. InTurn(ps, Len(article)) /\ ps # <<>>
  <2>1. InTurn(ps, Len(article))
    BY <1>1, <1>2
  <2> QED
    BY <2>1 DEF InTurn
<1>4. \A o \in 1..Len(article) : Total(OwnLetters(ps, o)) = Content(article[o], spaces)
  BY <1>1, <1>2
<1> QED
  BY <1>2, <1>3, <1>4 DEF CutOf, ps, flat

\* The groups of ChunkCalls.
ChunkGroup(o, chunks) ==
    [i \in 1..Len(chunks) |-> [owner |-> o, size |-> Length(chunks[i]), letters |-> Letters(chunks[i])]]

\* The chunks of a text as pieces of it.
LEMMA ChunkGroupFits ==
    ASSUME NEW o \in Nat, NEW limit, NEW chunks \in Seq(Numbers), chunks # <<>>,
           \A i \in 1..Len(chunks) : Within(chunks[i], limit)
    PROVE  /\ ChunkGroup(o, chunks) \in Seq(Sized(limit)) /\ ChunkGroup(o, chunks) # <<>>
           /\ \A i \in 1..Len(ChunkGroup(o, chunks)) : ChunkGroup(o, chunks)[i].owner = o
           /\ AllLetters(ChunkGroup(o, chunks)) = LettersOf(chunks)
<1> DEFINE g == ChunkGroup(o, chunks)
           n == Len(chunks)
<1>1. n \in Nat \ {0} /\ \A i \in 1..n : chunks[i] \in Numbers
  OBVIOUS
<1>2. g = [i \in 1..n |-> [owner |-> o, size |-> Length(chunks[i]), letters |-> Letters(chunks[i])]]
  BY DEF ChunkGroup
<1> HIDE DEF g
<1>3. ASSUME NEW i \in 1..n
      PROVE  g[i] \in Sized(limit) /\ g[i].owner = o /\ g[i].letters = Letters(chunks[i])
  <2>1. chunks[i] \in Numbers /\ chunks[i] # <<>> /\ Length(chunks[i]) <= limit
    BY DEF Within
  <2>2. Total(chunks[i]) \in Nat
    BY <2>1, TotalNat
  <2>3. Len(chunks[i]) \in Nat \ {0}
    BY <2>1 DEF Numbers
  <2>4. Length(chunks[i]) \in Nat /\ Letters(chunks[i]) \in Nat
    BY <2>2, <2>3 DEF Length, Letters
  <2> QED
    BY <1>2, <2>1, <2>4 DEF Sized, Piece
<1>4. g \in Seq(Sized(limit)) /\ Len(g) = n /\ g # <<>>
  BY <1>1, <1>2, <1>3
<1>5. AllLetters(g) = LettersOf(chunks)
  BY <1>3, <1>4 DEF AllLetters, LettersOf
<1> QED
  BY <1>3, <1>4, <1>5 DEF g

\* The calls that carry one piece each.
Singles(ps) == [i \in 1..Len(ps) |-> <<ps[i]>>]

\* An article for DeepLX: its chunks have every letter, without the spaces.
LEMMA Chunked ==
    ASSUME NEW article \in Articles, NEW limit \in Word
    PROVE  \E ps : CutOf(ps, article, limit, FALSE) /\ ChunkCalls(article, limit) = Singles(ps)
<1> DEFINE n == Len(article)
           groups == [o \in 1..n |-> ChunkGroup(o, Chunks(article[o], limit))]
<1>1. n \in Nat \ {0} /\ \A o \in 1..n : article[o] \in Seq(Word) /\ article[o] # <<>>
  BY ArticleTexts
<1>2. ASSUME NEW o \in 1..n
      PROVE  LET g == ChunkGroup(o, Chunks(article[o], limit)) IN
             /\ g \in Seq(Sized(limit)) /\ g # <<>> /\ \A i \in 1..Len(g) : g[i].owner = o
             /\ Total(AllLetters(g)) = Letters(article[o])
  <2> DEFINE text == article[o]
             chunks == Chunks(text, limit)
  <2>1. text \in Seq(Word) /\ text # <<>> /\ o \in Nat
    BY <1>1
  <2> HIDE DEF text
  <2>2. /\ chunks \in Seq(Numbers) /\ chunks # <<>>
        /\ \A i \in 1..Len(chunks) : Within(chunks[i], limit)
        /\ Total(LettersOf(chunks)) = Letters(text)
    BY <2>1, ChunksFit
  <2> HIDE DEF chunks
  <2>3. /\ ChunkGroup(o, chunks) \in Seq(Sized(limit)) /\ ChunkGroup(o, chunks) # <<>>
        /\ \A i \in 1..Len(ChunkGroup(o, chunks)) : ChunkGroup(o, chunks)[i].owner = o
        /\ AllLetters(ChunkGroup(o, chunks)) = LettersOf(chunks)
    BY <2>1, <2>2, ChunkGroupFits
  <2> QED
    BY <2>2, <2>3 DEF chunks, text
<1>3. groups \in Seq(Seq(Sized(limit))) /\ Len(groups) = n
  BY <1>1, <1>2
<1>4. \A o \in 1..n : groups[o] = ChunkGroup(o, Chunks(article[o], limit))
  OBVIOUS
<1> HIDE DEF groups
<1>5. PiecesOf(groups, limit)
  BY <1>1, <1>2, <1>3, <1>4 DEF PiecesOf
<1>6. \A o \in 1..n : Total(AllLetters(groups[o])) = Content(article[o], FALSE)
  BY <1>2, <1>4 DEF Content
<1>7. CutOf(Number(FlattenSeq(groups)), article, limit, FALSE)
  BY <1>3, <1>5, <1>6, GroupsCut
<1>8. ChunkCalls(article, limit) = Singles(Number(FlattenSeq(groups)))
  BY DEF ChunkCalls, Singles, ChunkGroup, groups
<1> QED
  BY <1>7, <1>8

\* The groups of Fragments.
PieceGroup(o, sizes) == [i \in 1..Len(sizes) |-> [owner |-> o, size |-> sizes[i], letters |-> sizes[i]]]

\* The fragments of a text as pieces of it.
LEMMA PieceGroupFits ==
    ASSUME NEW o \in Nat, NEW limit, NEW sizes \in Numbers, sizes # <<>>,
           \A i \in 1..Len(sizes) : sizes[i] <= limit
    PROVE  /\ PieceGroup(o, sizes) \in Seq(Sized(limit)) /\ PieceGroup(o, sizes) # <<>>
           /\ \A i \in 1..Len(PieceGroup(o, sizes)) : PieceGroup(o, sizes)[i].owner = o
           /\ AllLetters(PieceGroup(o, sizes)) = sizes
<1> DEFINE g == PieceGroup(o, sizes)
           n == Len(sizes)
<1>1. n \in Nat \ {0} /\ \A i \in 1..n : sizes[i] \in Nat
  BY DEF Numbers
<1>2. g = [i \in 1..n |-> [owner |-> o, size |-> sizes[i], letters |-> sizes[i]]]
  BY DEF PieceGroup
<1> HIDE DEF g
<1>3. ASSUME NEW i \in 1..n
      PROVE  g[i] \in Sized(limit) /\ g[i].owner = o /\ g[i].letters = sizes[i]
  BY <1>1, <1>2 DEF Sized, Piece
<1>4. g \in Seq(Sized(limit)) /\ Len(g) = n /\ g # <<>>
  BY <1>1, <1>2, <1>3
<1>5. AllLetters(g) = sizes
  <2>1. sizes = [i \in 1..n |-> sizes[i]]
    BY DEF Numbers
  <2>2. AllLetters(g) = [i \in 1..n |-> sizes[i]]
    BY <1>3, <1>4 DEF AllLetters
  <2> QED
    BY <2>1, <2>2
<1> QED
  BY <1>3, <1>4, <1>5 DEF g

\* An article for a provider: its fragments have every letter and space.
LEMMA Fragmented ==
    ASSUME NEW article \in Articles
    PROVE  CutOf(Fragments(article), article, SourceLimit, TRUE)
<1> DEFINE n == Len(article)
           groups == [o \in 1..n |-> PieceGroup(o, Pieces(Length(article[o]), SourceLimit))]
<1>1. n \in Nat \ {0} /\ \A o \in 1..n : article[o] \in Seq(Word) /\ article[o] # <<>>
  BY ArticleTexts
<1>2. SourceLimit \in Word
  BY TranslationAssumption DEF Word
<1>3. ASSUME NEW o \in 1..n
      PROVE  LET g == PieceGroup(o, Pieces(Length(article[o]), SourceLimit)) IN
             /\ g \in Seq(Sized(SourceLimit)) /\ g # <<>> /\ \A i \in 1..Len(g) : g[i].owner = o
             /\ Total(AllLetters(g)) = Length(article[o])
  <2> DEFINE size == Length(article[o])
             sizes == Pieces(size, SourceLimit)
  <2>1. size \in Word /\ o \in Nat
    BY <1>1, TextLength
  <2> HIDE DEF size
  <2>2. /\ sizes \in Numbers /\ sizes # <<>>
        /\ \A i \in 1..Len(sizes) : sizes[i] <= SourceLimit
        /\ Total(sizes) = size
    BY <1>2, <2>1, PiecesFit
  <2> HIDE DEF sizes
  <2>3. /\ PieceGroup(o, sizes) \in Seq(Sized(SourceLimit)) /\ PieceGroup(o, sizes) # <<>>
        /\ \A i \in 1..Len(PieceGroup(o, sizes)) : PieceGroup(o, sizes)[i].owner = o
        /\ AllLetters(PieceGroup(o, sizes)) = sizes
    BY <2>1, <2>2, PieceGroupFits
  <2> QED
    BY <2>2, <2>3 DEF sizes, size
<1>4. groups \in Seq(Seq(Sized(SourceLimit))) /\ Len(groups) = n
  BY <1>1, <1>3
<1>5. \A o \in 1..n : groups[o] = PieceGroup(o, Pieces(Length(article[o]), SourceLimit))
  OBVIOUS
<1> HIDE DEF groups
<1>6. PiecesOf(groups, SourceLimit)
  BY <1>1, <1>3, <1>4, <1>5 DEF PiecesOf
<1>7. \A o \in 1..n : Total(AllLetters(groups[o])) = Content(article[o], TRUE)
  BY <1>3, <1>5 DEF Content
<1>8. CutOf(Number(FlattenSeq(groups)), article, SourceLimit, TRUE)
  BY <1>4, <1>6, <1>7, GroupsCut
<1>9. Fragments(article) = Number(FlattenSeq(groups))
  BY DEF Fragments, PieceGroup, groups
<1> QED
  BY <1>8, <1>9

-----------------------------------------------------------------------------
(* The calls that carry the pieces.                                        *)

\* Calls that carry the first m of numbered pieces, each in one place.
Carry(calls, ps, m) ==
    /\ calls \in Seq(Seq(NPiece)) /\ calls # <<>>
    /\ \A k \in 1..Len(calls) :
          /\ calls[k] # <<>>
          /\ \A i \in 1..Len(calls[k]) :
                calls[k][i].id = calls[k][1].id + i - 1 /\ calls[k][i] = ps[calls[k][i].id]
    /\ calls[1][1].id = 1
    /\ \A k \in 1..(Len(calls) - 1) : calls[k + 1][1].id = calls[k][1].id + Len(calls[k])
    /\ calls[Len(calls)][1].id + Len(calls[Len(calls)]) - 1 = m

\* What is known of the first piece of a call.
LEMMA CallsBegin ==
    ASSUME NEW calls, NEW ps, NEW m, Carry(calls, ps, m), NEW k \in 1..Len(calls)
    PROVE  /\ Len(calls) \in Nat \ {0} /\ calls[k] \in Seq(NPiece) /\ Len(calls[k]) \in Nat \ {0}
           /\ calls[k][1] \in NPiece /\ calls[k][1].id \in Word
<1>1. calls \in Seq(Seq(NPiece)) /\ calls # <<>> /\ calls[k] # <<>>
  BY DEF Carry
<1>2. calls[k] \in Seq(NPiece) /\ Len(calls) \in Nat \ {0}
  BY <1>1
<1>3. Len(calls[k]) \in Nat \ {0} /\ calls[k][1] \in NPiece
  <2> DEFINE c == calls[k]
  <2>1. c \in Seq(NPiece) /\ c # <<>>
    BY <1>1, <1>2
  <2> HIDE DEF c
  <2>2. Len(c) \in Nat \ {0} /\ c[1] \in NPiece
    BY <2>1
  <2> QED
    BY <2>2 DEF c
<1>4. calls[k][1].id \in Word
  BY <1>3 DEF NPiece
<1> QED
  BY <1>2, <1>3, <1>4

\* One after the other, the calls are the pieces.
LEMMA CarryFlat ==
    ASSUME NEW calls, NEW ps \in Seq(NPiece), Carry(calls, ps, Len(ps))
    PROVE  FlattenSeq(calls) = ps
<1> DEFINE n == Len(calls)
           First(k) == calls[k][1].id
           Upto(k) == IF k = 0 THEN 0 ELSE First(k) + Len(calls[k]) - 1
<1>1. calls \in Seq(Seq(NPiece)) /\ n \in Nat /\ n # 0
  BY DEF Carry
<1>2. ASSUME NEW k \in 1..n
      PROVE  /\ calls[k] \in Seq(NPiece) /\ Len(calls[k]) \in Nat \ {0} /\ First(k) \in Nat \ {0}
             /\ First(k) = Upto(k - 1) + 1 /\ Upto(k) = Upto(k - 1) + Len(calls[k]) /\ Upto(k - 1) \in Nat
             /\ \A i \in 1..Len(calls[k]) : calls[k][i] = ps[Upto(k - 1) + i]
  <2>1. calls[k] \in Seq(NPiece) /\ Len(calls[k]) \in Nat \ {0} /\ First(k) \in Nat \ {0}
    BY CallsBegin DEF Word
  <2>2. First(k) = Upto(k - 1) + 1
    <3>1. CASE k = 1
      BY <3>1 DEF Carry
    <3>2. CASE k # 1
      <4>1. k - 1 \in 1..(n - 1) /\ k - 1 \in 1..n /\ (k - 1) + 1 = k /\ k - 1 # 0
        BY <1>1, <3>2
      <4>2. First(k) = First(k - 1) + Len(calls[k - 1])
        BY <4>1 DEF Carry
      <4>3. First(k - 1) \in Nat /\ Len(calls[k - 1]) \in Nat
        BY <4>1, CallsBegin DEF Word
      <4> HIDE DEF First
      <4> QED
        BY <2>1, <4>1, <4>2, <4>3
    <3> QED
      BY <3>1, <3>2
  <2>3. \A i \in 1..Len(calls[k]) : calls[k][i] = ps[First(k) + i - 1]
    <3>1. \A i \in 1..Len(calls[k]) : calls[k][i].id = First(k) + i - 1 /\ calls[k][i] = ps[calls[k][i].id]
      BY DEF Carry
    <3> QED
      BY <3>1
  <2>4. k # 0 /\ Upto(k) = First(k) + Len(calls[k]) - 1
    BY <1>1
  <2> HIDE DEF First, Upto
  <2>5. Upto(k - 1) = First(k) - 1
    <3>1. First(k) = Upto(k - 1) + 1 /\ Upto(k - 1) \in Int
      <4>1. Upto(k - 1) \in Int
        <5>1. k = 1 => Upto(k - 1) = 0
          BY DEF Upto
        <5>2. k # 1 => k - 1 \in 1..n /\ Upto(k - 1) = First(k - 1) + Len(calls[k - 1]) - 1
          BY <1>1 DEF Upto
        <5>3. k # 1 => First(k - 1) \in Nat /\ Len(calls[k - 1]) \in Nat
          BY <5>2, CallsBegin DEF Word, First
        <5> QED
          BY <5>1, <5>2, <5>3
      <4> QED
        BY <2>2, <4>1
    <3> QED
      BY <2>1, <3>1
  <2>6. \A i \in 1..Len(calls[k]) : First(k) + i - 1 = Upto(k - 1) + i
    BY <2>1, <2>5
  <2>7. Upto(k) = Upto(k - 1) + Len(calls[k]) /\ Upto(k - 1) \in Nat
    <3>1. \A first, many \in Nat \ {0} : first + many - 1 = (first - 1) + many /\ first - 1 \in Nat
      OBVIOUS
    <3>2. First(k) \in Nat \ {0} /\ Len(calls[k]) \in Nat \ {0}
      BY <2>1
    <3>3. First(k) + Len(calls[k]) - 1 = (First(k) - 1) + Len(calls[k]) /\ First(k) - 1 \in Nat
      BY ONLY <3>1, <3>2
    <3> QED
      BY ONLY <2>4, <2>5, <3>3
  <2>8. \A i \in 1..Len(calls[k]) : calls[k][i] = ps[Upto(k - 1) + i]
    BY <2>3, <2>6
  <2> QED
    BY <2>1, <2>2, <2>7, <2>8
<1>3. PICK d : /\ d[0] = <<>> /\ \A i \in 0..n : d[i] \in Seq(NPiece)
               /\ \A i \in 1..n : d[i] = d[i - 1] \o calls[i]
               /\ FlattenSeq(calls) = d[n]
  BY <1>1, FlattenSteps
<1>4. Upto(0) = 0 /\ Upto(n) = Len(ps)
  BY <1>1 DEF Carry
<1> HIDE DEF First, Upto
<1> DEFINE T == {k \in 0..n : Len(d[k]) = Upto(k) /\ \A i \in 1..Upto(k) : d[k][i] = ps[i]}
<1>5. 0 \in T
  <2>1. Len(d[0]) = 0 /\ 0 \in 0..n /\ 1..0 = {}
    BY <1>1, <1>3
  <2> QED
    BY <1>4, <2>1
<1>6. ASSUME NEW k \in 0..(n - 1), k \in T
      PROVE  k + 1 \in T
  <2> DEFINE m == k + 1
             a == d[k]
             c == calls[m]
  <2>1. k \in 0..n /\ m \in 1..n /\ m \in 0..n /\ m - 1 = k
    BY <1>1
  <2> HIDE DEF m
  <2>2. /\ a \in Seq(NPiece) /\ c \in Seq(NPiece) /\ d[m] = a \o c
        /\ Len(a) = Upto(k) /\ \A i \in 1..Upto(k) : a[i] = ps[i]
    BY <1>2, <1>3, <1>6, <2>1
  <2>3. Upto(m) = Upto(k) + Len(c) /\ Upto(k) \in Nat /\ Len(c) \in Nat
        /\ \A i \in 1..Len(c) : c[i] = ps[Upto(k) + i]
    BY <1>2, <2>1
  <2> HIDE DEF a, c
  <2>4. /\ Len(a \o c) = Len(a) + Len(c)
        /\ \A i \in 1..(Len(a) + Len(c)) : (a \o c)[i] = IF i <= Len(a) THEN a[i] ELSE c[i - Len(a)]
    BY <2>2, ConcatProperties
  <2>5. ASSUME NEW i \in 1..Upto(m)
        PROVE  d[m][i] = ps[i]
    <3>1. CASE i <= Len(a)
      BY <2>2, <2>3, <2>4, <3>1
    <3>2. CASE ~(i <= Len(a))
      <4>1. i - Len(a) \in 1..Len(c) /\ Upto(k) + (i - Len(a)) = i
        BY <2>2, <2>3, <3>2
      <4>2. (a \o c)[i] = c[i - Len(a)]
        BY <2>2, <2>3, <2>4, <3>2
      <4> QED
        BY <2>2, <2>3, <4>1, <4>2
    <3> QED
      BY <3>1, <3>2
  <2> QED
    BY <2>1, <2>2, <2>3, <2>4, <2>5 DEF m
<1>7. n \in T
  <2>1. \A k \in 0..n : k \in T
    <3> HIDE DEF T, n
    <3> QED
      BY <1>1, <1>5, <1>6, SetUpTo
  <2> QED
    BY <1>1, <2>1
<1>8. d[n] \in Seq(NPiece) /\ Len(d[n]) = Len(ps) /\ \A i \in 1..Len(ps) : d[n][i] = ps[i]
  <2>1. n \in 0..n
    BY <1>1
  <2> QED
    BY <1>3, <1>4, <1>7, <2>1
<1>9. d[n] = ps
  <2> DEFINE u == d[n]
  <2> HIDE DEF u
  <2>1. u \in Seq(NPiece) /\ Len(u) = Len(ps) /\ \A i \in 1..Len(u) : u[i] = ps[i]
    BY <1>8 DEF u
  <2>2. u = ps
    BY <2>1, SeqEqual
  <2> QED
    BY <2>2 DEF u
<1> QED
  BY <1>3, <1>9

\* Numbered pieces, each with its place for its id.
InPlace(ps) == ps \in Seq(NPiece) /\ ps # <<>> /\ \A i \in 1..Len(ps) : ps[i].id = i

\* A call of one piece has its size.
LEMMA SizeOfOne ==
    ASSUME NEW p \in NPiece
    PROVE  <<p>> \in Seq(NPiece) /\ Len(<<p>>) = 1 /\ p.size \in Nat /\ SizeOf(<<p>>) = p.size
<1>1. p.size \in Nat
  BY DEF NPiece
<1>2. [i \in 1..Len(<<p>>) |-> <<p>>[i].size] = <<p.size>>
  OBVIOUS
<1> QED
  BY <1>1, <1>2, TotalOne DEF SizeOf

\* Calls of one piece each carry the pieces.
LEMMA SinglesCarry ==
    ASSUME NEW ps, InPlace(ps)
    PROVE  /\ Carry(Singles(ps), ps, Len(ps)) /\ Len(Singles(ps)) = Len(ps)
           /\ \A k \in 1..Len(ps) : /\ Singles(ps)[k] = <<ps[k]>> /\ Len(Singles(ps)[k]) = 1
                                    /\ SizeOf(Singles(ps)[k]) = ps[k].size
<1> DEFINE n == Len(ps)
           calls == Singles(ps)
<1>1. n \in Nat \ {0} /\ \A k \in 1..n : ps[k] \in NPiece /\ ps[k].id = k
  BY DEF InPlace
<1>2. calls = [k \in 1..n |-> <<ps[k]>>]
  BY DEF Singles
<1> HIDE DEF calls
<1>3. calls \in Seq(Seq(NPiece)) /\ Len(calls) = n /\ calls # <<>>
  BY <1>1, <1>2
<1>4. ASSUME NEW k \in 1..n
      PROVE  /\ calls[k] = <<ps[k]>> /\ Len(calls[k]) = 1 /\ calls[k][1] = ps[k] /\ calls[k][1].id = k
             /\ calls[k] # <<>> /\ SizeOf(calls[k]) = ps[k].size
  BY <1>1, <1>2, SizeOfOne
<1> HIDE DEF n
<1>5. ASSUME NEW k \in 1..n, NEW i \in 1..Len(calls[k])
      PROVE  calls[k][i].id = calls[k][1].id + i - 1 /\ calls[k][i] = ps[calls[k][i].id]
  <2>1. n \in Nat /\ Len(calls[k]) = 1
    BY <1>1, <1>4
  <2>2. i = 1 /\ k \in Nat
    BY <2>1
  <2>3. calls[k][1] = ps[k] /\ calls[k][1].id = k
    BY <1>4
  <2>4. k = k + 1 - 1
    BY <2>2
  <2> QED
    BY <2>2, <2>3, <2>4
<1>6. ASSUME NEW k \in 1..(n - 1)
      PROVE  calls[k + 1][1].id = calls[k][1].id + Len(calls[k])
  <2>1. k \in 1..n /\ k + 1 \in 1..n
    BY <1>1
  <2>2. calls[k + 1][1].id = k + 1
    BY <1>4, <2>1
  <2>3. calls[k][1].id = k /\ Len(calls[k]) = 1
    BY <1>4, <2>1
  <2> QED
    BY <2>2, <2>3
<1>7. calls[1][1].id = 1 /\ calls[n][1].id + Len(calls[n]) - 1 = n
  <2>1. 1 \in 1..n /\ n \in 1..n /\ n \in Nat
    BY <1>1
  <2>2. calls[1][1].id = 1 /\ calls[n][1].id = n /\ Len(calls[n]) = 1
    BY <1>4, <2>1
  <2> QED
    BY <2>1, <2>2
<1>8. Carry(calls, ps, n)
  BY <1>3, <1>4, <1>5, <1>6, <1>7 DEF Carry
<1> QED
  BY <1>3, <1>4, <1>8 DEF calls, n

-----------------------------------------------------------------------------
(* Batches: fragments that follow each other go into one call.             *)

Filling == {b \in Seq(Seq(NPiece)) : b # <<>>}

\* Batches that are being filled have a last one.
LEMMA FillingLast ==
    ASSUME NEW b \in Filling
    PROVE  /\ b \in Seq(Seq(NPiece)) /\ Len(b) \in Nat \ {0} /\ Len(b) \in 1..Len(b)
           /\ b[Len(b)] \in Seq(NPiece)
<1>1. b \in Seq(Seq(NPiece)) /\ b # <<>>
  BY DEF Filling
<1>2. Len(b) \in Nat \ {0}
  BY <1>1
<1> QED
  BY <1>1, <1>2

Grown(b, f) == [b EXCEPT ![Len(b)] = Append(@, f)]

\* The last batch with a fragment more.
LEMMA GrownIs ==
    ASSUME NEW b \in Filling, NEW f \in NPiece
    PROVE  /\ Grown(b, f) \in Filling /\ Len(Grown(b, f)) = Len(b)
           /\ Grown(b, f)[Len(b)] = Append(b[Len(b)], f)
           /\ \A k \in 1..(Len(b) - 1) : Grown(b, f)[k] = b[k]
<1> DEFINE n == Len(b)
           e == Append(b[n], f)
           g == [b EXCEPT ![n] = e]
<1>1. b \in Seq(Seq(NPiece)) /\ n \in Nat \ {0} /\ n \in 1..n /\ b[n] \in Seq(NPiece)
  BY FillingLast
<1>2. e \in Seq(NPiece)
  <2> DEFINE l == b[n]
  <2>1. l \in Seq(NPiece)
    BY <1>1
  <2> HIDE DEF l
  <2>2. Append(l, f) \in Seq(NPiece)
    BY <2>1, AppendProperties
  <2> QED
    BY <2>2 DEF l
<1>3. Grown(b, f) = g
  BY DEF Grown
<1> HIDE DEF e
<1>4. g \in Seq(Seq(NPiece)) /\ Len(g) = n /\ \A j \in 1..n : g[j] = IF j = n THEN e ELSE b[j]
  BY <1>1, <1>2, ExceptSeq
<1> HIDE DEF g
<1>5. g # <<>>
  BY <1>1, <1>4
<1>6. \A k \in 1..(n - 1) : k \in 1..n /\ k # n
  BY <1>1
<1> QED
  BY <1>1, <1>3, <1>4, <1>5, <1>6 DEF e, Filling

\* A batch more.
LEMMA AddedIs ==
    ASSUME NEW b \in Filling, NEW f \in NPiece
    PROVE  /\ Append(b, <<f>>) \in Filling /\ Len(Append(b, <<f>>)) = Len(b) + 1
           /\ Append(b, <<f>>)[Len(b) + 1] = <<f>>
           /\ \A k \in 1..Len(b) : Append(b, <<f>>)[k] = b[k]
<1>1. b \in Seq(Seq(NPiece)) /\ Len(b) \in Nat \ {0}
  BY FillingLast
<1>2. <<f>> \in Seq(NPiece)
  BY SizeOfOne
<1> DEFINE e == <<f>>
<1> HIDE DEF e
<1>3. /\ Append(b, e) \in Seq(Seq(NPiece)) /\ Append(b, e) # <<>> /\ Len(Append(b, e)) = Len(b) + 1
      /\ \A i \in 1..Len(b) : Append(b, e)[i] = b[i]
      /\ Append(b, e)[Len(b) + 1] = e
  <2>1. e \in Seq(NPiece)
    BY <1>2 DEF e
  <2> QED
    BY ONLY <1>1, <2>1, AppendProperties
<1> QED
  BY <1>3 DEF e, Filling

\* A fragment goes into one of both.
LEMMA AddFragmentFills ==
    ASSUME NEW b \in Filling, NEW f \in NPiece
    PROVE  AddFragment(b, f) \in Filling
<1>1. AddFragment(b, f) \in {Grown(b, f), Append(b, <<f>>)}
  BY DEF AddFragment, Grown
<1>2. Grown(b, f) \in Filling
  BY GrownIs
<1>3. Append(b, <<f>>) \in Filling
  BY AddedIs
<1> QED
  BY ONLY <1>1, <1>2, <1>3

\* The batches are filled fragment by fragment.
LEMMA BatchSteps ==
    ASSUME NEW base \in Filling, NEW seq \in Seq(NPiece)
    PROVE  \E d : /\ d[0] = base /\ \A i \in 1..Len(seq) : d[i] = AddFragment(d[i - 1], seq[i])
                  /\ FoldLeft(AddFragment, base, seq) = d[Len(seq)]
<1> DEFINE n == Len(seq)
           step == [p \in Filling \X NPiece |-> AddFragment(p[1], p[2])]
           P(f) == f = [s \in SUBSET (1..n) |-> IF s = {} THEN base ELSE AddFragment(f[s \ {Max(s)}], seq[Max(s)])]
           it == CHOOSE f : P(f)
<1>1. n \in Nat /\ DOMAIN seq = 1..n /\ \A i \in 1..n : seq[i] \in NPiece
  OBVIOUS
<1>2. \E g \in [SUBSET (1..n) -> Filling] : Folds(g, base, step, seq, n)
  <2>1. step \in [Filling \X NPiece -> Filling]
    BY AddFragmentFills
  <2>2. seq \in [1..n -> NPiece]
    BY <1>1
  <2>3. n \in Nat /\ base \in Filling
    BY <1>1
  <2> HIDE DEF n, step
  <2> QED
    BY ONLY <2>1, <2>2, <2>3, FoldExists, Zenon
<1>3. PICK g \in [SUBSET (1..n) -> Filling] : Folds(g, base, step, seq, n)
  BY <1>2
<1>4. P(g)
  <2> SUFFICES ASSUME NEW s \in SUBSET (1..n)
               PROVE  g[s] = IF s = {} THEN base ELSE AddFragment(g[s \ {Max(s)}], seq[Max(s)])
    OBVIOUS
  <2>1. CASE s = {}
    BY <1>3, <2>1 DEF Folds
  <2>2. CASE s # {}
    <3>1. Max(s) \in s
      BY <1>1, <2>2, GreatestIndex
    <3>2. g[s \ {Max(s)}] \in Filling /\ seq[Max(s)] \in NPiece
      BY <1>1, <3>1
    <3> QED
      BY <1>3, <2>2, <3>2 DEF Folds
  <2> QED
    BY <2>1, <2>2
<1>5. P(it)
  <2> HIDE DEF P
  <2> QED
    BY <1>4
<1>6. FoldLeft(AddFragment, base, seq) = it[1..n]
  <2> DEFINE D == DOMAIN seq
             that == CHOOSE f : f = [s \in SUBSET D |->
                         IF s = {} THEN base ELSE AddFragment(f[s \ {Max(s)}], seq[Max(s)])]
  <2>1. FoldLeft(AddFragment, base, seq) = that[D]
    BY Zenon DEF FoldLeft, MapThenFoldSet
  <2>2. D = 1..n
    BY <1>1
  <2> HIDE DEF D
  <2>3. that = it
    BY <2>2
  <2> HIDE DEF that, it
  <2> QED
    BY <2>1, <2>2, <2>3
<1> HIDE DEF it
<1> DEFINE d == [i \in 0..n |-> it[1..i]]
<1>7. d[0] = base
  <2>1. 1..0 = {} /\ {} \in SUBSET (1..n) /\ 0 \in 0..n
    BY <1>1
  <2>2. it[{}] = base
    BY <1>5, <2>1
  <2> QED
    BY <2>1, <2>2
<1>8. ASSUME NEW i \in 1..n
      PROVE  d[i] = AddFragment(d[i - 1], seq[i])
  <2> DEFINE s == 1..i
  <2>1. s \in SUBSET (1..n) /\ s # {} /\ Max(s) = i /\ s \ {i} = 1..(i - 1)
    BY <1>1, LastOfFirst
  <2>2. it[s] = AddFragment(it[1..(i - 1)], seq[i])
    <3> HIDE DEF s
    <3> QED
      BY <1>5, <2>1
  <2>3. i - 1 \in 0..n /\ i \in 0..n
    BY <1>1
  <2> QED
    BY <2>2, <2>3
<1>9. d[n] = it[1..n]
  BY <1>1
<1> HIDE DEF d
<1> QED
  BY <1>6, <1>7, <1>8, <1>9

\* Batches so far: they carry the first m fragments, and none is too large.
BatchesFit(b, ps, m) ==
    Carry(b, ps, m) /\ \A k \in 1..Len(b) : SizeOf(b[k]) \in Nat /\ SizeOf(b[k]) <= SourceLimit

\* The size of a batch with a fragment more.
LEMMA SizeOfAppend ==
    ASSUME NEW b \in Seq(NPiece), NEW f \in NPiece
    PROVE  f.size \in Nat /\ SizeOf(b) \in Nat /\ SizeOf(Append(b, f)) = SizeOf(b) + f.size
<1> DEFINE n == Len(b)
           sizes == [i \in 1..n |-> b[i].size]
           a == Append(b, f)
<1>1. n \in Nat /\ \A p \in NPiece : p.size \in Nat
  BY DEF NPiece
<1>2. sizes \in Numbers /\ Len(sizes) = n
  BY <1>1 DEF Numbers
<1>3. Len(a) = n + 1 /\ a[n + 1] = f /\ \A i \in 1..n : a[i] = b[i]
  BY AppendProperties
<1> HIDE DEF a
<1>4. [i \in 1..Len(a) |-> a[i].size] = Append(sizes, f.size)
  <2> DEFINE u == [i \in 1..Len(a) |-> a[i].size]
             v == Append(sizes, f.size)
  <2>1. /\ v \in Seq(Nat) /\ Len(v) = n + 1 /\ v[n + 1] = f.size
        /\ \A i \in 1..n : v[i] = sizes[i]
    <3>1. sizes \in Seq(Nat) /\ f.size \in Nat
      BY <1>1, <1>2 DEF Numbers
    <3> HIDE DEF sizes
    <3> QED
      BY <1>2, <3>1, AppendProperties
  <2>2. \A i \in 1..(n + 1) : u[i] = v[i] /\ v[i] \in Nat
    <3> SUFFICES ASSUME NEW i \in 1..(n + 1)
                 PROVE  u[i] = v[i] /\ v[i] \in Nat
      OBVIOUS
    <3>1. CASE i = n + 1
      BY <1>1, <1>3, <2>1, <3>1
    <3>2. CASE i # n + 1
      <4>1. i \in 1..n /\ i \in 1..Len(a)
        BY <1>1, <1>3, <3>2
      <4>2. u[i] = b[i].size /\ sizes[i] = b[i].size
        BY <1>3, <4>1
      <4>3. b[i].size \in Nat
        BY <1>1, <4>1
      <4> QED
        BY <2>1, <4>1, <4>2, <4>3
    <3> QED
      BY <3>1, <3>2
  <2>3. u = [i \in 1..(n + 1) |-> u[i]]
    BY <1>3
  <2>4. v = [i \in 1..(n + 1) |-> v[i]]
    <3> HIDE DEF v
    <3>1. DOMAIN v = 1..Len(v)
      BY <2>1
    <3> QED
      BY <2>1, <3>1
  <2> HIDE DEF u, v
  <2>5. u = v
    BY <2>2, <2>3, <2>4
  <2> QED
    BY <2>5 DEF u, v
<1>5. Total(Append(sizes, f.size)) = Total(sizes) + f.size /\ Total(sizes) \in Nat
  <2>1. f.size \in Nat
    BY <1>1
  <2> HIDE DEF sizes
  <2> QED
    BY <1>2, <2>1, TotalAppend, TotalNat
<1>6. SizeOf(b) = Total(sizes) /\ SizeOf(a) = Total(Append(sizes, f.size))
  BY <1>4 DEF SizeOf
<1> QED
  BY <1>1, <1>5, <1>6 DEF a

\* One fragment more, in the last batch or in one of its own.
LEMMA AddFragmentFits ==
    ASSUME NEW b, NEW ps, InPlace(ps), NEW m \in 1..(Len(ps) - 1), BatchesFit(b, ps, m),
           \A i \in 1..Len(ps) : ps[i].size <= SourceLimit
    PROVE  BatchesFit(AddFragment(b, ps[m + 1]), ps, m + 1)
<1> DEFINE n == Len(b)
           f == ps[m + 1]
           l == b[n]
<1>1. b \in Filling /\ n \in Nat \ {0} /\ n \in 1..n
  <2>1. b \in Filling
    BY DEF BatchesFit, Carry, Filling
  <2> QED
    BY <2>1, FillingLast
<1>2. m \in Nat /\ m + 1 \in 1..Len(ps) /\ f \in NPiece /\ f.id = m + 1 /\ f.size <= SourceLimit
  <2>1. m \in Nat /\ m + 1 \in 1..Len(ps) /\ ps \in Seq(NPiece)
    BY DEF InPlace
  <2> QED
    BY <2>1 DEF InPlace
<1>3. \A k \in 1..n : /\ b[k] # <<>> /\ b[k] \in Seq(NPiece) /\ Len(b[k]) \in Nat \ {0} /\ b[k][1].id \in Nat
                      /\ \A i \in 1..Len(b[k]) : b[k][i].id = b[k][1].id + i - 1 /\ b[k][i] = ps[b[k][i].id]
                      /\ SizeOf(b[k]) \in Nat /\ SizeOf(b[k]) <= SourceLimit
  <2> SUFFICES ASSUME NEW k \in 1..n
               PROVE  /\ b[k] # <<>> /\ b[k] \in Seq(NPiece) /\ Len(b[k]) \in Nat \ {0} /\ b[k][1].id \in Nat
                      /\ \A i \in 1..Len(b[k]) : b[k][i].id = b[k][1].id + i - 1 /\ b[k][i] = ps[b[k][i].id]
                      /\ SizeOf(b[k]) \in Nat /\ SizeOf(b[k]) <= SourceLimit
    OBVIOUS
  <2>1. Carry(b, ps, m)
    BY DEF BatchesFit
  <2>2. b[k] \in Seq(NPiece) /\ Len(b[k]) \in Nat \ {0} /\ b[k][1].id \in Nat
    BY <2>1, CallsBegin DEF Word
  <2> QED
    BY <2>1, <2>2 DEF BatchesFit, Carry
<1>4. /\ b[1][1].id = 1 /\ l[1].id + Len(l) - 1 = m
      /\ \A k \in 1..(n - 1) : b[k + 1][1].id = b[k][1].id + Len(b[k])
  BY DEF BatchesFit, Carry
<1>5. l # <<>> /\ l \in Seq(NPiece) /\ Len(l) \in Nat \ {0} /\ l[1].id \in Nat
      /\ \A i \in 1..Len(l) : l[i].id = l[1].id + i - 1 /\ l[i] = ps[l[i].id]
  BY <1>1, <1>3
<1>6. m = l[1].id + Len(l) - 1
  BY <1>4
<1>7. f = ps[f.id]
  BY <1>2
<1> HIDE DEF f
<1>8. CASE Len(l) < MaxBatchSegments /\ SizeOf(l) + f.size <= SourceLimit
  <2> DEFINE c == Grown(b, f)
             e == Append(l, f)
  <2>1. AddFragment(b, f) = c
    BY <1>8 DEF AddFragment, Grown
  <2>2. c \in Filling /\ Len(c) = n /\ c[n] = e /\ \A k \in 1..(n - 1) : c[k] = b[k]
    <3> HIDE DEF c, e, l
    <3>1. Grown(b, f) \in Filling /\ Len(Grown(b, f)) = n /\ Grown(b, f)[n] = Append(b[n], f)
          /\ \A k \in 1..(n - 1) : Grown(b, f)[k] = b[k]
      BY <1>1, <1>2, GrownIs
    <3> QED
      BY <3>1 DEF c, e, l
  <2>3. e # <<>> /\ Len(e) = Len(l) + 1 /\ e[Len(l) + 1] = f /\ \A i \in 1..Len(l) : e[i] = l[i]
    <3> HIDE DEF l
    <3> QED
      BY <1>2, <1>5, AppendProperties
  <2>4. SizeOf(e) = SizeOf(l) + f.size /\ SizeOf(e) \in Nat
    <3>1. f.size \in Nat /\ SizeOf(l) \in Nat /\ SizeOf(Append(l, f)) = SizeOf(l) + f.size
      <4> HIDE DEF l
      <4> QED
        BY <1>2, <1>5, SizeOfAppend
    <3> QED
      BY <3>1
  <2> HIDE DEF c, e, l
  <2>5. e[1] = l[1]
    BY <1>5, <2>3
  <2>6. ASSUME NEW i \in 1..Len(e)
        PROVE  e[i].id = e[1].id + i - 1 /\ e[i] = ps[e[i].id]
    <3>1. CASE i = Len(l) + 1
      <4>1. e[i] = f /\ e[i].id = m + 1
        BY <1>2, <2>3, <3>1
      <4>2. m + 1 = l[1].id + i - 1
        BY <1>5, <1>6, <3>1
      <4> QED
        BY <1>7, <2>5, <4>1, <4>2
    <3>2. CASE i # Len(l) + 1
      <4>1. i \in 1..Len(l)
        BY <1>5, <2>3, <3>2
      <4> QED
        BY <1>5, <2>3, <2>5, <4>1
    <3> QED
      BY <3>1, <3>2
  <2>7. ASSUME NEW k \in 1..n
        PROVE  /\ c[k] # <<>> /\ c[k][1].id = b[k][1].id
               /\ k < n => Len(c[k]) = Len(b[k])
               /\ \A i \in 1..Len(c[k]) : c[k][i].id = c[k][1].id + i - 1 /\ c[k][i] = ps[c[k][i].id]
               /\ SizeOf(c[k]) \in Nat /\ SizeOf(c[k]) <= SourceLimit
    <3>1. CASE k = n
      <4>1. c[k] = e /\ b[k] = l /\ ~(k < n)
        BY <1>1, <2>2, <3>1 DEF l
      <4> QED
        BY <1>8, <2>3, <2>4, <2>5, <2>6, <4>1
    <3>2. CASE k # n
      <4>1. c[k] = b[k]
        BY <1>1, <2>2, <3>2
      <4> QED
        BY <1>3, <4>1
    <3> QED
      BY <3>1, <3>2
  <2>8. c[1][1].id = 1 /\ c[n][1].id + Len(c[n]) - 1 = m + 1
    <3>1. 1 \in 1..n /\ c[n] = e
      BY <1>1, <2>2
    <3>2. e[1].id + Len(e) - 1 = m + 1
      BY <1>5, <1>6, <2>3, <2>5
    <3> QED
      BY <1>4, <2>7, <3>1, <3>2
  <2>9. ASSUME NEW k \in 1..(n - 1)
        PROVE  c[k + 1][1].id = c[k][1].id + Len(c[k])
    <3>1. k \in 1..n /\ k + 1 \in 1..n /\ k < n
      BY <1>1
    <3>2. c[k + 1][1].id = b[k + 1][1].id /\ c[k][1].id = b[k][1].id /\ Len(c[k]) = Len(b[k])
      BY <2>7, <3>1
    <3> QED
      BY <1>4, <3>2
  <2>10. c \in Seq(Seq(NPiece)) /\ c # <<>>
    BY <2>2 DEF Filling
  <2>11. BatchesFit(c, ps, m + 1)
    <3> HIDE DEF n
    <3>1. n = Len(c)
      BY <2>2
    <3> QED
      BY <2>7, <2>8, <2>9, <2>10, <3>1 DEF BatchesFit, Carry
  <2> QED
    BY <2>1, <2>11 DEF f
<1>9. CASE ~(Len(l) < MaxBatchSegments /\ SizeOf(l) + f.size <= SourceLimit)
  <2> DEFINE c == Append(b, <<f>>)
             e == <<f>>
  <2>1. AddFragment(b, f) = c
    BY <1>9 DEF AddFragment
  <2>2. c \in Filling /\ Len(c) = n + 1 /\ c[n + 1] = e /\ \A k \in 1..n : c[k] = b[k]
    BY <1>1, <1>2, AddedIs
  <2>3. e # <<>> /\ Len(e) = 1 /\ e[1] = f
    OBVIOUS
  <2>4. SizeOf(e) = f.size /\ SizeOf(e) \in Nat
    BY <1>2, SizeOfOne
  <2> HIDE DEF c, e, l
  <2>5. ASSUME NEW i \in 1..Len(e)
        PROVE  e[i].id = e[1].id + i - 1 /\ e[i] = ps[e[i].id]
    <3>1. i = 1
      BY <2>3
    <3>2. e[i] = f /\ e[1].id = m + 1 /\ e[i].id = m + 1
      BY <1>2, <2>3, <3>1
    <3>3. m + 1 = (m + 1) + 1 - 1
      BY <1>2
    <3> QED
      BY <1>7, <3>1, <3>2, <3>3
  <2>6. ASSUME NEW k \in 1..(n + 1)
        PROVE  /\ c[k] # <<>>
               /\ \A i \in 1..Len(c[k]) : c[k][i].id = c[k][1].id + i - 1 /\ c[k][i] = ps[c[k][i].id]
               /\ SizeOf(c[k]) \in Nat /\ SizeOf(c[k]) <= SourceLimit
    <3>1. CASE k = n + 1
      <4>1. c[k] = e
        BY <2>2, <3>1
      <4> QED
        BY <1>2, <2>3, <2>4, <2>5, <4>1
    <3>2. CASE k # n + 1
      <4>1. k \in 1..n /\ c[k] = b[k]
        BY <1>1, <2>2, <3>2
      <4> QED
        BY <1>3, <4>1
    <3> QED
      BY <3>1, <3>2
  <2>7. c[1][1].id = 1 /\ c[n + 1][1].id + Len(c[n + 1]) - 1 = m + 1
    <3>1. 1 \in 1..n /\ c[n + 1] = e /\ c[1] = b[1]
      BY <1>1, <2>2
    <3>2. e[1].id + Len(e) - 1 = m + 1
      BY <1>2, <2>3
    <3> QED
      BY <1>4, <3>1, <3>2
  <2>8. ASSUME NEW k \in 1..n
        PROVE  c[k + 1][1].id = c[k][1].id + Len(c[k])
    <3>1. CASE k = n
      <4>1. c[k + 1] = e /\ c[k] = l
        BY <1>1, <2>2, <3>1 DEF l
      <4>2. e[1].id = m + 1
        BY <1>2, <2>3
      <4>3. m + 1 = l[1].id + Len(l)
        BY <1>2, <1>5, <1>6
      <4> QED
        BY <4>1, <4>2, <4>3
    <3>2. CASE k # n
      <4>1. k \in 1..(n - 1) /\ k + 1 \in 1..n
        BY <1>1, <3>2
      <4>2. c[k + 1] = b[k + 1] /\ c[k] = b[k]
        BY <2>2, <4>1
      <4> QED
        BY <1>4, <4>1, <4>2
    <3> QED
      BY <3>1, <3>2
  <2>9. c \in Seq(Seq(NPiece)) /\ c # <<>>
    BY <2>2 DEF Filling
  <2>10. BatchesFit(c, ps, m + 1)
    <3>1. n + 1 = Len(c) /\ Len(c) - 1 = n
      BY <1>1, <2>2
    <3> HIDE DEF n
    <3>2. /\ \A k \in 1..Len(c) :
                /\ c[k] # <<>>
                /\ \A i \in 1..Len(c[k]) : c[k][i].id = c[k][1].id + i - 1 /\ c[k][i] = ps[c[k][i].id]
                /\ SizeOf(c[k]) \in Nat /\ SizeOf(c[k]) <= SourceLimit
          /\ c[Len(c)][1].id + Len(c[Len(c)]) - 1 = m + 1
          /\ \A k \in 1..(Len(c) - 1) : c[k + 1][1].id = c[k][1].id + Len(c[k])
      BY <2>6, <2>7, <2>8, <3>1
    <3> QED
      BY <2>7, <2>9, <3>2 DEF BatchesFit, Carry
  <2> QED
    BY <2>1, <2>10 DEF f
<1> QED
  BY <1>8, <1>9

\* Batches carry all fragments in their order.
LEMMA BatchesCarry ==
    ASSUME NEW ps, InPlace(ps), \A i \in 1..Len(ps) : ps[i].size <= SourceLimit
    PROVE  BatchesFit(InBatches(ps), ps, Len(ps))
<1> DEFINE n == Len(ps)
           tail == Tail(ps)
           base == <<<<Head(ps)>>>>
<1>1. ps \in Seq(NPiece) /\ n \in Nat \ {0} /\ ps # <<>> /\ ps[1] \in NPiece /\ ps[1].id = 1
  <2>1. ps \in Seq(NPiece) /\ ps # <<>>
    BY DEF InPlace
  <2>2. n \in Nat \ {0} /\ 1 \in 1..n
    BY <2>1
  <2> QED
    BY <2>1, <2>2 DEF InPlace
<1>2. /\ Head(ps) = ps[1] /\ tail \in Seq(NPiece) /\ Len(tail) = n - 1
      /\ \A i \in 1..(n - 1) : tail[i] = ps[i + 1]
  BY <1>1, HeadTailProperties
<1>3. base \in Filling /\ BatchesFit(base, ps, 1)
  <2> DEFINE one == <<ps[1]>>
             b == <<one>>
  <2>1. one \in Seq(NPiece) /\ Len(one) = 1 /\ SizeOf(one) = ps[1].size /\ ps[1].size \in Nat
        /\ one # <<>> /\ one[1] = ps[1]
    BY <1>1, SizeOfOne
  <2> HIDE DEF one
  <2>2. b \in Seq(Seq(NPiece)) /\ Len(b) = 1 /\ b[1] = one /\ b # <<>>
    BY <2>1
  <2>3. base = b
    BY <1>2 DEF one
  <2> HIDE DEF b, base
  <2>4. ps[1].size <= SourceLimit
    <3>1. 1 \in 1..n
      BY <1>1
    <3> QED
      BY <3>1
  <2>5. \A k \in 1..Len(b) : k = 1 /\ b[k] = one
    BY <2>2
  <2>6. ASSUME NEW i \in 1..Len(one)
        PROVE  one[i].id = one[1].id + i - 1 /\ one[i] = ps[one[i].id]
    <3>1. i = 1 /\ one[1].id = 1 /\ one[1] = ps[1]
      BY <1>1, <2>1
    <3>2. 1 = 1 + 1 - 1
      OBVIOUS
    <3> QED
      BY <3>1, <3>2
  <2>7. one[1].id + Len(one) - 1 = 1 /\ one[1].id = 1
    BY <1>1, <2>1
  <2>8. 1..(Len(b) - 1) = {}
    BY <2>2
  <2>9. Carry(b, ps, 1)
    BY <2>1, <2>2, <2>5, <2>6, <2>7, <2>8 DEF Carry
  <2> QED
    BY <2>1, <2>2, <2>3, <2>4, <2>5, <2>9 DEF BatchesFit, Filling
<1>4. InBatches(ps) = FoldLeft(AddFragment, base, tail)
  BY DEF InBatches
<1> HIDE DEF base, tail
<1>5. PICK d : /\ d[0] = base /\ \A i \in 1..Len(tail) : d[i] = AddFragment(d[i - 1], tail[i])
               /\ FoldLeft(AddFragment, base, tail) = d[Len(tail)]
  BY <1>2, <1>3, BatchSteps
<1> DEFINE T == {i \in 0..(n - 1) : BatchesFit(d[i], ps, i + 1)}
<1>6. 0 \in T
  BY <1>1, <1>3, <1>5
<1>7. ASSUME NEW i \in 0..((n - 1) - 1), i \in T
      PROVE  i + 1 \in T
  <2> DEFINE m == i + 1
  <2>1. m \in 1..(n - 1) /\ m \in 0..(n - 1) /\ m - 1 = i
    BY <1>1
  <2>2. d[m] = AddFragment(d[i], ps[m + 1])
    BY <1>2, <1>5, <2>1
  <2>3. BatchesFit(d[i], ps, m)
    BY <1>7
  <2> HIDE DEF m
  <2>4. BatchesFit(AddFragment(d[i], ps[m + 1]), ps, m + 1)
    <3> DEFINE b == d[i]
    <3> HIDE DEF b
    <3>1. BatchesFit(b, ps, m)
      BY <2>3 DEF b
    <3>2. BatchesFit(AddFragment(b, ps[m + 1]), ps, m + 1)
      BY <2>1, <3>1, AddFragmentFits
    <3> QED
      BY <3>2 DEF b
  <2> QED
    BY <2>1, <2>2, <2>4 DEF m
<1>8. n - 1 \in T
  <2> DEFINE l == n - 1
  <2>1. l \in Nat /\ l \in 0..l
    BY <1>1
  <2>2. \A i \in 0..l : i \in T
    <3>1. 0 \in T
      BY <1>6
    <3>2. \A i \in 0..(l - 1) : i \in T => i + 1 \in T
      BY <1>7
    <3> HIDE DEF T, l
    <3> QED
      BY <2>1, <3>1, <3>2, SetUpTo
  <2> QED
    BY <2>1, <2>2
<1> QED
  BY <1>1, <1>2, <1>4, <1>5, <1>8

-----------------------------------------------------------------------------
(* What a request sends for its article.                                   *)

\* The calls carry pieces that are numbered through.
Carries(calls) == InPlace(FlattenSeq(calls)) /\ Carry(calls, FlattenSeq(calls), Len(FlattenSeq(calls)))

\* They hold what each text has.
HasTexts(calls, article, spaces) ==
    \A o \in 1..Len(article) : Total(OwnLetters(FlattenSeq(calls), o)) = Content(article[o], spaces)

Fits(calls, limit) == \A k \in 1..Len(calls) : SizeOf(calls[k]) \in Nat /\ SizeOf(calls[k]) <= limit

\* One piece in a call, text by text.
TextByText(calls, article) ==
    calls = Singles(FlattenSeq(calls)) /\ InTurn(FlattenSeq(calls), Len(article))

\* Calls of one piece each have what the cut has.
LEMMA SinglesCalls ==
    ASSUME NEW ps, NEW article, NEW limit, NEW spaces, CutOf(ps, article, limit, spaces)
    PROVE  /\ Carries(Singles(ps)) /\ HasTexts(Singles(ps), article, spaces)
           /\ Fits(Singles(ps), limit) /\ TextByText(Singles(ps), article)
<1>1. InPlace(ps) /\ ps \in Seq(NPiece)
  BY DEF CutOf, InPlace
<1>2. /\ Carry(Singles(ps), ps, Len(ps)) /\ Len(Singles(ps)) = Len(ps)
      /\ \A k \in 1..Len(ps) : SizeOf(Singles(ps)[k]) = ps[k].size
  BY <1>1, SinglesCarry
<1> DEFINE calls == Singles(ps)
<1>3. FlattenSeq(calls) = ps
  <2> HIDE DEF calls
  <2>1. Carry(calls, ps, Len(ps))
    BY <1>2 DEF calls
  <2> QED
    BY <1>1, <2>1, CarryFlat
<1>4. \A k \in 1..Len(ps) : SizeOf(Singles(ps)[k]) \in Nat /\ SizeOf(Singles(ps)[k]) <= limit
  <2>1. \A k \in 1..Len(ps) : ps[k].size \in Nat /\ ps[k].size <= limit
    <3>1. \A k \in 1..Len(ps) : ps[k] \in NPiece
      BY <1>1
    <3> QED
      BY <3>1 DEF CutOf, NPiece
  <2> QED
    BY <1>2, <2>1
<1> QED
  BY <1>1, <1>2, <1>3, <1>4 DEF Carries, HasTexts, Fits, TextByText, CutOf

\* DeepLX gets one chunk at a time.
LEMMA ChunkCallsFit ==
    ASSUME NEW article \in Articles, NEW limit \in Word
    PROVE  /\ Carries(ChunkCalls(article, limit)) /\ HasTexts(ChunkCalls(article, limit), article, FALSE)
           /\ Fits(ChunkCalls(article, limit), limit) /\ TextByText(ChunkCalls(article, limit), article)
<1>1. PICK ps : CutOf(ps, article, limit, FALSE) /\ ChunkCalls(article, limit) = Singles(ps)
  BY Chunked
<1> QED
  BY <1>1, SinglesCalls

\* A provider gets a fragment of a selection at a time.
LEMMA FragmentCallsFit ==
    ASSUME NEW article \in Articles
    PROVE  /\ Carries(Singles(Fragments(article))) /\ HasTexts(Singles(Fragments(article)), article, TRUE)
           /\ Fits(Singles(Fragments(article)), SourceLimit)
<1> DEFINE ps == Fragments(article)
<1>1. CutOf(ps, article, SourceLimit, TRUE)
  BY Fragmented
<1> HIDE DEF ps
<1>2. Carries(Singles(ps)) /\ HasTexts(Singles(ps), article, TRUE) /\ Fits(Singles(ps), SourceLimit)
  BY <1>1, SinglesCalls
<1> QED
  BY <1>2 DEF ps

\* And an article in batches.
LEMMA BatchCallsFit ==
    ASSUME NEW article \in Articles
    PROVE  /\ Carries(InBatches(Fragments(article))) /\ HasTexts(InBatches(Fragments(article)), article, TRUE)
           /\ Fits(InBatches(Fragments(article)), SourceLimit)
<1> DEFINE ps == Fragments(article)
           calls == InBatches(ps)
<1>1. CutOf(ps, article, SourceLimit, TRUE)
  BY Fragmented
<1> HIDE DEF ps
<1>2. InPlace(ps) /\ ps \in Seq(NPiece) /\ \A i \in 1..Len(ps) : ps[i].size <= SourceLimit
  BY <1>1 DEF CutOf, InPlace
<1>3. BatchesFit(calls, ps, Len(ps))
  BY <1>2, BatchesCarry
<1> HIDE DEF calls
<1>4. Carry(calls, ps, Len(ps)) /\ Fits(calls, SourceLimit)
  BY <1>3 DEF BatchesFit, Fits
<1>5. FlattenSeq(calls) = ps
  BY <1>2, <1>4, CarryFlat
<1>6. Carries(calls) /\ HasTexts(calls, article, TRUE)
  BY <1>1, <1>2, <1>4, <1>5 DEF Carries, HasTexts, CutOf
<1> QED
  BY <1>4, <1>6 DEF calls, ps

\* A word to look up, or the text of a test, goes as it is.
LEMMA LoneFits ==
    ASSUME NEW article \in Articles, Len(article) = 1
    PROVE  Carries(Lone(article)) /\ HasTexts(Lone(article), article, FALSE)
<1> DEFINE text == article[1]
           p == [id |-> 1, owner |-> 1, size |-> Length(text), letters |-> Letters(text)]
           ps == <<p>>
<1>1. text \in Seq(Word) /\ text # <<>>
  BY ArticleTexts
<1>2. Length(text) \in Nat /\ Letters(text) \in Nat
  <2> HIDE DEF text
  <2> QED
    BY <1>1, TextLength DEF Word
<1> HIDE DEF text
<1>3. p \in NPiece /\ p.id = 1 /\ p.owner = 1 /\ p.letters = Letters(text)
  BY <1>2 DEF NPiece, Word
<1>4. Lone(article) = <<ps>>
  BY DEF Lone, text
<1> HIDE DEF p
<1>5. ps \in Seq(NPiece) /\ Len(ps) = 1 /\ ps[1] = p
  BY <1>3
<1>6. Singles(ps) = <<ps>>
  BY <1>5 DEF Singles
<1>7. OwnLetters(ps, 1) = <<Letters(text)>>
  BY <1>3, <1>5 DEF OwnLetters
<1> HIDE DEF ps
<1>8. Total(OwnLetters(ps, 1)) = Letters(text)
  BY <1>2, <1>7, TotalOne
<1>9. InPlace(ps)
  <2>1. \A i \in 1..Len(ps) : i = 1 /\ ps[i] = p
    BY <1>5
  <2>2. \A i \in 1..Len(ps) : ps[i].id = i
    BY <1>3, <2>1
  <2>3. ps # <<>>
    BY ONLY <1>5, SMTT(20)
  <2> QED
    BY <1>5, <2>2, <2>3 DEF InPlace
<1>10. FlattenSeq(Singles(ps)) = ps /\ Carry(Singles(ps), ps, Len(ps))
  <2> DEFINE calls == Singles(ps)
  <2>1. Carry(calls, ps, Len(ps))
    BY <1>9, SinglesCarry
  <2> HIDE DEF calls
  <2>2. FlattenSeq(calls) = ps
    BY <1>5, <2>1, CarryFlat
  <2> QED
    BY <2>1, <2>2 DEF calls
<1>11. \A o \in 1..Len(article) : o = 1
  OBVIOUS
<1> QED
  BY <1>4, <1>6, <1>8, <1>9, <1>10, <1>11 DEF Carries, HasTexts, Content, text

-----------------------------------------------------------------------------
(* What a page is told.                                                    *)

Events == {<<"started">>, <<"completed">>, <<"error">>} \cup {<<"text", o>> : o \in Nat}
Story(texts) == <<<<"started">>>> \o [o \in 1..texts |-> <<"text", o>>] \o <<<<"completed">>>>

\* The whole story of a relay.
LEMMA StoryIs ==
    ASSUME NEW n \in Nat
    PROVE  /\ Story(n) \in Seq(Events) /\ Len(Story(n)) = n + 2
           /\ Story(n)[1] = <<"started">> /\ Story(n)[n + 2] = <<"completed">>
           /\ \A o \in 1..n : Story(n)[o + 1] = <<"text", o>>
<1> DEFINE a == <<<<"started">>>>
           b == [o \in 1..n |-> <<"text", o>>]
           c == <<<<"completed">>>>
<1>1. a \in Seq(Events) /\ Len(a) = 1 /\ a[1] = <<"started">>
  BY DEF Events
<1>2. b \in Seq(Events) /\ Len(b) = n /\ \A o \in 1..n : b[o] = <<"text", o>>
  <2>1. \A o \in 1..n : <<"text", o>> \in Events
    BY DEF Events
  <2> HIDE DEF Events
  <2> QED
    BY <2>1
<1>3. c \in Seq(Events) /\ Len(c) = 1 /\ c[1] = <<"completed">>
  BY DEF Events
<1>4. Story(n) = a \o b \o c
  BY DEF Story
<1> HIDE DEF a, b, c, Events
<1> DEFINE u == a \o b
<1>5. /\ u \in Seq(Events) /\ Len(u) = n + 1
      /\ \A i \in 1..(n + 1) : u[i] = IF i <= 1 THEN a[i] ELSE b[i - 1]
  <2>1. /\ u \in Seq(Events) /\ Len(u) = Len(a) + Len(b)
        /\ \A i \in 1..(Len(a) + Len(b)) : u[i] = IF i <= Len(a) THEN a[i] ELSE b[i - Len(a)]
    BY <1>1, <1>2, ConcatProperties
  <2>2. Len(a) + Len(b) = n + 1
    BY <1>1, <1>2
  <2> HIDE DEF u
  <2> QED
    BY <1>1, <2>1, <2>2
<1> HIDE DEF u
<1>6. /\ u \o c \in Seq(Events) /\ Len(u \o c) = n + 2
      /\ \A i \in 1..(n + 2) : (u \o c)[i] = IF i <= n + 1 THEN u[i] ELSE c[i - (n + 1)]
  <2>1. /\ u \o c \in Seq(Events) /\ Len(u \o c) = Len(u) + Len(c)
        /\ \A i \in 1..(Len(u) + Len(c)) : (u \o c)[i] = IF i <= Len(u) THEN u[i] ELSE c[i - Len(u)]
    BY <1>3, <1>5, ConcatProperties
  <2>2. Len(u) + Len(c) = n + 2
    BY <1>3, <1>5
  <2> QED
    BY <1>5, <2>1, <2>2
<1>7. Story(n) = u \o c
  BY <1>4 DEF u
<1>8. (u \o c)[1] = <<"started">> /\ (u \o c)[n + 2] = <<"completed">>
  <2>1. 1 \in 1..(n + 2) /\ 1 \in 1..(n + 1) /\ n + 2 \in 1..(n + 2) /\ (n + 2) - (n + 1) = 1 /\ ~(n + 2 <= n + 1)
    OBVIOUS
  <2>2. u[1] = a[1] /\ (u \o c)[1] = u[1]
    BY <1>5, <1>6, <2>1
  <2>3. (u \o c)[n + 2] = c[1]
    BY <1>6, <2>1
  <2> QED
    BY <1>1, <1>3, <2>2, <2>3
<1>9. ASSUME NEW o \in 1..n
      PROVE  (u \o c)[o + 1] = <<"text", o>>
  <2>1. o + 1 \in 1..(n + 2) /\ o + 1 \in 1..(n + 1) /\ (o + 1) - 1 = o /\ ~(o + 1 <= 1) /\ o + 1 <= n + 1
    OBVIOUS
  <2> QED
    BY <1>2, <1>5, <1>6, <2>1
<1> QED
  BY <1>6, <1>7, <1>8, <1>9

\* What was sent is the beginning of the story, perhaps with an error after it.
Told(sent, texts) ==
    LET told == IF sent # <<>> /\ sent[Len(sent)] = <<"error">> THEN Len(sent) - 1 ELSE Len(sent)
    IN \A i \in 1..told : i <= Len(Story(texts)) /\ sent[i] = Story(texts)[i]

\* The first so many events of the story.
Begun(sent, texts, many) ==
    /\ sent \in Seq(Events) /\ Len(sent) = many
    /\ \A i \in 1..many : sent[i] = Story(texts)[i]

\* A beginning of the story is told in order, with or without an error after it.
LEMMA BegunTold ==
    ASSUME NEW n \in Nat, NEW many \in 0..(n + 2), NEW sent, Begun(sent, n, many)
    PROVE  Told(sent, n) /\ Told(Append(sent, <<"error">>), n) /\ Append(sent, <<"error">>) \in Seq(Events)
<1>1. many \in Nat /\ sent \in Seq(Events) /\ Len(sent) = many /\ Len(Story(n)) = n + 2 /\ <<"error">> \in Events
  BY StoryIs DEF Begun, Events
<1>2. \A i \in 1..many : i <= Len(Story(n)) /\ sent[i] = Story(n)[i]
  BY <1>1 DEF Begun
<1> DEFINE e == <<"error">>
           a == Append(sent, e)
<1> HIDE DEF e
<1>3. a \in Seq(Events) /\ Len(a) = many + 1 /\ a[many + 1] = e /\ a # <<>> /\ \A i \in 1..many : a[i] = sent[i]
  BY <1>1, AppendProperties DEF e
<1>4. \A i \in 1..(many - 1) : i \in 1..many
  BY <1>1
<1>5. Told(sent, n)
  BY <1>1, <1>2, <1>4 DEF Told
<1> HIDE DEF a
<1>6. Told(a, n)
  <2>1. Len(a) - 1 = many
    BY <1>1, <1>3
  <2>2. a[Len(a)] = <<"error">>
    BY <1>3 DEF e
  <2> QED
    BY <1>2, <1>3, <2>1, <2>2 DEF Told
<1> QED
  BY <1>3, <1>5, <1>6 DEF a, e

\* The next event of the story.
LEMMA BegunNext ==
    ASSUME NEW n \in Nat, NEW many \in 0..(n + 1), NEW sent, Begun(sent, n, many),
           NEW event \in Events, event = Story(n)[many + 1]
    PROVE  Begun(Append(sent, event), n, many + 1)
<1>1. many \in Nat /\ sent \in Seq(Events) /\ Len(sent) = many
  BY DEF Begun
<1>2. /\ Append(sent, event) \in Seq(Events) /\ Len(Append(sent, event)) = many + 1
      /\ Append(sent, event)[many + 1] = event /\ \A i \in 1..many : Append(sent, event)[i] = sent[i]
  BY <1>1, AppendProperties
<1>3. ASSUME NEW i \in 1..(many + 1)
      PROVE  Append(sent, event)[i] = Story(n)[i]
  <2>1. CASE i = many + 1
    BY <1>2, <2>1
  <2>2. CASE i # many + 1
    <3>1. i \in 1..many
      BY <1>1, <2>2
    <3> QED
      BY <1>2, <3>1 DEF Begun
  <2> QED
    BY <2>1, <2>2
<1> QED
  BY <1>2, <1>3 DEF Begun

-----------------------------------------------------------------------------
(* A request, and what its page was told.                                  *)

Kinds == {"entry", "progressive", "text", "lookup", "test"}
Stages == {"settings", "validate", "source", "key", "cut", "call", "answer"}
ReqFields == {"kind", "at", "engine", "url", "live", "article", "calls", "made", "out"}
Placing == [id : Word, text : Word]

\* The calls of a request, for its kind and its engine.
Called(q) ==
    /\ Carries(q.calls)
    /\ HasTexts(q.calls, q.article, q.engine = "openai" /\ q.kind # "lookup")
    /\ q.kind \notin {"lookup", "test"} =>
          Fits(q.calls, IF q.engine = "openai" THEN SourceLimit ELSE AuthenticatedChunk)
    /\ q.kind = "progressive" => TextByText(q.calls, q.article)

\* What is put together ends where the next call begins.
Progress(q) ==
    /\ q.made \in 0..Len(q.calls)
    /\ q.at = "answer" => q.made < Len(q.calls)
    /\ q.out \in Seq(Placing)
    /\ q.made < Len(q.calls) => Len(q.out) = q.calls[q.made + 1][1].id - 1
    /\ \A i \in 1..Len(q.out) : q.out[i].id = i /\ q.out[i].text = i

ReqOK(q) ==
    /\ DOMAIN q = ReqFields /\ q.kind \in Kinds /\ q.at \in Stages
    /\ q.at # "settings" => q.engine \in {"openai", "deeplx"}
    /\ q.at \in {"key", "cut", "call", "answer"} =>
          q.article \in Articles /\ (Whole(q.kind) <=> Len(q.article) > 1)
    /\ q.at = "key" => q.engine = "deeplx"
    /\ q.at = "cut" => q.engine = "openai" /\ q.kind # "progressive"
    /\ IF q.at \in {"call", "answer"} THEN Called(q) /\ Progress(q) ELSE q.made = 0 /\ q.out = <<>>

WireFields == {"sent", "heard", "reading", "texts"}

\* The channel of a request that may be over.
WireOK(w) ==
    /\ DOMAIN w = WireFields /\ w.sent \in Seq(Events) /\ w.texts \in Nat
    /\ Told(w.sent, w.texts)

\* The texts that are complete.
Done(q) == IF q.made = Len(q.calls) THEN Len(q.article) ELSE q.calls[q.made + 1][1].owner - 1

\* The channel of a request that goes on tells what is complete.
WireOf(q, w) ==
    /\ DOMAIN w = WireFields
    /\ IF q.at \in {"call", "answer"}
       THEN w.texts = Len(q.article) /\ Done(q) \in 0..w.texts /\ Begun(w.sent, w.texts, Done(q) + 1)
       ELSE w.texts = 0 /\ w.sent = <<>>

RowOK(q, w) ==
    /\ q # None => ReqOK(q) /\ (q.kind = "progressive" => WireOf(q, w))
    /\ w # None => WireOK(w)

RequestsInv ==
    /\ req = [r \in Requests |-> req[r]] /\ relay = [r \in Requests |-> relay[r]]
    /\ \A r \in Requests : RowOK(req[r], relay[r])

\* The fields of a request that moves on.
LEMMA AtField ==
    ASSUME NEW q, DOMAIN q = ReqFields, NEW x, NEW p, p = [q EXCEPT !.at = x]
    PROVE  /\ DOMAIN p = ReqFields /\ p.at = x /\ p.kind = q.kind /\ p.engine = q.engine
           /\ p.article = q.article /\ p.calls = q.calls /\ p.made = q.made /\ p.out = q.out
BY DEF ReqFields

\* The fields of a relay that is told something.
LEMMA SentField ==
    ASSUME NEW w, DOMAIN w = WireFields, NEW e, NEW v, v = [w EXCEPT !.sent = Append(@, e)]
    PROVE  DOMAIN v = WireFields /\ v.sent = Append(w.sent, e) /\ v.texts = w.texts
BY DEF WireFields

\* A channel that is told an error, and then no more.
LEMMA WireEnds ==
    ASSUME NEW q, NEW w, ReqOK(q), WireOf(q, w)
    PROVE  WireOK(w) /\ WireOK([w EXCEPT !.sent = Append(@, <<"error">>)])
<1> DEFINE v == [w EXCEPT !.sent = Append(@, <<"error">>)]
<1>1. DOMAIN w = WireFields
  BY DEF WireOf
<1>2. DOMAIN v = WireFields /\ v.sent = Append(w.sent, <<"error">>) /\ v.texts = w.texts
  BY <1>1, SentField
<1>3. w.texts \in Nat /\ \E many \in 0..(w.texts + 2) : Begun(w.sent, w.texts, many)
  <2>1. CASE q.at \in {"call", "answer"}
    <3>1. q.article \in Articles /\ w.texts = Len(q.article) /\ Done(q) \in 0..w.texts
          /\ Begun(w.sent, w.texts, Done(q) + 1)
      BY <2>1 DEF WireOf, ReqOK
    <3>2. w.texts \in Nat
      BY <3>1, ArticleTexts
    <3>3. Done(q) + 1 \in 0..(w.texts + 2)
      BY <3>1, <3>2
    <3> QED
      BY <3>1, <3>2, <3>3
  <2>2. CASE q.at \notin {"call", "answer"}
    <3>1. w.texts = 0 /\ w.sent = <<>>
      BY <2>2 DEF WireOf
    <3>2. Begun(<<>>, 0, 0) /\ 0 \in 0..(0 + 2) /\ 0 \in Nat
      BY DEF Begun
    <3> QED
      BY <3>1, <3>2
  <2> QED
    BY <2>1, <2>2
<1>4. PICK many \in 0..(w.texts + 2) : Begun(w.sent, w.texts, many)
  BY <1>3
<1>5. /\ Told(w.sent, w.texts) /\ Told(Append(w.sent, <<"error">>), w.texts)
      /\ Append(w.sent, <<"error">>) \in Seq(Events) /\ w.sent \in Seq(Events)
  BY <1>3, <1>4, BegunTold DEF Begun
<1> HIDE DEF v
<1> QED
  BY <1>1, <1>2, <1>3, <1>5 DEF WireOK, v

\* The first steps of a request.
LEMMA EarlyOK ==
    ASSUME NEW q, NEW p, ReqOK(q), q.at \notin {"call", "answer"}, DOMAIN p = ReqFields,
           p.kind = q.kind, p.made = q.made, p.out = q.out, p.at \in Stages \ {"settings", "call", "answer"},
           p.engine \in {"openai", "deeplx"},
           p.at \in {"key", "cut"} => p.article \in Articles /\ (Whole(p.kind) <=> Len(p.article) > 1),
           p.at = "key" => p.engine = "deeplx",
           p.at = "cut" => p.engine = "openai" /\ p.kind # "progressive"
    PROVE  ReqOK(p) /\ \A w : WireOf(q, w) => WireOf(p, w)
<1>1. p.at \notin {"call", "answer"} /\ p.at # "settings" /\ p.at \in Stages
  BY DEF Stages
<1>2. q.kind \in Kinds /\ q.made = 0 /\ q.out = <<>>
  BY DEF ReqOK
<1>3. ReqOK(p)
  BY <1>1, <1>2 DEF ReqOK
<1> QED
  BY <1>1, <1>3 DEF WireOf

\* The calls begin: nothing is put together yet.
LEMMA CallsOK ==
    ASSUME NEW q, NEW p, ReqOK(q), q.at \in {"key", "cut"}, DOMAIN p = ReqFields, p.at = "call",
           p.kind = q.kind, p.engine = q.engine, p.article = q.article, p.made = q.made, p.out = q.out, Called(p)
    PROVE  ReqOK(p) /\ p.made = 0
<1> DEFINE calls == p.calls
<1>1. q.at \notin {"call", "answer"}
  OBVIOUS
<1>2. p.made = 0 /\ p.out = <<>>
  BY <1>1 DEF ReqOK
<1>3. Carry(calls, FlattenSeq(calls), Len(FlattenSeq(calls)))
  BY DEF Called, Carries
<1>4. Len(calls) \in Nat \ {0} /\ calls[1][1].id = 1
  BY <1>3 DEF Carry
<1>5. Progress(p)
  <2>1. <<>> \in Seq(Placing) /\ Len(<<>>) = 0 /\ 0 \in 0..Len(calls) /\ 0 + 1 = 1
    BY <1>4
  <2>2. p.calls[p.made + 1][1].id = 1 /\ Len(p.out) = 0 /\ p.made + 1 = 1
    BY <1>2, <1>4, <2>1
  <2>3. p.made \in 0..Len(p.calls) /\ p.out \in Seq(Placing) /\ p.at # "answer"
    BY <1>2, <2>1
  <2>4. 1..Len(p.out) = {} /\ Len(p.out) = p.calls[p.made + 1][1].id - 1
    BY <2>2
  <2> QED
    BY <2>3, <2>4 DEF Progress
<1>6. q.kind \in Kinds /\ q.engine \in {"openai", "deeplx"} /\ q.article \in Articles
      /\ (Whole(q.kind) <=> Len(q.article) > 1)
  BY DEF ReqOK
<1>7. "call" \in Stages
  BY DEF Stages
<1> HIDE DEF calls
<1>8. ReqOK(p)
  BY <1>2, <1>5, <1>6, <1>7 DEF ReqOK
<1> QED
  BY <1>2, <1>8

\* The calls of DeepLX and of a provider are what their request may send.
LEMMA KeyCalls ==
    ASSUME NEW q, ReqOK(q), q.at = "key", NEW key \in BOOLEAN, NEW p,
           p.kind = q.kind, p.engine = q.engine, p.article = q.article,
           p.calls = IF q.kind \in {"lookup", "test"} THEN Lone(q.article)
                     ELSE DeepLxCalls[q.article][IF key THEN AuthenticatedChunk ELSE AnonymousChunk]
    PROVE  Called(p)
<1> DEFINE article == q.article
           limit == IF key THEN AuthenticatedChunk ELSE AnonymousChunk
<1>1. article \in Articles /\ q.engine = "deeplx" /\ (Whole(q.kind) <=> Len(article) > 1)
  BY DEF ReqOK
<1>2. Len(article) \in Nat \ {0}
  BY <1>1, ArticleTexts
<1>3. /\ limit \in {AnonymousChunk, AuthenticatedChunk} /\ limit \in Word
      /\ limit <= AuthenticatedChunk /\ AuthenticatedChunk \in Nat
  <2>1. /\ AnonymousChunk \in Nat /\ AuthenticatedChunk \in Nat /\ AnonymousChunk # 0 /\ AuthenticatedChunk # 0
        /\ AnonymousChunk <= AuthenticatedChunk
    BY ONLY TranslationAssumption
  <2>2. limit \in {AnonymousChunk, AuthenticatedChunk}
    OBVIOUS
  <2> HIDE DEF limit
  <2> QED
    BY ONLY <2>1, <2>2 DEF Word
<1> HIDE DEF article, limit
<1>4. HasTexts(p.calls, article, FALSE) <=> HasTexts(p.calls, article, q.engine = "openai" /\ q.kind # "lookup")
  BY <1>1 DEF HasTexts, Content
<1>5. CASE q.kind \in {"lookup", "test"}
  <2>1. Len(article) = 1 /\ q.kind # "progressive"
    <3>1. ~Whole(q.kind) /\ q.kind # "progressive"
      BY ONLY <1>5 DEF Whole
    <3> DEFINE n == Len(article)
    <3>2. n \in Nat \ {0} /\ ~(n > 1)
      BY ONLY <1>1, <1>2, <3>1, Zenon
    <3> HIDE DEF n
    <3>3. n = 1
      BY ONLY <3>2
    <3> QED
      BY ONLY <3>1, <3>3 DEF n
  <2>2. Carries(p.calls) /\ HasTexts(p.calls, article, FALSE)
    <3>1. p.calls = Lone(article)
      BY <1>5 DEF article
    <3>2. Carries(Lone(article)) /\ HasTexts(Lone(article), article, FALSE)
      BY <1>1, <2>1, LoneFits
    <3> QED
      BY <3>1, <3>2
  <2> QED
    BY <1>4, <1>5, <2>1, <2>2 DEF Called, article
<1>6. CASE q.kind \notin {"lookup", "test"}
  <2>1. p.calls = ChunkCalls(article, limit)
    <3>1. p.calls = DeepLxCalls[article][limit]
      BY <1>6 DEF article, limit
    <3>2. DeepLxCalls[article][limit] = ChunkCalls(article, limit)
      BY ONLY <1>1, <1>3 DEF DeepLxCalls
    <3> QED
      BY ONLY <3>1, <3>2
  <2>2. Carries(p.calls) /\ HasTexts(p.calls, article, FALSE) /\ Fits(p.calls, limit) /\ TextByText(p.calls, article)
    <3>1. /\ Carries(ChunkCalls(article, limit)) /\ HasTexts(ChunkCalls(article, limit), article, FALSE)
          /\ Fits(ChunkCalls(article, limit), limit) /\ TextByText(ChunkCalls(article, limit), article)
      BY <1>1, <1>3, ChunkCallsFit
    <3> QED
      BY <2>1, <3>1
  <2>3. Fits(p.calls, AuthenticatedChunk)
    <3>1. ASSUME NEW k \in 1..Len(p.calls)
          PROVE  SizeOf(p.calls[k]) \in Nat /\ SizeOf(p.calls[k]) <= AuthenticatedChunk
      <4>1. SizeOf(p.calls[k]) \in Nat /\ SizeOf(p.calls[k]) <= limit
        BY <2>2 DEF Fits
      <4>2. limit \in Nat
        BY ONLY <1>3 DEF Word
      <4> QED
        BY ONLY <1>3, <4>1, <4>2
    <3> QED
      BY ONLY <3>1 DEF Fits
  <2>4. p.engine # "openai"
    BY <1>1
  <2> QED
    BY <1>4, <2>2, <2>3, <2>4 DEF Called, article
<1> QED
  BY <1>5, <1>6

\* What Cut sends is of the article of the request.
LEMMA CutCalls ==
    ASSUME NEW q, ReqOK(q), q.at = "cut", NEW p,
           p.kind = q.kind, p.engine = q.engine, p.article = q.article,
           p.calls = IF q.kind = "lookup" THEN Lone(q.article)
                     ELSE IF Whole(q.kind) THEN Batched[q.article] ELSE Singles(Pieced[q.article])
    PROVE  Called(p)
<1> DEFINE article == q.article
<1>1. /\ article \in Articles /\ q.engine = "openai" /\ q.kind # "progressive"
      /\ (Whole(q.kind) <=> Len(article) > 1)
  BY DEF ReqOK
<1>2. Len(article) \in Nat \ {0} /\ Pieced[article] = Fragments(article)
      /\ Batched[article] = InBatches(Fragments(article))
  <2>1. Pieced[article] = Fragments(article)
    BY <1>1 DEF Pieced
  <2>2. Batched[article] = InBatches(Pieced[article])
    BY <1>1 DEF Batched
  <2> QED
    BY <1>1, <2>1, <2>2, ArticleTexts
<1> HIDE DEF article
<1>3. CASE q.kind = "lookup"
  <2>1. Len(article) = 1
    <3>1. ~Whole(q.kind)
      BY ONLY <1>3 DEF Whole
    <3> DEFINE n == Len(article)
    <3>2. n \in Nat \ {0} /\ ~(n > 1)
      BY ONLY <1>1, <1>2, <3>1, Zenon
    <3> HIDE DEF n
    <3>3. n = 1
      BY ONLY <3>2
    <3> QED
      BY ONLY <3>1, <3>3 DEF n
  <2>2. Carries(Lone(article)) /\ HasTexts(Lone(article), article, FALSE)
    BY <1>1, <2>1, LoneFits
  <2>3. p.calls = Lone(article)
    BY <1>3 DEF article
  <2>4. HasTexts(p.calls, article, q.engine = "openai" /\ q.kind # "lookup")
    BY <1>3, <2>2, <2>3 DEF HasTexts, Content
  <2> QED
    BY <1>3, <2>2, <2>3, <2>4 DEF Called, article
<1>4. CASE q.kind # "lookup"
  <2>1. p.calls \in {InBatches(Fragments(article)), Singles(Fragments(article))}
    BY <1>2, <1>4 DEF article
  <2>2. Carries(p.calls) /\ HasTexts(p.calls, article, TRUE) /\ Fits(p.calls, SourceLimit)
    <3>1. /\ Carries(InBatches(Fragments(article))) /\ HasTexts(InBatches(Fragments(article)), article, TRUE)
          /\ Fits(InBatches(Fragments(article)), SourceLimit)
      BY <1>1, BatchCallsFit
    <3>2. /\ Carries(Singles(Fragments(article))) /\ HasTexts(Singles(Fragments(article)), article, TRUE)
          /\ Fits(Singles(Fragments(article)), SourceLimit)
      BY <1>1, FragmentCallsFit
    <3> QED
      BY <2>1, <3>1, <3>2
  <2>3. HasTexts(p.calls, article, q.engine = "openai" /\ q.kind # "lookup")
    BY <1>1, <1>4, <2>2 DEF HasTexts, Content
  <2> QED
    BY <1>1, <2>2, <2>3 DEF Called, article
<1> QED
  BY <1>3, <1>4

\* What is made of an answer.
AnswersTaken(items) == {items[i] : i \in 1..Len(items)}
Translated(batch, texts) == [i \in 1..Len(batch) |-> [id |-> batch[i].id, text |-> texts[i]]]

\* An answer that is complete has every id of its batch in some place.
LEMMA AnswerOK ==
    ASSUME NEW q, ReqOK(q), q.at = "answer", NEW batch, batch = q.calls[q.made + 1], NEW items,
           AnswersTaken(items) = Ids(batch), NEW p, DOMAIN p = ReqFields, p.at = "call",
           p.kind = q.kind, p.engine = q.engine, p.article = q.article, p.calls = q.calls,
           p.made = q.made + 1, p.out = q.out \o Translated(batch, Placed(batch, items))
    PROVE  ReqOK(p)
<1> DEFINE texts == Placed(batch, items)
           s == Translated(batch, texts)
           calls == q.calls
           m == q.made
           ps == FlattenSeq(calls)
<1>1. Called(q) /\ Progress(q)
  BY DEF ReqOK
<1>2. /\ DOMAIN p = ReqFields /\ p.at = "call" /\ p.kind = q.kind /\ p.engine = q.engine
      /\ p.article = q.article /\ p.calls = calls /\ p.made = m + 1 /\ p.out = q.out \o s
  OBVIOUS
<1>3. Carry(calls, ps, Len(ps))
  BY <1>1 DEF Called, Carries
<1>4. m \in 0..Len(calls) /\ m < Len(calls)
  BY <1>1 DEF Progress
<1> HIDE DEF ps
<1>5. Len(calls) \in Nat \ {0}
  <2>1. calls \in Seq(Seq(NPiece)) /\ calls # <<>>
    BY <1>3 DEF Carry
  <2> QED
    BY <2>1
<1> HIDE DEF calls, m
<1>6. m \in Nat /\ m + 1 \in 1..Len(calls)
  BY <1>4, <1>5
<1>7. /\ batch \in Seq(NPiece) /\ Len(batch) \in Nat \ {0} /\ batch[1].id \in Word
      /\ \A i \in 1..Len(batch) : batch[i].id = batch[1].id + i - 1
  <2>1. batch = calls[m + 1]
    BY DEF calls, m
  <2>2. calls[m + 1] \in Seq(NPiece) /\ Len(calls[m + 1]) \in Nat \ {0} /\ calls[m + 1][1].id \in Word
    <3> DEFINE k == m + 1
    <3>1. k \in 1..Len(calls)
      BY <1>6
    <3> HIDE DEF k
    <3>2. calls[k] \in Seq(NPiece) /\ Len(calls[k]) \in Nat \ {0} /\ calls[k][1].id \in Word
      BY <1>3, <3>1, CallsBegin
    <3> QED
      BY <3>2 DEF k
  <2>3. \A i \in 1..Len(calls[m + 1]) : calls[m + 1][i].id = calls[m + 1][1].id + i - 1
    BY <1>3, <1>6 DEF Carry
  <2> QED
    BY <2>1, <2>2, <2>3
<1>8. ASSUME NEW i \in 1..Len(batch)
      PROVE  texts[i] = batch[i].id
  <2>1. batch[i].id \in {items[k] : k \in 1..Len(items)}
    BY DEF Ids, AnswersTaken
  <2>2. \E k \in 1..Len(items) : items[k] = batch[i].id
    BY <2>1
  <2>3. texts[i] = items[CHOOSE k \in 1..Len(items) : items[k] = batch[i].id]
    BY DEF Placed
  <2> QED
    BY <2>2, <2>3
<1>9. q.out \in Seq(Placing) /\ Len(q.out) = batch[1].id - 1
      /\ \A i \in 1..Len(q.out) : q.out[i].id = i /\ q.out[i].text = i
  BY <1>1, <1>4 DEF Progress, calls, m
<1>10. s \in Seq(Placing) /\ Len(s) = Len(batch)
       /\ \A i \in 1..Len(batch) : s[i].id = batch[1].id + i - 1 /\ s[i].text = batch[1].id + i - 1
  <2>1. \A i \in 1..Len(batch) : batch[i].id \in Word
    <3>1. \A i \in 1..Len(batch) : batch[i] \in NPiece
      BY <1>7
    <3> QED
      BY <3>1 DEF NPiece
  <2>2. \A i \in 1..Len(batch) : s[i] = [id |-> batch[i].id, text |-> batch[i].id]
    BY <1>8 DEF Translated
  <2>3. \A i \in 1..Len(batch) : s[i] \in Placing
    <3> HIDE DEF s
    <3>1. \A x \in Word : [id |-> x, text |-> x] \in Placing
      BY DEF Placing
    <3> QED
      BY ONLY <2>1, <2>2, <3>1
  <2>4. s \in Seq(Placing) /\ Len(s) = Len(batch)
    <3> DEFINE n == Len(batch)
    <3>1. n \in Nat /\ s = [i \in 1..n |-> s[i]] /\ \A i \in 1..n : s[i] \in Placing
      BY <1>7, <2>3 DEF Translated
    <3> HIDE DEF n, s
    <3>2. s \in Seq(Placing) /\ Len(s) = n
      BY ONLY <3>1
    <3> QED
      BY ONLY <3>2 DEF n
  <2> HIDE DEF s
  <2>5. ASSUME NEW i \in 1..Len(batch)
        PROVE  s[i].id = batch[1].id + i - 1 /\ s[i].text = batch[1].id + i - 1
    <3>1. batch[i].id = batch[1].id + i - 1
      BY ONLY <1>7
    <3>2. s[i] = [id |-> batch[i].id, text |-> batch[i].id]
      BY ONLY <2>2
    <3> QED
      BY ONLY <3>1, <3>2
  <2> QED
    BY ONLY <2>4, <2>5
<1> DEFINE o == q.out
           u == o \o s
<1> HIDE DEF s, o, texts
<1>11. /\ u \in Seq(Placing) /\ Len(u) = Len(q.out) + Len(s)
       /\ \A i \in 1..(Len(q.out) + Len(s)) : u[i] = IF i <= Len(q.out) THEN q.out[i] ELSE s[i - Len(q.out)]
  <2>1. o \in Seq(Placing)
    BY ONLY <1>9 DEF o
  <2>2. s \in Seq(Placing)
    BY ONLY <1>10
  <2>3. /\ u \in Seq(Placing) /\ Len(u) = Len(o) + Len(s)
        /\ \A i \in 1..(Len(o) + Len(s)) : u[i] = IF i <= Len(o) THEN o[i] ELSE s[i - Len(o)]
    BY ONLY <2>1, <2>2, ConcatProperties
  <2> HIDE DEF u
  <2> QED
    BY ONLY <2>3 DEF o
<1> HIDE DEF u
<1>12. ASSUME NEW i \in 1..Len(u)
       PROVE  u[i].id = i /\ u[i].text = i
  <2>1. Len(q.out) \in Nat /\ Len(batch) \in Nat /\ Len(s) = Len(batch) /\ batch[1].id = Len(q.out) + 1
    <3>1. Len(batch) \in Nat /\ batch[1].id \in Nat \ {0} /\ Len(s) = Len(batch)
      BY ONLY <1>7, <1>10 DEF Word
    <3>2. Len(q.out) = batch[1].id - 1
      BY ONLY <1>9
    <3> QED
      BY ONLY <3>1, <3>2
  <2>2. CASE i <= Len(q.out)
    <3>1. i \in 1..Len(q.out) /\ i \in 1..(Len(q.out) + Len(s))
      BY ONLY <1>11, <2>1, <2>2
    <3> QED
      BY <1>9, <1>11, <2>2, <3>1
  <2>3. CASE ~(i <= Len(q.out))
    <3>1. i - Len(q.out) \in 1..Len(batch) /\ i \in 1..(Len(q.out) + Len(s))
          /\ batch[1].id + (i - Len(q.out)) - 1 = i
      <4>1. i \in 1..(Len(q.out) + Len(s))
        BY ONLY <1>11
      <4> DEFINE a == Len(q.out)
                 b == Len(batch)
                 c == batch[1].id
      <4>2. a \in Nat /\ b \in Nat /\ c = a + 1 /\ i \in 1..(a + b) /\ ~(i <= a) /\ Len(s) = b
        BY <2>1, <2>3, <4>1
      <4> HIDE DEF a, b, c
      <4>3. i - a \in 1..b /\ i \in 1..(a + b) /\ c + (i - a) - 1 = i
        BY ONLY <4>2
      <4> QED
        BY <4>2, <4>3 DEF a, b, c
    <3>2. u[i] = s[i - Len(q.out)]
      BY <1>11, <2>3, <3>1
    <3> QED
      BY <1>10, <3>1, <3>2
  <2> QED
    BY <2>2, <2>3
<1>13. m + 1 < Len(calls) => Len(u) = calls[(m + 1) + 1][1].id - 1
  <2> SUFFICES ASSUME m + 1 < Len(calls)
               PROVE  Len(u) = calls[(m + 1) + 1][1].id - 1
    OBVIOUS
  <2>1. m + 1 \in 1..(Len(calls) - 1)
    BY <1>5, <1>6
  <2>2. calls[(m + 1) + 1][1].id = batch[1].id + Len(batch)
    <3>1. batch = calls[m + 1]
      BY DEF calls, m
    <3> QED
      BY <1>3, <2>1, <3>1 DEF Carry
  <2>3. Len(u) = Len(q.out) + Len(batch) /\ Len(q.out) = batch[1].id - 1
    BY <1>9, <1>10, <1>11
  <2>4. batch[1].id \in Nat /\ Len(batch) \in Nat
    BY <1>7 DEF Word
  <2> QED
    BY ONLY <2>2, <2>3, <2>4
<1>14. Progress(p)
  <2>1. m + 1 \in 0..Len(calls)
    BY <1>5, <1>6
  <2> HIDE DEF ReqFields
  <2>2. p.out = u
    BY <1>2 DEF u, o
  <2> QED
    BY <1>2, <1>11, <1>12, <1>13, <2>1, <2>2 DEF Progress
<1>15. Called(p)
  BY <1>1, <1>2 DEF Called, calls
<1>16. q.kind \in Kinds /\ q.engine \in {"openai", "deeplx"} /\ q.article \in Articles
      /\ (Whole(q.kind) <=> Len(q.article) > 1)
  BY DEF ReqOK
<1>17. "call" \in Stages
  BY DEF Stages
<1> HIDE DEF ReqFields, Kinds
<1>18. ReqOK(p)
  BY <1>2, <1>14, <1>15, <1>16, <1>17 DEF ReqOK
<1> QED
  BY <1>18

-----------------------------------------------------------------------------
(* The page is told of a text when its last chunk is there.                *)

\* Every piece is of a text that there is.
LEMMA OwnersBound ==
    ASSUME NEW ps \in Seq(NPiece), NEW n \in Nat, InTurn(ps, n)
    PROVE  \A i \in 1..Len(ps) : ps[i].owner \in Nat /\ ps[i].owner <= n
<1> DEFINE l == Len(ps)
           S == {j \in 0..(l - 1) : ps[l - j].owner <= n}
<1>1. l \in Nat /\ l # 0 /\ ps[l].owner = n /\ \A i \in 1..(l - 1) : ps[i + 1].owner \in {ps[i].owner, ps[i].owner + 1}
  <2>1. ps # <<>>
    BY DEF InTurn
  <2> QED
    BY <2>1 DEF InTurn
<1>2. \A i \in 1..l : ps[i].owner \in Nat
  <2>1. \A i \in 1..l : ps[i] \in NPiece
    OBVIOUS
  <2> QED
    BY <2>1 DEF NPiece
<1> HIDE DEF l
<1>3. 0 \in S
  <2>1. l - 0 = l /\ 0 \in 0..(l - 1)
    BY <1>1
  <2> QED
    BY <1>1, <2>1
<1>4. ASSUME NEW j \in 0..((l - 1) - 1), j \in S
      PROVE  j + 1 \in S
  <2> DEFINE i == l - (j + 1)
  <2>1. i \in 1..(l - 1) /\ i \in 1..l /\ i + 1 = l - j /\ j + 1 \in 0..(l - 1) /\ l - j \in 1..l
    BY <1>1
  <2>2. ps[l - j].owner <= n
    BY <1>4
  <2> HIDE DEF i
  <2>3. ps[i].owner \in Nat /\ ps[i + 1].owner <= n /\ ps[i + 1].owner \in {ps[i].owner, ps[i].owner + 1}
    BY <1>1, <1>2, <2>1, <2>2
  <2>4. ps[i].owner <= n
    BY ONLY <2>3
  <2> QED
    BY <2>1, <2>4 DEF i
<1>5. \A j \in 0..(l - 1) : j \in S
  <2> DEFINE m == l - 1
  <2>1. m \in Nat /\ 0 \in S /\ \A j \in 0..(m - 1) : j \in S => j + 1 \in S
    BY <1>1, <1>3, <1>4
  <2> HIDE DEF m, S
  <2>2. \A j \in 0..m : j \in S
    BY ONLY <1>1, <2>1, SetUpTo
  <2> QED
    BY <2>2 DEF m
<1>6. ASSUME NEW i \in 1..l
      PROVE  ps[i].owner <= n
  <2>1. l - i \in 0..(l - 1) /\ l - (l - i) = i
    BY <1>1
  <2> QED
    BY <1>5, <2>1
<1> QED
  BY <1>2, <1>6 DEF l

\* The calls of a progressive request.
LEMMA TextCalls ==
    ASSUME NEW q, ReqOK(q), q.at \in {"call", "answer"}, q.kind = "progressive"
    PROVE  LET ps == FlattenSeq(q.calls) n == Len(q.article) IN
           /\ ps \in Seq(NPiece) /\ Len(ps) = Len(q.calls) /\ Len(ps) \in Nat \ {0} /\ n \in Nat \ {0}
           /\ InTurn(ps, n) /\ q.made \in 0..Len(q.calls)
           /\ \A k \in 1..Len(ps) : /\ q.calls[k][1] = ps[k] /\ Len(q.calls[k]) = 1
                                    /\ ps[k].owner \in Nat /\ ps[k].owner <= n
<1> DEFINE ps == FlattenSeq(q.calls)
           n == Len(q.article)
<1>1. /\ InPlace(ps) /\ q.calls = Singles(ps) /\ InTurn(ps, n) /\ q.made \in 0..Len(q.calls)
      /\ q.article \in Articles
  BY DEF ReqOK, Called, Carries, TextByText, Progress
<1>2. n \in Nat \ {0}
  BY <1>1, ArticleTexts
<1> HIDE DEF ps, n
<1>3. Len(Singles(ps)) = Len(ps) /\ \A k \in 1..Len(ps) : Singles(ps)[k] = <<ps[k]>> /\ Len(Singles(ps)[k]) = 1
  BY <1>1, SinglesCarry
<1>4. ps \in Seq(NPiece) /\ Len(ps) \in Nat \ {0}
  <2>1. ps \in Seq(NPiece) /\ ps # <<>>
    BY <1>1 DEF InPlace
  <2> QED
    BY <2>1
<1>5. \A k \in 1..Len(ps) : ps[k].owner \in Nat /\ ps[k].owner <= n
  BY <1>1, <1>2, <1>4, OwnersBound
<1>6. \A k \in 1..Len(ps) : q.calls[k][1] = ps[k] /\ Len(q.calls[k]) = 1
  BY <1>1, <1>3
<1> QED
  BY <1>1, <1>2, <1>3, <1>4, <1>5, <1>6 DEF ps, n

\* A task that begins its calls has told that it started.
LEMMA WireBegins ==
    ASSUME NEW p, ReqOK(p), p.at = "call", p.made = 0, p.kind = "progressive", NEW w,
           DOMAIN w = WireFields, w.sent = <<<<"started">>>>, w.texts = Len(p.article)
    PROVE  WireOf(p, w)
<1> DEFINE ps == FlattenSeq(p.calls)
           n == Len(p.article)
<1>1. /\ Len(ps) = Len(p.calls) /\ Len(ps) \in Nat \ {0} /\ n \in Nat \ {0} /\ InTurn(ps, n)
      /\ \A k \in 1..Len(ps) : p.calls[k][1] = ps[k]
  BY TextCalls
<1> HIDE DEF ps, n
<1>2. 1 \in 1..Len(ps) /\ 0 # Len(p.calls) /\ 0 + 1 = 1
  BY ONLY <1>1
<1>3. p.calls[1][1].owner = 1
  BY <1>1, <1>2 DEF InTurn
<1>4. Done(p) = p.calls[0 + 1][1].owner - 1
  BY <1>2 DEF Done
<1>5. Done(p) = 0
  BY <1>2, <1>3, <1>4
<1>6. Begun(<<<<"started">>>>, n, 1)
  <2>1. Story(n)[1] = <<"started">>
    BY <1>1, StoryIs
  <2>2. <<"started">> \in Events
    BY DEF Events
  <2> DEFINE e == <<"started">>
  <2> HIDE DEF e
  <2>3. <<e>> \in Seq(Events) /\ Len(<<e>>) = 1 /\ \A i \in 1..1 : <<e>>[i] = Story(n)[i]
    BY <2>1, <2>2 DEF e
  <2> QED
    BY <2>3 DEF Begun, e
<1>7. w.texts = n /\ 0 \in 0..n /\ 0 + 1 = 1
  BY <1>1 DEF n
<1> QED
  BY <1>5, <1>6, <1>7 DEF WireOf, n

\* What is complete after one call more.
LEMMA TextDone ==
    ASSUME NEW q, ReqOK(q), q.at = "answer", q.kind = "progressive", NEW w, WireOf(q, w),
           NEW p, p.made = q.made + 1, p.calls = q.calls, p.article = q.article,
           NEW owner, owner = q.calls[q.made + 1][1].owner,
           NEW last \in BOOLEAN,
           last <=> (q.made + 1 = Len(q.calls) \/ q.calls[(q.made + 1) + 1][1].owner # owner)
    PROVE  /\ Done(q) \in 0..w.texts /\ w.texts = Len(q.article) /\ w.texts \in Nat
           /\ Begun(w.sent, w.texts, Done(q) + 1)
           /\ IF last THEN Done(p) = Done(q) + 1 /\ owner = Done(q) + 1 /\ owner \in 1..w.texts
              ELSE Done(p) = Done(q)
<1> DEFINE ps == FlattenSeq(q.calls)
           n == Len(q.article)
           m == q.made
           l == Len(ps)
<1>1. /\ l = Len(q.calls) /\ l \in Nat \ {0} /\ n \in Nat \ {0} /\ InTurn(ps, n) /\ m \in 0..l
      /\ \A k \in 1..l : q.calls[k][1] = ps[k] /\ ps[k].owner \in Nat /\ ps[k].owner <= n
  BY TextCalls
<1>2. m < l
  BY <1>1 DEF ReqOK, Progress
<1>3. w.texts = n /\ Done(q) \in 0..n /\ Begun(w.sent, w.texts, Done(q) + 1)
  BY DEF WireOf
<1>4. Done(q) = (IF m = l THEN n ELSE q.calls[m + 1][1].owner - 1)
      /\ Done(p) = (IF m + 1 = l THEN n ELSE q.calls[(m + 1) + 1][1].owner - 1)
  BY <1>1 DEF Done
<1>5. /\ ps[l].owner = n
      /\ \A i \in 1..(l - 1) : ps[i + 1].owner \in {ps[i].owner, ps[i].owner + 1}
  BY <1>1 DEF InTurn
<1>6. owner = q.calls[m + 1][1].owner /\ (last <=> (m + 1 = l \/ q.calls[(m + 1) + 1][1].owner # owner))
  BY <1>1
<1> HIDE DEF ps, n, m, l
<1>7. m + 1 \in 1..l /\ m # l /\ (m + 1 # l => m + 1 \in 1..(l - 1) /\ (m + 1) + 1 \in 1..l)
  BY ONLY <1>1, <1>2
<1>8. owner = ps[m + 1].owner /\ owner \in Nat /\ owner <= n /\ Done(q) = owner - 1
  BY <1>1, <1>4, <1>6, <1>7
<1>9. owner \in 1..n
  BY ONLY <1>1, <1>3, <1>8
<1>10. CASE m + 1 = l
  <2>1. last /\ Done(p) = n /\ owner = n
    BY <1>4, <1>5, <1>6, <1>8, <1>10
  <2> QED
    BY <1>1, <1>3, <1>8, <1>9, <2>1 DEF n
<1>11. CASE m + 1 # l
  <2> DEFINE after == ps[(m + 1) + 1].owner
  <2>1. q.calls[(m + 1) + 1][1].owner = after /\ after \in {owner, owner + 1} /\ Done(p) = after - 1
    BY <1>1, <1>4, <1>5, <1>7, <1>8, <1>11
  <2>2. last <=> after # owner
    BY <1>6, <1>11, <2>1
  <2> HIDE DEF after
  <2>3. CASE last
    <3>1. after = owner + 1 /\ Done(p) = after - 1
      BY ONLY <2>1, <2>2, <2>3
    <3> QED
      BY <1>1, <1>3, <1>8, <1>9, <2>3, <3>1 DEF n
  <2>4. CASE ~last
    <3>1. after = owner
      BY <2>2, <2>4
    <3> QED
      BY <1>1, <1>3, <1>8, <2>1, <2>4, <3>1 DEF n
  <2> QED
    BY <2>3, <2>4
<1> QED
  BY <1>10, <1>11

\* A relay hears of a text when its last piece is there.
LEMMA WireGoes ==
    ASSUME NEW q, ReqOK(q), q.at = "answer", q.kind = "progressive", NEW w, WireOf(q, w),
           NEW p, p.at = "call", p.made = q.made + 1, p.calls = q.calls, p.article = q.article,
           NEW owner, owner = q.calls[q.made + 1][1].owner,
           NEW last \in BOOLEAN,
           last <=> (q.made + 1 = Len(q.calls) \/ q.calls[(q.made + 1) + 1][1].owner # owner)
    PROVE  WireOf(p, IF last THEN [w EXCEPT !.sent = Append(@, <<"text", owner>>)] ELSE w)
<1> DEFINE n == w.texts
           done == Done(q)
<1>1. /\ done \in 0..n /\ n = Len(q.article) /\ n \in Nat /\ Begun(w.sent, n, done + 1)
      /\ IF last THEN Done(p) = done + 1 /\ owner = done + 1 /\ owner \in 1..n ELSE Done(p) = done
  BY TextDone
<1>2. DOMAIN w = WireFields
  BY DEF WireOf
<1>3. CASE last
  <2> DEFINE event == <<"text", owner>>
             v == [w EXCEPT !.sent = Append(@, event)]
  <2>1. event \in Events /\ event = Story(n)[owner + 1]
    <3>1. \A o \in 1..n : Story(n)[o + 1] = <<"text", o>>
      BY <1>1, StoryIs
    <3>2. owner \in Nat /\ owner \in 1..n
      BY <1>1, <1>3
    <3> QED
      BY <3>1, <3>2 DEF Events
  <2> HIDE DEF event
  <2>2. DOMAIN v = WireFields /\ v.sent = Append(w.sent, event) /\ v.texts = n
    BY <1>2, SentField
  <2> HIDE DEF v, done, n
  <2>3. owner = done + 1 /\ Done(p) = done + 1 /\ owner \in 0..n /\ owner \in Nat /\ done \in Nat /\ owner \in 0..(n + 1)
    BY <1>1, <1>3
  <2>4. Begun(Append(w.sent, event), n, owner + 1)
    <3> DEFINE s == w.sent
    <3> HIDE DEF s
    <3>1. Begun(s, n, owner)
      BY <1>1, <2>3 DEF s
    <3>2. Begun(Append(s, event), n, owner + 1)
      BY <1>1, <2>1, <2>3, <3>1, BegunNext
    <3> QED
      BY <3>2 DEF s
  <2>5. WireOf(p, v)
    BY <1>1, <2>2, <2>3, <2>4 DEF WireOf
  <2> QED
    BY <1>3, <2>5 DEF v, event
<1>4. CASE ~last
  <2>1. WireOf(p, w)
    BY <1>1, <1>2, <1>4 DEF WireOf
  <2> QED
    BY <1>4, <2>1
<1> QED
  BY <1>3, <1>4

\* A task that completes has told all texts.
LEMMA WireCompletes ==
    ASSUME NEW q, ReqOK(q), q.at = "call", q.made = Len(q.calls), NEW w, WireOf(q, w)
    PROVE  WireOK([w EXCEPT !.sent = Append(@, <<"completed">>)])
<1> DEFINE n == Len(q.article)
           event == <<"completed">>
           v == [w EXCEPT !.sent = Append(@, event)]
           s == w.sent
<1>1. q.article \in Articles
  BY DEF ReqOK
<1>2. n \in Nat
  BY <1>1, ArticleTexts
<1>3. DOMAIN w = WireFields /\ w.texts = n /\ Begun(w.sent, n, Done(q) + 1) /\ Done(q) = n
  BY DEF WireOf, Done
<1>4. event \in Events /\ event = Story(n)[n + 2] /\ event # <<"error">>
  <2>1. Story(n)[n + 2] = <<"completed">>
    BY <1>2, StoryIs
  <2> QED
    BY <2>1 DEF Events
<1> HIDE DEF event, n
<1>5. DOMAIN v = WireFields /\ v.sent = Append(s, event) /\ v.texts = n
  BY <1>3, SentField
<1> HIDE DEF v, s
<1>6. Begun(s, n, n + 1) /\ n + 1 \in 0..(n + 1) /\ (n + 1) + 1 = n + 2 /\ n + 2 \in 0..(n + 2)
  BY <1>2, <1>3 DEF s
<1>7. Begun(Append(s, event), n, n + 2)
  <2> DEFINE m == n + 1
  <2>1. m \in 0..(n + 1) /\ Begun(s, n, m) /\ event = Story(n)[m + 1] /\ m + 1 = n + 2
    BY <1>4, <1>6
  <2> HIDE DEF m
  <2>2. Begun(Append(s, event), n, m + 1)
    BY <1>2, <1>4, <2>1, BegunNext
  <2> QED
    BY <2>1, <2>2
<1>8. Told(Append(s, event), n)
  <2> DEFINE a == Append(s, event)
             m == n + 2
  <2>1. Begun(a, n, m) /\ m \in 0..(n + 2)
    BY <1>6, <1>7
  <2> HIDE DEF a, m
  <2>2. Told(a, n)
    BY <1>2, <2>1, BegunTold
  <2> QED
    BY <2>2 DEF a
<1>9. Append(s, event) \in Seq(Events)
  BY <1>7 DEF Begun
<1>10. WireOK(v)
  BY <1>2, <1>5, <1>8, <1>9 DEF WireOK
<1> QED
  BY <1>10 DEF v, event

-----------------------------------------------------------------------------
(* Every step of a request keeps its row.                                  *)

\* A step of one request: of both it and its relay, of it alone, of the relay alone.
LEMMA BothMove ==
    ASSUME RequestsInv, NEW r \in Requests, NEW p, NEW v,
           req' = [req EXCEPT ![r] = p], relay' = [relay EXCEPT ![r] = v], RowOK(p, v)
    PROVE  RequestsInv'
<1>1. req' = [s \in Requests |-> req'[s]] /\ relay' = [s \in Requests |-> relay'[s]]
      /\ req'[r] = p /\ relay'[r] = v
      /\ \A s \in Requests : s # r => req'[s] = req[s] /\ relay'[s] = relay[s]
  BY DEF RequestsInv
<1>2. ASSUME NEW s \in Requests
      PROVE  RowOK(req'[s], relay'[s])
  BY <1>1 DEF RequestsInv
<1> QED
  BY <1>1, <1>2 DEF RequestsInv

\* Of the request alone.
LEMMA ReqMoves ==
    ASSUME RequestsInv, NEW r \in Requests, NEW p, req' = [req EXCEPT ![r] = p], relay' = relay,
           p # None => ReqOK(p) /\ (p.kind = "progressive" => WireOf(p, relay[r]))
    PROVE  RequestsInv'
<1>1. RowOK(p, relay[r]) /\ relay' = [relay EXCEPT ![r] = relay[r]]
  BY DEF RequestsInv, RowOK
<1> QED
  BY <1>1, BothMove

\* Of the relay alone.
LEMMA RelayMoves ==
    ASSUME RequestsInv, NEW r \in Requests, NEW v, req' = req, relay' = [relay EXCEPT ![r] = v],
           RowOK(req[r], v)
    PROVE  RequestsInv'
<1>1. req' = [req EXCEPT ![r] = req[r]]
  BY DEF RequestsInv
<1> QED
  BY <1>1, BothMove

\* What is known of a request in progress.
LEMMA RowIs ==
    ASSUME RequestsInv, NEW r \in Requests
    PROVE  /\ Active(r) => ReqOK(req[r]) /\ (req[r].kind = "progressive" => WireOf(req[r], relay[r]))
           /\ relay[r] # None => WireOK(relay[r])
BY DEF RequestsInv, RowOK, Active

\* A request that ends leaves its channel, perhaps with an error.
LEMMA EndKeeps ==
    ASSUME RequestsInv, NEW r \in Requests, Active(r), NEW error, EndRequest(r, error)
    PROVE  RequestsInv'
<1> DEFINE q == req[r]
           w == relay[r]
           v == [w EXCEPT !.sent = Append(@, <<"error">>)]
<1>1. ReqOK(q) /\ (q.kind = "progressive" => WireOf(q, w)) /\ (w # None => WireOK(w))
  BY RowIs
<1>2. req' = [req EXCEPT ![r] = None]
  BY DEF EndRequest
<1>3. CASE error /\ q.kind = "progressive" /\ Heard(r)
  <2>1. relay' = [relay EXCEPT ![r] = v]
    BY <1>3 DEF EndRequest
  <2>2. WireOK(v)
    <3> HIDE DEF q, w
    <3> QED
      BY <1>1, <1>3, WireEnds
  <2>3. RowOK(None, v)
    BY <2>2 DEF RowOK
  <2> HIDE DEF v
  <2> QED
    BY <1>2, <2>1, <2>3, BothMove
<1>4. CASE ~(error /\ q.kind = "progressive" /\ Heard(r))
  <2>1. relay' = relay
    BY <1>4 DEF EndRequest
  <2> QED
    BY <1>2, <2>1, ReqMoves
<1> QED
  BY <1>3, <1>4

\* Begin.
LEMMA BeginKeeps ==
    ASSUME RequestsInv, NEW r \in Requests, NEW kind \in Kinds, Begin(r, kind)
    PROVE  RequestsInv'
<1> DEFINE p == [kind |-> kind, at |-> "settings", engine |-> None, url |-> None, live |-> FALSE,
                 article |-> <<>>, calls |-> <<>>, made |-> 0, out |-> <<>>]
           fresh == [sent |-> <<>>, heard |-> 0, reading |-> TRUE, texts |-> 0]
           v == IF kind = "progressive" THEN fresh ELSE None
<1>1. req' = [req EXCEPT ![r] = p] /\ relay' = [relay EXCEPT ![r] = v]
  BY DEF Begin
<1>2. ReqOK(p)
  <2>1. /\ DOMAIN p = ReqFields /\ p.kind \in Kinds /\ p.at = "settings" /\ p.made = 0 /\ p.out = <<>>
    BY DEF ReqFields
  <2>2. "settings" \in Stages
    BY DEF Stages
  <2> HIDE DEF p
  <2> QED
    BY <2>1, <2>2 DEF ReqOK
<1>3. DOMAIN fresh = WireFields /\ fresh.sent = <<>> /\ fresh.texts = 0
  BY DEF WireFields
<1>4. p.kind = kind /\ p.at = "settings"
  OBVIOUS
<1> HIDE DEF p, fresh
<1>5. WireOf(p, fresh)
  BY <1>3, <1>4 DEF WireOf
<1>6. WireOK(fresh)
  BY <1>2, <1>5, WireEnds
<1>7. RowOK(p, v)
  BY <1>2, <1>4, <1>5, <1>6 DEF RowOK
<1> HIDE DEF v
<1> QED
  BY <1>1, <1>7, BothMove

\* ReadSettings.
LEMMA SettingsReadKeeps ==
    ASSUME RequestsInv, SettingsInv, NEW r \in Requests, ReadSettings(r)
    PROVE  RequestsInv'
<1> DEFINE q == req[r]
<1>1. Active(r) /\ q.at = "settings"
  BY DEF ReadSettings, StandsAt
<1>2. ReqOK(q) /\ (q.kind = "progressive" => WireOf(q, relay[r])) /\ DOMAIN q = ReqFields
  BY <1>1, RowIs DEF ReqOK
<1>3. ASSUME NEW e \in {"openai", "deeplx"}, NEW u, NEW l, TakeSettings(r, e, u, l), relay' = relay
      PROVE  RequestsInv'
  <2> DEFINE p == [q EXCEPT !.at = "validate", !.engine = e, !.url = u, !.live = l]
  <2>1. req' = [req EXCEPT ![r] = p]
    BY <1>3 DEF TakeSettings
  <2> HIDE DEF q
  <2>2. /\ DOMAIN p = ReqFields /\ p.at = "validate" /\ p.kind = q.kind /\ p.engine = e
        /\ p.made = q.made /\ p.out = q.out
    BY <1>2 DEF ReqFields
  <2> HIDE DEF p
  <2>3. p.at \in Stages \ {"settings", "call", "answer"} /\ p.at \notin {"key", "cut"}
        /\ q.at \notin {"call", "answer"}
    BY <1>1, <2>2 DEF Stages
  <2>4. ReqOK(p) /\ \A w : WireOf(q, w) => WireOf(p, w)
    BY <1>2, <1>3, <2>2, <2>3, EarlyOK
  <2> QED
    BY <1>2, <1>3, <2>1, <2>2, <2>4, ReqMoves DEF q
<1>4. CASE q.kind = "test"
  <2>1. PICK e \in {"openai", "deeplx"}, u \in {"plain", "keyed"} : TakeSettings(r, e, u, FALSE)
    BY <1>4 DEF ReadSettings
  <2>2. relay' = relay
    BY <1>4 DEF ReadSettings
  <2> QED
    BY <1>3, <2>1, <2>2
<1>5. CASE q.kind # "test"
  <2>1. CASE settings # None /\ settings.on
    <3>1. TakeSettings(r, settings.engine, settings.url, settings.progressive) /\ relay' = relay
      BY <1>5, <2>1 DEF ReadSettings
    <3>2. settings.engine \in {"openai", "deeplx"}
      BY <2>1 DEF SettingsInv, Settings
    <3> QED
      BY <1>3, <3>1, <3>2
  <2>2. CASE ~(settings # None /\ settings.on)
    <3>1. EndRequest(r, TRUE)
      BY <1>5, <2>2 DEF ReadSettings
    <3> QED
      BY <1>1, <3>1, EndKeeps
  <2> QED
    BY <2>1, <2>2
<1> QED
  BY <1>4, <1>5

\* Validate.
LEMMA ValidateKeeps ==
    ASSUME RequestsInv, NEW r \in Requests, Validate(r)
    PROVE  RequestsInv'
<1> DEFINE q == req[r]
           p == [q EXCEPT !.at = "source"]
<1>1. Active(r) /\ q.at = "validate"
  BY DEF Validate, StandsAt
<1>2. ReqOK(q) /\ (q.kind = "progressive" => WireOf(q, relay[r])) /\ DOMAIN q = ReqFields
      /\ q.engine \in {"openai", "deeplx"}
  BY <1>1, RowIs DEF ReqOK
<1>3. CASE EndRequest(r, TRUE)
  BY <1>1, <1>3, EndKeeps
<1>4. CASE Go(r, "source") /\ relay' = relay
  <2>1. req' = [req EXCEPT ![r] = p]
    BY <1>4 DEF Go
  <2> HIDE DEF q
  <2>2. /\ DOMAIN p = ReqFields /\ p.at = "source" /\ p.kind = q.kind /\ p.engine = q.engine
        /\ p.made = q.made /\ p.out = q.out
    BY <1>2 DEF ReqFields
  <2> HIDE DEF p
  <2>3. p.at \in Stages \ {"settings", "call", "answer"} /\ p.at \notin {"key", "cut"}
        /\ q.at \notin {"call", "answer"}
    BY <1>1, <2>2 DEF Stages
  <2>4. ReqOK(p) /\ \A w : WireOf(q, w) => WireOf(p, w)
    BY <1>2, <2>2, <2>3, EarlyOK
  <2> QED
    BY <1>2, <1>4, <2>1, <2>2, <2>4, ReqMoves DEF q
<1> QED
  BY <1>3, <1>4 DEF Validate

\* ReadSource.
LEMMA SourceKeeps ==
    ASSUME RequestsInv, NEW r \in Requests, ReadSource(r)
    PROVE  RequestsInv'
<1> DEFINE q == req[r]
<1>1. Active(r) /\ q.at = "source"
  BY DEF ReadSource, StandsAt
<1>2. ReqOK(q) /\ (q.kind = "progressive" => WireOf(q, relay[r])) /\ DOMAIN q = ReqFields
      /\ q.engine \in {"openai", "deeplx"}
  BY <1>1, RowIs DEF ReqOK
<1>3. CASE EndRequest(r, TRUE)
  BY <1>1, <1>3, EndKeeps
<1>4. ASSUME q.kind = "progressive" => q.engine = "deeplx", NEW article \in Articles,
             Whole(q.kind) <=> Len(article) > 1,
             req' = [req EXCEPT ![r].at = IF req[r].engine = "deeplx" THEN "key" ELSE "cut",
                                ![r].article = article],
             relay' = relay
      PROVE  RequestsInv'
  <2> DEFINE x == IF q.engine = "deeplx" THEN "key" ELSE "cut"
             p == [q EXCEPT !.at = x, !.article = article]
  <2>1. req' = [req EXCEPT ![r] = p]
    BY <1>4
  <2> HIDE DEF q
  <2>2. /\ DOMAIN p = ReqFields /\ p.at = x /\ p.kind = q.kind /\ p.engine = q.engine
        /\ p.article = article /\ p.made = q.made /\ p.out = q.out
    <3> HIDE DEF x
    <3> QED
      BY <1>2 DEF ReqFields
  <2> HIDE DEF p
  <2>3. p.at \in Stages \ {"settings", "call", "answer"} /\ q.at \notin {"call", "answer"}
        /\ (p.at = "key" => p.engine = "deeplx")
        /\ (p.at = "cut" => p.engine = "openai" /\ p.kind # "progressive")
    BY <1>1, <1>2, <1>4, <2>2 DEF Stages
  <2>4. p.article \in Articles /\ (Whole(p.kind) <=> Len(p.article) > 1)
    BY <1>4, <2>2
  <2>5. ReqOK(p) /\ \A w : WireOf(q, w) => WireOf(p, w)
    BY <1>2, <2>2, <2>3, <2>4, EarlyOK
  <2> QED
    BY <1>2, <1>4, <2>1, <2>2, <2>5, ReqMoves DEF q
<1> QED
  BY <1>3, <1>4 DEF ReadSource

\* ReadKey.
LEMMA KeyKeeps ==
    ASSUME RequestsInv, NEW r \in Requests, NEW key \in BOOLEAN, ReadKey(r, key)
    PROVE  RequestsInv'
<1> DEFINE q == req[r]
           w == relay[r]
           calls == IF q.kind \in {"lookup", "test"} THEN Lone(q.article)
                    ELSE DeepLxCalls[q.article][IF key THEN AuthenticatedChunk ELSE AnonymousChunk]
           p == [q EXCEPT !.at = "call", !.calls = calls]
           v == [w EXCEPT !.sent = <<<<"started">>>>, !.texts = Len(q.article)]
<1>1. Active(r) /\ q.at = "key"
  BY DEF ReadKey, StandsAt
<1>2. ReqOK(q) /\ (q.kind = "progressive" => WireOf(q, w)) /\ DOMAIN q = ReqFields
  BY <1>1, RowIs DEF ReqOK
<1>3. CASE \E error \in BOOLEAN : EndRequest(r, error)
  BY <1>1, <1>3, EndKeeps
<1>4. CASE /\ BeginCalls(r, calls)
           /\ relay' = IF q.kind = "progressive"
                        THEN [relay EXCEPT ![r].sent = <<<<"started">>>>, ![r].texts = Len(q.article)]
                        ELSE relay
  <2>1. req' = [req EXCEPT ![r] = p]
    <3> HIDE DEF calls
    <3> QED
      BY <1>4 DEF BeginCalls
  <2>2. ReqOK(p) /\ p.at = "call" /\ p.made = 0 /\ p.kind = q.kind /\ p.article = q.article
    <3>1. /\ DOMAIN p = ReqFields /\ p.at = "call" /\ p.kind = q.kind /\ p.engine = q.engine
          /\ p.article = q.article /\ p.calls = calls /\ p.made = q.made /\ p.out = q.out
      <4> HIDE DEF calls, q
      <4> QED
        BY <1>2 DEF ReqFields
    <3> HIDE DEF p, q
    <3>2. Called(p)
      BY <1>1, <1>2, <3>1, KeyCalls
    <3> QED
      BY <1>1, <1>2, <3>1, <3>2, CallsOK
  <2>3. CASE q.kind = "progressive"
    <3>1. relay' = [relay EXCEPT ![r] = v]
      BY <1>4, <2>3
    <3>2. DOMAIN w = WireFields
      BY <1>2, <2>3 DEF WireOf
    <3>3. DOMAIN v = WireFields /\ v.sent = <<<<"started">>>> /\ v.texts = Len(q.article)
      <4> HIDE DEF q, w
      <4> QED
        BY <3>2 DEF WireFields
    <3> HIDE DEF p, v
    <3>4. WireOf(p, v)
      BY <2>2, <2>3, <3>3, WireBegins
    <3>5. RowOK(p, v)
      BY <2>2, <3>4, WireEnds DEF RowOK
    <3> QED
      BY <2>1, <3>1, <3>5, BothMove
  <2>4. CASE q.kind # "progressive"
    <3>1. relay' = relay
      BY <1>4, <2>4
    <3> HIDE DEF p
    <3> QED
      BY <2>1, <2>2, <2>4, <3>1, ReqMoves
  <2> QED
    BY <2>3, <2>4
<1>5. \/ EndRequest(r, TRUE) \/ EndRequest(r, FALSE)
      \/ /\ BeginCalls(r, calls)
         /\ relay' = IF q.kind = "progressive"
                      THEN [relay EXCEPT ![r].sent = <<<<"started">>>>, ![r].texts = Len(q.article)]
                      ELSE relay
  BY Zenon DEF ReadKey
<1> QED
  BY <1>3, <1>4, <1>5

\* Cut.
LEMMA CutKeeps ==
    ASSUME RequestsInv, NEW r \in Requests, Cut(r)
    PROVE  RequestsInv'
<1> DEFINE q == req[r]
           w == relay[r]
           calls == IF q.kind = "lookup" THEN Lone(q.article)
                    ELSE IF Whole(q.kind) THEN Batched[q.article] ELSE Singles(Pieced[q.article])
           p == [q EXCEPT !.at = "call", !.calls = calls]
<1>1. Active(r) /\ q.at = "cut"
  BY DEF Cut, StandsAt
<1>2. ReqOK(q) /\ (q.kind = "progressive" => WireOf(q, w)) /\ DOMAIN q = ReqFields /\ q.kind # "progressive"
  BY <1>1, RowIs DEF ReqOK
<1>3. CASE EndRequest(r, TRUE)
  BY <1>1, <1>3, EndKeeps
<1>4. CASE BeginCalls(r, calls) /\ relay' = relay
  <2>1. req' = [req EXCEPT ![r] = p]
    <3> HIDE DEF calls
    <3> QED
      BY <1>4 DEF BeginCalls
  <2>2. ReqOK(p) /\ p.kind = q.kind
    <3>1. /\ DOMAIN p = ReqFields /\ p.at = "call" /\ p.kind = q.kind /\ p.engine = q.engine
          /\ p.article = q.article /\ p.calls = calls /\ p.made = q.made /\ p.out = q.out
      <4> HIDE DEF calls, q
      <4> QED
        BY <1>2 DEF ReqFields
    <3> HIDE DEF p, q
    <3>2. Called(p)
      BY <1>1, <1>2, <3>1, CutCalls
    <3> QED
      BY <1>1, <1>2, <3>1, <3>2, CallsOK
  <2> HIDE DEF p
  <2> QED
    BY <1>2, <1>4, <2>1, <2>2, ReqMoves
<1>5. EndRequest(r, TRUE) \/ (BeginCalls(r, calls) /\ relay' = relay)
  BY Zenon DEF Cut, Singles
<1> QED
  BY <1>3, <1>4, <1>5

\* SendCall.
LEMMA SendKeeps ==
    ASSUME RequestsInv, NEW r \in Requests, SendCall(r)
    PROVE  RequestsInv'
<1> DEFINE q == req[r]
           w == relay[r]
           p == [q EXCEPT !.at = "answer"]
<1>1. Active(r) /\ q.at = "call" /\ q.made < Len(q.calls)
  BY DEF SendCall, StandsAt
<1>2. ReqOK(q) /\ (q.kind = "progressive" => WireOf(q, w)) /\ DOMAIN q = ReqFields
  BY <1>1, RowIs DEF ReqOK
<1>3. CASE EndRequest(r, TRUE)
  BY <1>1, <1>3, EndKeeps
<1>4. CASE Go(r, "answer") /\ relay' = relay
  <2>1. req' = [req EXCEPT ![r] = p]
    BY <1>4 DEF Go
  <2>2. /\ DOMAIN p = ReqFields /\ p.at = "answer" /\ p.kind = q.kind /\ p.engine = q.engine
        /\ p.article = q.article /\ p.calls = q.calls /\ p.made = q.made /\ p.out = q.out
    <3> HIDE DEF q
    <3> QED
      BY <1>2, AtField
  <2> HIDE DEF p, q, w
  <2>3. "answer" \in Stages
    BY DEF Stages
  <2>4. Called(q) /\ Progress(q) /\ q.kind \in Kinds /\ q.engine \in {"openai", "deeplx"}
        /\ q.article \in Articles /\ (Whole(q.kind) <=> Len(q.article) > 1)
    BY <1>1, <1>2 DEF ReqOK
  <2>5. Called(p)
    BY <2>2, <2>4 DEF Called
  <2>6. Progress(p)
    BY <1>1, <2>2, <2>4 DEF Progress
  <2>7. ReqOK(p)
    BY <2>2, <2>3, <2>4, <2>5, <2>6 DEF ReqOK
  <2>8. WireOf(q, w) => WireOf(p, w)
    <3>1. Done(p) = Done(q)
      BY <2>2 DEF Done
    <3> QED
      BY <1>1, <2>2, <3>1 DEF WireOf
  <2> QED
    BY <1>2, <1>4, <2>1, <2>2, <2>7, <2>8, ReqMoves DEF w
<1> QED
  BY <1>3, <1>4 DEF SendCall

\* ReceiveAnswer.
LEMMA ReceiveKeeps ==
    ASSUME RequestsInv, NEW r \in Requests, StandsAt(r, "answer"), NEW items, ReceiveAnswer(r, items)
    PROVE  RequestsInv'
<1> DEFINE q == req[r]
           w == relay[r]
           batch == q.calls[q.made + 1]
           texts == Placed(batch, items)
           progress == q.kind = "progressive" /\ EndsText(r)
           p == [q EXCEPT !.at = "call", !.made = @ + 1,
                          !.out = @ \o [i \in 1..Len(batch) |-> [id |-> batch[i].id, text |-> texts[i]]]]
           complete == Len(items) = Len(batch) /\ {items[i] : i \in 1..Len(items)} = Ids(batch)
<1>1. Active(r) /\ q.at = "answer"
  BY DEF StandsAt
<1>2. ReqOK(q) /\ (q.kind = "progressive" => WireOf(q, w)) /\ DOMAIN q = ReqFields
  BY <1>1, RowIs DEF ReqOK
<1>3. CASE EndRequest(r, TRUE) \/ EndRequest(r, FALSE)
  BY <1>1, <1>3, EndKeeps
<1>4. CASE /\ complete /\ req' = [req EXCEPT ![r] = p]
           /\ relay' = IF progress THEN Emit(r, <<"text", batch[1].owner>>) ELSE relay
  <2>1. AnswersTaken(items) = Ids(batch) /\ req' = [req EXCEPT ![r] = p]
    BY <1>4 DEF AnswersTaken
  <2>2. /\ DOMAIN p = ReqFields /\ p.at = "call" /\ p.kind = q.kind /\ p.engine = q.engine
        /\ p.article = q.article /\ p.calls = q.calls /\ p.made = q.made + 1
        /\ p.out = q.out \o Translated(batch, texts)
    <3> DEFINE s == [i \in 1..Len(batch) |-> [id |-> batch[i].id, text |-> texts[i]]]
    <3>1. s = Translated(batch, texts)
      BY DEF Translated
    <3>2. p = [q EXCEPT !.at = "call", !.made = @ + 1, !.out = @ \o s]
      OBVIOUS
    <3> HIDE DEF s, q, batch, texts, p
    <3> QED
      BY <1>2, <3>1, <3>2 DEF ReqFields
  <2> DEFINE owner == batch[1].owner
             last == q.made + 1 = Len(q.calls) \/ q.calls[(q.made + 1) + 1][1].owner # owner
             v == IF last THEN [w EXCEPT !.sent = Append(@, <<"text", owner>>)] ELSE w
  <2>3. last <=> EndsText(r)
    BY DEF EndsText
  <2>4. q.kind = "progressive" => relay' = [relay EXCEPT ![r] = v]
    <3> SUFFICES ASSUME q.kind = "progressive"
                 PROVE  relay' = [relay EXCEPT ![r] = v]
      OBVIOUS
    <3>1. CASE last
      <4>1. relay' = [relay EXCEPT ![r].sent = Append(@, <<"text", owner>>)]
        BY <1>4, <2>3, <3>1 DEF Emit
      <4> HIDE DEF owner, last
      <4> QED
        BY <3>1, <4>1
    <3>2. CASE ~last
      <4>1. relay' = relay
        BY <1>4, <2>3, <3>2
      <4> HIDE DEF owner, last
      <4> QED
        BY <3>2, <4>1 DEF RequestsInv
    <3> QED
      BY <3>1, <3>2
  <2>5. q.kind # "progressive" => relay' = relay
    BY <1>4
  <2>6. owner = q.calls[q.made + 1][1].owner /\ batch = q.calls[q.made + 1] /\ texts = Placed(batch, items)
        /\ (last <=> (q.made + 1 = Len(q.calls) \/ q.calls[(q.made + 1) + 1][1].owner # owner))
        /\ last \in BOOLEAN
    OBVIOUS
  <2> HIDE DEF q, p, batch, texts, w, owner, last
  <2>7. ReqOK(p) /\ p.at = "call" /\ p.made = q.made + 1 /\ p.kind = q.kind
        /\ p.article = q.article /\ p.calls = q.calls
    BY <1>1, <1>2, <2>1, <2>2, <2>6, AnswerOK
  <2>8. CASE q.kind = "progressive"
    <3>1. WireOf(p, v)
      BY <1>1, <1>2, <2>6, <2>7, <2>8, WireGoes
    <3> HIDE DEF v
    <3>2. RowOK(p, v)
      BY <2>7, <3>1, WireEnds DEF RowOK
    <3> QED
      BY <2>1, <2>4, <2>8, <3>2, BothMove
  <2>9. CASE q.kind # "progressive"
    BY <2>1, <2>5, <2>7, <2>9, ReqMoves
  <2> QED
    BY <2>8, <2>9
<1>5. \/ EndRequest(r, TRUE) \/ EndRequest(r, FALSE)
      \/ /\ complete /\ req' = [req EXCEPT ![r] = p]
         /\ relay' = IF progress THEN Emit(r, <<"text", batch[1].owner>>) ELSE relay
  BY Zenon DEF ReceiveAnswer
<1> QED
  BY <1>3, <1>4, <1>5

\* CompleteTranslation.
LEMMA CompleteKeeps ==
    ASSUME RequestsInv, NEW r \in Requests, CompleteTranslation(r)
    PROVE  RequestsInv'
<1> DEFINE q == req[r]
           w == relay[r]
           v == [w EXCEPT !.sent = Append(@, <<"completed">>)]
<1>1. Active(r) /\ q.at = "call" /\ q.made = Len(q.calls) /\ req' = [req EXCEPT ![r] = None]
  BY DEF CompleteTranslation, StandsAt
<1>2. ReqOK(q) /\ (q.kind = "progressive" => WireOf(q, w))
  BY <1>1, RowIs
<1>3. CASE q.kind = "progressive" /\ Heard(r)
  <2>1. relay' = [relay EXCEPT ![r] = v]
    BY <1>3 DEF CompleteTranslation, Emit
  <2>2. WireOK(v)
    <3> HIDE DEF q, w
    <3> QED
      BY <1>1, <1>2, <1>3, WireCompletes
  <2>3. RowOK(None, v)
    BY <2>2 DEF RowOK
  <2> HIDE DEF v
  <2> QED
    BY <1>1, <2>1, <2>3, BothMove
<1>4. CASE ~(q.kind = "progressive" /\ Heard(r))
  <2>1. relay' = relay
    BY <1>4 DEF CompleteTranslation
  <2> QED
    BY <1>1, <2>1, ReqMoves
<1> QED
  BY <1>3, <1>4

\* What a page does with its channel leaves what it was told.
LEMMA PageMoves ==
    ASSUME NEW q, NEW w, NEW v, RowOK(q, w), w # None, NEW x,
           v = [w EXCEPT !.heard = x] \/ v = [w EXCEPT !.reading = x]
    PROVE  RowOK(q, v)
<1>1. WireOK(w) /\ DOMAIN w = WireFields
  BY DEF RowOK, WireOK
<1>2. DOMAIN v = WireFields /\ v.sent = w.sent /\ v.texts = w.texts
  BY <1>1 DEF WireFields
<1>3. WireOK(v)
  BY <1>1, <1>2 DEF WireOK
<1>4. WireOf(q, w) => WireOf(q, v)
  BY <1>2 DEF WireOf
<1> QED
  BY <1>3, <1>4 DEF RowOK

\* Hear.
LEMMA HearKeeps ==
    ASSUME RequestsInv, NEW r \in Requests, Hear(r)
    PROVE  RequestsInv'
<1> DEFINE w == relay[r]
           x == w.heard + 1
           v == [w EXCEPT !.heard = x]
<1>1. w # None /\ req' = req /\ relay' = [relay EXCEPT ![r] = v]
  BY DEF Hear, Reading
<1>2. RowOK(req[r], w)
  BY DEF RequestsInv
<1> HIDE DEF w, x
<1>3. RowOK(req[r], v)
  BY <1>1, <1>2, PageMoves
<1> HIDE DEF v
<1> QED
  BY <1>1, <1>3, RelayMoves

\* Leave.
LEMMA LeaveRequestKeeps ==
    ASSUME RequestsInv, NEW r \in Requests, Leave(r)
    PROVE  RequestsInv'
<1> DEFINE w == relay[r]
           v == [w EXCEPT !.reading = FALSE]
<1>1. CASE w # None
  <2>1. w # None /\ req' = req /\ relay' = [relay EXCEPT ![r] = v]
    BY <1>1 DEF Leave
  <2>2. RowOK(req[r], w)
    BY DEF RequestsInv
  <2> HIDE DEF w
  <2>3. RowOK(req[r], v)
    BY <2>1, <2>2, PageMoves
  <2> HIDE DEF v
  <2> QED
    BY <2>1, <2>3, RelayMoves
<1>2. CASE w = None
  <2>1. req' = [req EXCEPT ![r] = None] /\ relay' = relay
    BY <1>2 DEF Leave
  <2> QED
    BY <2>1, ReqMoves
<1> QED
  BY <1>1, <1>2

-----------------------------------------------------------------------------
(* All of translations.                                                    *)

\* No request has begun.
LEMMA RequestsStart == TranslationInit => RequestsInv
BY DEF TranslationInit, RequestsInv, RowOK

\* No request moves.
LEMMA RequestsStay ==
    ASSUME RequestsInv, UNCHANGED <<req, relay>>
    PROVE  RequestsInv'
BY DEF RequestsInv

\* Serve, with every way a request ends.
LEMMA ServeKeeps ==
    ASSUME RequestsInv, SettingsInv, NEW r \in Requests, Serve(r)
    PROVE  RequestsInv'
<1>1. CASE Answered(r)
  <2>1. PICK items : StandsAt(r, "answer") /\ ReceiveAnswer(r, items)
    BY <1>1 DEF Answered
  <2> QED
    BY <2>1, ReceiveKeeps
<1>2. CASE CallFails(r)
  <2>1. Active(r) /\ EndRequest(r, TRUE)
    BY <1>2 DEF CallFails, StandsAt
  <2> QED
    BY <2>1, EndKeeps
<1>3. CASE TimesOut(r)
  <2>1. Active(r) /\ EndRequest(r, TRUE)
    BY <1>3 DEF TimesOut
  <2> QED
    BY <2>1, EndKeeps
<1>4. CASE \E key \in BOOLEAN : ReadKey(r, key)
  BY <1>4, KeyKeeps
<1>5. CASE ReadSettings(r) \/ Validate(r) \/ ReadSource(r)
  BY <1>5, SettingsReadKeeps, ValidateKeeps, SourceKeeps
<1>6. CASE Cut(r) \/ SendCall(r) \/ CompleteTranslation(r)
  BY <1>6, CutKeeps, SendKeeps, CompleteKeeps
<1> QED
  BY <1>1, <1>2, <1>3, <1>4, <1>5, <1>6 DEF Serve

\* Every step of translations keeps what is so of the requests.
LEMMA RequestsKept == SettingsInv /\ RequestsInv /\ [TranslationNext]_translationVars => RequestsInv'
<1> SUFFICES ASSUME SettingsInv, RequestsInv, [TranslationNext]_translationVars
             PROVE  RequestsInv'
  OBVIOUS
<1>1. CASE UNCHANGED translationVars \/ Upheaval
  <2>1. UNCHANGED <<req, relay>>
    BY <1>1 DEF translationVars, Upheaval
  <2> QED
    BY <2>1, RequestsStay
<1>2. ASSUME NEW c \in SettingsPages,
             \/ ShowSettings(c) \/ ReadStored(c) \/ WriteSettings(c) \/ AnswerSave(c) \/ AbandonSave(c)
             \/ \E draft \in Drafts, key \in {"keep", "clear", "set"}, second \in BOOLEAN :
                    BeginSave(c, draft, key, second)
      PROVE  RequestsInv'
  <2>1. UNCHANGED <<req, relay>>
    BY <1>2 DEF ShowSettings, ReadStored, WriteSettings, AnswerSave, AbandonSave, BeginSave
  <2> QED
    BY <2>1, RequestsStay
<1>3. ASSUME NEW r \in Requests,
             \/ \E kind \in {"entry", "progressive", "text", "lookup", "test"} : Begin(r, kind)
             \/ Serve(r) \/ Hear(r) \/ Leave(r)
      PROVE  RequestsInv'
  <2>1. CASE \E kind \in {"entry", "progressive", "text", "lookup", "test"} : Begin(r, kind)
    BY <2>1, BeginKeeps DEF Kinds
  <2> QED
    BY <1>3, <2>1, ServeKeeps, HearKeeps, LeaveRequestKeeps
<1> QED
  BY <1>1, <1>2, <1>3 DEF TranslationNext

\* What the runs check of requests and relays follows.
LEMMA RequestsGive == RequestsInv => ArticleIsItsOwn /\ CutsFit /\ StreamsInOrder
<1> SUFFICES ASSUME RequestsInv
             PROVE  ArticleIsItsOwn /\ CutsFit /\ StreamsInOrder
  OBVIOUS
<1>1. ArticleIsItsOwn
  <2>1. ASSUME NEW r \in Requests, Active(r), req[r].at \in {"call", "answer"}, NEW i \in 1..Len(req[r].out)
        PROVE  req[r].out[i].id = i /\ req[r].out[i].text = i
    <3>1. ReqOK(req[r])
      BY <2>1, RowIs
    <3>2. Progress(req[r])
      BY <2>1, <3>1 DEF ReqOK
    <3> QED
      BY <3>2 DEF Progress
  <2> QED
    BY <2>1 DEF ArticleIsItsOwn
<1>2. CutsFit
  <2>1. ASSUME NEW r \in Requests, StandsAt(r, "call")
        PROVE  Called(req[r])
    <3>1. ReqOK(req[r]) /\ req[r].at \in {"call", "answer"}
      BY <2>1, RowIs DEF StandsAt
    <3> QED
      BY <3>1 DEF ReqOK
  <2>2. ASSUME NEW r \in Requests, StandsAt(r, "call"), NEW o \in 1..Len(req[r].article)
        PROVE  Total([i \in 1..Len(FlattenSeq(req[r].calls)) |->
                         IF FlattenSeq(req[r].calls)[i].owner = o THEN FlattenSeq(req[r].calls)[i].letters ELSE 0])
                 = IF req[r].engine = "openai" /\ req[r].kind # "lookup"
                   THEN Length(req[r].article[o]) ELSE Letters(req[r].article[o])
    BY <2>1, <2>2 DEF Called, HasTexts, OwnLetters, Content
  <2>3. ASSUME NEW r \in Requests, StandsAt(r, "call"), req[r].kind \notin {"lookup", "test"},
               NEW i \in 1..Len(req[r].calls)
        PROVE  SizeOf(req[r].calls[i]) <= IF req[r].engine = "openai" THEN SourceLimit ELSE AuthenticatedChunk
    BY <2>1, <2>3 DEF Called, Fits
  <2> QED
    BY <2>2, <2>3 DEF CutsFit
<1>3. StreamsInOrder
  <2>1. ASSUME NEW r \in Requests, relay[r] # None
        PROVE  Told(relay[r].sent, relay[r].texts)
    BY <2>1, RowIs DEF WireOK
  <2> QED
    BY <2>1 DEF StreamsInOrder, Told, Story
<1> QED
  BY <1>1, <1>2, <1>3
================================================================================
