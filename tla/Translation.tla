------------------------------ MODULE Translation ------------------------------
(***************************************************************************)
(* Translations of articles and selected text for one user, and the        *)
(* settings they follow.  translation/repository.rs, translation/service.rs,*)
(* translation/openai.rs, translation/deeplx.rs and api/translation.rs.    *)
(*                                                                         *)
(* A request takes a permit of its user and a shared one, reads the        *)
(* settings, the article and the credential in reads of their own, cuts    *)
(* the article into calls and puts the answers together.  A progressive    *)
(* request runs in a task and tells the page of every text it finishes     *)
(* through a channel that it never waits for.                              *)
(*                                                                         *)
(* A text is the sequence of the lengths of its words.                     *)
(***************************************************************************)
EXTENDS Integers, Sequences, FiniteSets, SequencesExt, Absence

CONSTANTS
    Requests,         \* requests of the user at a time
    SettingsPages,    \* pages that edit the settings
    Drafts,           \* what they may save
    Texts,            \* texts a title, a segment or a selection may be
    MaxSegments,      \* bound; 2048 in the code
    GlobalPermits,    \* 4 translations at once
    ChannelCapacity,  \* 8 events
    AnonymousChunk, AuthenticatedChunk, \* 1350 and 3500 characters
    MaxArticleCalls,  \* 48 calls of DeepLX, 128 batches
    SourceLimit,      \* units of one call of a provider
    MaxBatchSegments, \* 24
    MaxSettingsRevision, MaxUpheavals \* bounds: saves, and changes around a request

ASSUME TranslationAssumption ==
    /\ {MaxSegments, GlobalPermits, ChannelCapacity, AnonymousChunk, AuthenticatedChunk,
        MaxArticleCalls, SourceLimit, MaxBatchSegments, MaxSettingsRevision, MaxUpheavals} \subseteq Nat
    /\ Drafts \subseteq [engine: {"openai", "deeplx"}, on: BOOLEAN, url: {"plain", "keyed"}, progressive: BOOLEAN]
    /\ 0 \notin {AnonymousChunk, AuthenticatedChunk, SourceLimit, MaxBatchSegments}
    /\ AnonymousChunk <= AuthenticatedChunk
    \* What is trimmed and not blank has a word, and no word is empty.
    /\ Texts \subseteq Seq(Nat \ {0}) \ {<<>>}

VARIABLES
    settings,  \* the row of the user
    leaf,      \* the settings a page shows
    save,      \* what its request has done
    backend,   \* what a read of the selected provider finds (Providers)
    others,    \* shared permits that other users hold
    upheavals, \* how often the provider or the permits of others changed
    req,       \* requests in progress
    relay     \* the channel and the page of a progressive request

translationVars == <<settings, leaf, save, backend, others, upheavals, req, relay>>

-------------------------------------------------------------------------------
(* Settings: a page names the revision it shows; absent settings have none. *)

RevisionOf(row) == IF row = None THEN None ELSE row.revision
NoSave == [at |-> "none"]

ShowSettings(c) ==
    /\ save[c] = NoSave
    /\ leaf' = [leaf EXCEPT ![c] = [row |-> settings]]
    /\ UNCHANGED <<settings, save, backend, others, upheavals, req, relay>>

\* The second version of the interface keeps the stored progressive mode, which
\* is on by default, and reads it before the save does.
BeginSave(c, draft, key, second) ==
    /\ leaf[c] # None /\ save[c] = NoSave
    /\ second => draft.progressive = IF settings = None THEN TRUE ELSE settings.progressive
    /\ draft.on /\ draft.engine = "openai" => backend = "ready"
    /\ save' = [save EXCEPT ![c] = [at |-> "read", draft |-> draft, key |-> key]]
    /\ UNCHANGED <<settings, leaf, backend, others, upheavals, req, relay>>

KeyAfter(key) ==
    CASE key = "keep" -> settings # None /\ settings.key
      [] key = "clear" -> FALSE
      [] key = "set" -> TRUE

\* DeepLX cannot be switched on when its address needs a key that is not there.
Usable(draft, key) == draft.on /\ draft.engine = "deeplx" /\ draft.url = "keyed" => key

SeenBy(c) == RevisionOf(settings) = RevisionOf(leaf[c].row)

ReadStored(c) ==
    /\ save[c].at = "read"
    /\ LET draft == save[c].draft key == KeyAfter(save[c].key) IN
       save' = [save EXCEPT ![c] =
           IF Usable(draft, key) /\ SeenBy(c)
           THEN [at |-> "write", row |-> [draft |-> draft, key |-> key, revision |->
                     IF settings = None THEN 0 ELSE settings.revision + 1]]
           ELSE NoSave]
    /\ UNCHANGED <<settings, leaf, backend, others, upheavals, req, relay>>

\* Mutant: the update has no condition on the revision.
StillThere(c) == settings # None \/ save[c].row.revision = 0
\* An insertion needs the row to be absent, an update the revision that was read.
StillAsRead(c) ==
    IF settings = None THEN save[c].row.revision = 0
    ELSE save[c].row.revision = settings.revision + 1

Stored(row) == [engine |-> row.draft.engine, on |-> row.draft.on, url |-> row.draft.url,
                progressive |-> row.draft.progressive, key |-> row.key, revision |-> row.revision]

WriteSettings(c) ==
    /\ save[c].at = "write" /\ save[c].row.revision <= MaxSettingsRevision
    /\ IF StillAsRead(c)
       THEN settings' = Stored(save[c].row) /\ save' = [save EXCEPT ![c] = [at |-> "answer"]]
       ELSE UNCHANGED settings /\ save' = [save EXCEPT ![c] = NoSave]
    /\ UNCHANGED <<leaf, backend, others, upheavals, req, relay>>

\* The answer is read again and may be what somebody saved since.
AnswerSave(c) ==
    /\ save[c].at = "answer"
    /\ save' = [save EXCEPT ![c] = NoSave]
    /\ leaf' = [leaf EXCEPT ![c] = [row |-> settings]]
    /\ UNCHANGED <<settings, backend, others, upheavals, req, relay>>

AbandonSave(c) ==
    /\ save[c] # NoSave
    /\ save' = [save EXCEPT ![c] = NoSave]
    /\ UNCHANGED <<settings, leaf, backend, others, upheavals, req, relay>>

-------------------------------------------------------------------------------
(* How a text and an article are cut.                                      *)

Total(numbers) == FoldLeft(LAMBDA sum, number : sum + number, 0, numbers)

\* A text has a space between its words.
Letters(text) == Total(text)
Length(text) == Total(text) + Len(text) - 1

Pieces(size, limit) ==
    [i \in 1..((size + limit - 1) \div limit) |-> IF i * limit <= size THEN limit ELSE size % limit]

\* chunk_text: words go into the current chunk while they fit; one that is too
\* long by itself is cut, and its rest begins the next chunk.
AddWord(limit, cut, word) ==
    LET open == cut.rest # <<>>
        \* the words so far, with the space before the next one
        filled == IF open THEN Length(cut.rest) + 1 ELSE 0
        closed == IF open THEN Append(cut.chunks, cut.rest) ELSE cut.chunks
        whole == [i \in 1..(word \div limit) |-> <<limit>>]
    IN IF filled + word <= limit THEN [cut EXCEPT !.rest = Append(@, word)]
       ELSE IF word <= limit THEN [chunks |-> closed, rest |-> <<word>>]
       ELSE [chunks |-> closed \o whole,
             rest |-> IF word % limit = 0 THEN <<>> ELSE <<word % limit>>]

Chunks(text, limit) ==
    LET cut == FoldLeft(LAMBDA c, word : AddWord(limit, c, word), [chunks |-> <<>>, rest |-> <<>>], text)
    IN IF cut.rest = <<>> THEN cut.chunks ELSE Append(cut.chunks, cut.rest)

\* The pieces of all texts, each with the text that owns it, numbered through.
Number(pieces) == [i \in 1..Len(pieces) |->
    [id |-> i, owner |-> pieces[i].owner, size |-> pieces[i].size, letters |-> pieces[i].letters]]

\* A call of DeepLX translates one chunk of one text.
ChunkCalls(article, limit) ==
    LET pieces == Number(FlattenSeq([o \in 1..Len(article) |->
                      LET chunks == Chunks(article[o], limit)
                      IN [i \in 1..Len(chunks) |->
                             [owner |-> o, size |-> Length(chunks[i]), letters |-> Letters(chunks[i])]]]))
    IN [i \in 1..Len(pieces) |-> <<pieces[i]>>]

\* fragment_source_segments: here a piece keeps its spaces.
Fragments(article) ==
    Number(FlattenSeq([o \in 1..Len(article) |->
        LET pieces == Pieces(Length(article[o]), SourceLimit)
        IN [i \in 1..Len(pieces) |-> [owner |-> o, size |-> pieces[i], letters |-> pieces[i]]]]))

SizeOf(batch) == Total([i \in 1..Len(batch) |-> batch[i].size])

\* batch_source_segments
AddFragment(batches, fragment) ==
    LET last == batches[Len(batches)] IN
    IF Len(last) < MaxBatchSegments /\ SizeOf(last) + fragment.size <= SourceLimit
    THEN [batches EXCEPT ![Len(batches)] = Append(@, fragment)]
    ELSE Append(batches, <<fragment>>)

InBatches(fragments) == FoldLeft(AddFragment, <<<<Head(fragments)>>>>, Tail(fragments))

\* Every article and selection, and how each is cut.
Articles == UNION {[1..n -> Texts] : n \in 1..(MaxSegments + 1)}
DeepLxCalls == [article \in Articles |->
                   [limit \in {AnonymousChunk, AuthenticatedChunk} |-> ChunkCalls(article, limit)]]
Pieced == [article \in Articles |-> Fragments(article)]
Batched == [article \in Articles |-> InBatches(Pieced[article])]

-------------------------------------------------------------------------------
(* Requests.                                                               *)

Active(r) == req[r] # None
StandsAt(r, at) == Active(r) /\ req[r].at = at
Go(r, at) == req' = [req EXCEPT ![r].at = at]
Held == Cardinality({r \in Requests : Active(r)})
Reading(r) == IF relay[r] = None THEN FALSE ELSE relay[r].reading
Unheard(r) == Len(relay[r].sent) - relay[r].heard

\* Only a progressive request has anybody to hear it.
Heard(r) == req[r].kind = "progressive" => Reading(r) /\ Unheard(r) < ChannelCapacity

\* A task that ends sends its error, if it has one, unless the channel is full
\* or the page has left; then both permits go.
EndRequest(r, error) ==
    /\ req' = [req EXCEPT ![r] = None]
    /\ relay' = IF error /\ req[r].kind = "progressive" /\ Heard(r)
                 THEN [relay EXCEPT ![r].sent = Append(@, <<"error">>)] ELSE relay

\* acquire_translation_permits: one of the user and one of all, or none.
Permitted == Held < 1 /\ Held + others < GlobalPermits

Begin(r, kind) ==
    /\ ~Active(r) /\ ~Reading(r)
    /\ Permitted
    /\ req' = [req EXCEPT ![r] =
           [kind |-> kind, at |-> "settings", engine |-> None, url |-> None, live |-> FALSE,
            article |-> <<>>, calls |-> <<>>, made |-> 0, out |-> <<>>]]
    /\ relay' = [relay EXCEPT ![r] =
           IF kind = "progressive" THEN [sent |-> <<>>, heard |-> 0, reading |-> TRUE, texts |-> 0] ELSE None]
    /\ UNCHANGED <<settings, leaf, save, backend, others, upheavals>>

TakeSettings(r, engine, url, live) ==
    req' = [req EXCEPT ![r].at = "validate", ![r].engine = engine, ![r].url = url, ![r].live = live]

\* enabled_config, up to its look at the provider.  A test has a draft instead.
ReadSettings(r) ==
    /\ StandsAt(r, "settings")
    /\ IF req[r].kind = "test"
       THEN /\ \E engine \in {"openai", "deeplx"}, url \in {"plain", "keyed"} :
                  TakeSettings(r, engine, url, FALSE)
            /\ UNCHANGED relay
       ELSE IF settings # None /\ settings.on
       THEN TakeSettings(r, settings.engine, settings.url, settings.progressive) /\ UNCHANGED relay
       ELSE EndRequest(r, TRUE)
    /\ UNCHANGED <<settings, leaf, save, backend, others, upheavals>>

Validate(r) ==
    /\ StandsAt(r, "validate")
    /\ IF req[r].engine = "openai" /\ backend # "ready"
       THEN EndRequest(r, TRUE)
       ELSE Go(r, "source") /\ UNCHANGED relay
    /\ UNCHANGED <<settings, leaf, save, backend, others, upheavals>>

Whole(kind) == kind \in {"entry", "progressive"}

\* The article as it is now, or the selection.  An article nobody may read any
\* more, or one without text, ends the request; a progressive one needs DeepLX
\* and the progressive mode.
ReadSource(r) ==
    /\ StandsAt(r, "source")
    /\ \/ /\ req[r].kind = "progressive" => req[r].engine = "deeplx" /\ req[r].live
          /\ \E article \in Articles :
                /\ Whole(req[r].kind) <=> Len(article) > 1
                /\ req' = [req EXCEPT ![r].at = IF req[r].engine = "deeplx" THEN "key" ELSE "cut",
                                      ![r].article = article]
          /\ UNCHANGED relay
       \/ /\ Whole(req[r].kind)
          /\ EndRequest(r, TRUE)
    /\ UNCHANGED <<settings, leaf, save, backend, others, upheavals>>

\* emit_progress: a full channel or a page that left ends the task, silently.
Emit(r, event) == [relay EXCEPT ![r].sent = Append(@, event)]

BeginCalls(r, calls) == req' = [req EXCEPT ![r].at = "call", ![r].calls = calls]

Lone(article) == <<<<[id |-> 1, owner |-> 1, size |-> Length(article[1]), letters |-> Letters(article[1])]>>>>

\* The key is read after the settings, from the row as it is by then.  A test may
\* bring its own or none.  A lookup and a test are not cut, nor counted.
ReadKey(r, key) ==
    /\ StandsAt(r, "key")
    /\ \/ key = (settings # None /\ settings.key)
       \/ req[r].kind = "test"
    /\ LET calls == IF req[r].kind \in {"lookup", "test"} THEN Lone(req[r].article)
                    ELSE DeepLxCalls[req[r].article][IF key THEN AuthenticatedChunk ELSE AnonymousChunk]
       IN IF (req[r].url = "keyed" => key) /\ (Whole(req[r].kind) => Len(calls) <= MaxArticleCalls)
          THEN IF ~Heard(r) THEN EndRequest(r, FALSE)
               ELSE /\ BeginCalls(r, calls)
                    /\ relay' = IF req[r].kind = "progressive"
                                 THEN [relay EXCEPT ![r].sent = <<<<"started">>>>,
                                                     ![r].texts = Len(req[r].article)]
                                 ELSE relay
          ELSE EndRequest(r, TRUE)
    /\ UNCHANGED <<settings, leaf, save, backend, others, upheavals>>

\* An article reads the provider once more, for the limits of its policy.
Cut(r) ==
    /\ StandsAt(r, "cut")
    /\ LET fragments == Pieced[req[r].article]
           calls == IF req[r].kind = "lookup" THEN Lone(req[r].article)
                    ELSE IF Whole(req[r].kind) THEN Batched[req[r].article]
                    ELSE [i \in 1..Len(fragments) |-> <<fragments[i]>>]
       IN IF (Whole(req[r].kind) => backend # "gone") /\ Len(calls) <= MaxArticleCalls
          THEN BeginCalls(r, calls) /\ UNCHANGED relay
          ELSE EndRequest(r, TRUE)
    /\ UNCHANGED <<settings, leaf, save, backend, others, upheavals>>

\* Every batch of an article, and the first call of anything else, reads the
\* provider anew, with its credential.
SendCall(r) ==
    /\ StandsAt(r, "call") /\ req[r].made < Len(req[r].calls)
    /\ IF /\ req[r].engine = "openai" /\ (Whole(req[r].kind) \/ req[r].made = 0)
          /\ backend # "ready"
       THEN EndRequest(r, TRUE)
       ELSE Go(r, "answer") /\ UNCHANGED relay
    /\ UNCHANGED <<settings, leaf, save, backend, others, upheavals>>

\* What a provider may answer to a batch: the ids it was asked about in any
\* order, some of them twice, others it was not asked about, or fewer.  The
\* translation of a fragment is written as its id.
Ids(batch) == {batch[i].id : i \in 1..Len(batch)}
BatchAnswers(batch) == UNION {[1..n -> Ids(batch) \cup {0}] : n \in {Len(batch), Len(batch) - 1}}

\* Mutant: answers are taken in the order they come.
PlacedInOrder(batch, items) == [i \in 1..Len(batch) |-> items[i]]
\* ordered_batch_translations
Placed(batch, items) == [i \in 1..Len(batch) |-> items[CHOOSE k \in 1..Len(items) : items[k] = batch[i].id]]

EndsText(r) ==
    LET call == req[r].made + 1
        owner == req[r].calls[call][1].owner
    IN call = Len(req[r].calls) \/ req[r].calls[call + 1][1].owner # owner

ReceiveAnswer(r, items) ==
    LET batch == req[r].calls[req[r].made + 1]
        complete == Len(items) = Len(batch) /\ {items[i] : i \in 1..Len(items)} = Ids(batch)
        texts == Placed(batch, items)
        progress == req[r].kind = "progressive" /\ EndsText(r)
    IN IF ~complete THEN EndRequest(r, TRUE)
       ELSE IF progress /\ ~Heard(r) THEN EndRequest(r, FALSE)
       ELSE /\ req' = [req EXCEPT
                   ![r].at = "call", ![r].made = @ + 1,
                   ![r].out = @ \o [i \in 1..Len(batch) |-> [id |-> batch[i].id, text |-> texts[i]]]]
            /\ relay' = IF progress THEN Emit(r, <<"text", batch[1].owner>>) ELSE relay

Answered(r) ==
    /\ StandsAt(r, "answer")
    /\ LET batch == req[r].calls[req[r].made + 1] IN
       \E items \in IF req[r].engine = "openai" THEN BatchAnswers(batch) ELSE {<<batch[1].id>>} :
           ReceiveAnswer(r, items)
    /\ UNCHANGED <<settings, leaf, save, backend, others, upheavals>>

\* The provider refuses, is cut short or answers nonsense.
CallFails(r) ==
    /\ StandsAt(r, "answer")
    /\ EndRequest(r, TRUE)
    /\ UNCHANGED <<settings, leaf, save, backend, others, upheavals>>

\* Mutant: only translations have a time limit, calls have none.
OnlyWhole(r) == req[r].kind \notin {"lookup", "test"}
\* 45 seconds for a call, 300 for a translation.
Limited(r) == req[r].at = "answer" \/ req[r].kind \notin {"lookup", "test"}

TimesOut(r) ==
    /\ Active(r) /\ Limited(r)
    /\ EndRequest(r, TRUE)
    /\ UNCHANGED <<settings, leaf, save, backend, others, upheavals>>

\* The answer of the request, or the last event of its relay.
CompleteTranslation(r) ==
    /\ StandsAt(r, "call") /\ req[r].made = Len(req[r].calls)
    /\ req' = [req EXCEPT ![r] = None]
    /\ relay' = IF req[r].kind = "progressive" /\ Heard(r) THEN Emit(r, <<"completed">>) ELSE relay
    /\ UNCHANGED <<settings, leaf, save, backend, others, upheavals>>

\* A reading page takes the next event; one that leaves drops the channel, and
\* with it the handler of a request that is not progressive.
Hear(r) ==
    /\ Reading(r) /\ Unheard(r) > 0
    /\ relay' = [relay EXCEPT ![r].heard = @ + 1]
    /\ UNCHANGED <<settings, leaf, save, backend, others, upheavals, req>>

Leave(r) ==
    /\ IF relay[r] # None
       THEN /\ relay[r].reading
            /\ relay' = [relay EXCEPT ![r].reading = FALSE] /\ UNCHANGED req
       ELSE /\ Active(r)
            /\ req' = [req EXCEPT ![r] = None] /\ UNCHANGED relay
    /\ UNCHANGED <<settings, leaf, save, backend, others, upheavals>>

-------------------------------------------------------------------------------
(* Around them: the provider is edited, other users translate.             *)

Upheaval ==
    /\ upheavals < MaxUpheavals
    /\ upheavals' = upheavals + 1
    /\ \/ backend' \in {"ready", "unusable", "gone"} \ {backend} /\ UNCHANGED others
       \/ others' \in 0..(GlobalPermits - Held) \ {others} /\ UNCHANGED backend
    /\ UNCHANGED <<settings, leaf, save, req, relay>>

TranslationInit ==
    /\ settings = None /\ leaf = [c \in SettingsPages |-> None] /\ save = [c \in SettingsPages |-> NoSave]
    /\ backend = "ready" /\ others = 0 /\ upheavals = 0
    /\ req = [r \in Requests |-> None] /\ relay = [r \in Requests |-> None]

Serve(r) ==
    \/ ReadSettings(r) \/ Validate(r) \/ ReadSource(r) \/ Cut(r)
    \/ \E key \in BOOLEAN : ReadKey(r, key)
    \/ SendCall(r) \/ Answered(r) \/ CallFails(r) \/ TimesOut(r) \/ CompleteTranslation(r)

TranslationNext ==
    \/ \E c \in SettingsPages :
          \/ ShowSettings(c) \/ ReadStored(c) \/ WriteSettings(c) \/ AnswerSave(c) \/ AbandonSave(c)
          \/ \E draft \in Drafts, key \in {"keep", "clear", "set"}, second \in BOOLEAN :
                 BeginSave(c, draft, key, second)
    \/ \E r \in Requests :
          \/ \E kind \in {"entry", "progressive", "text", "lookup", "test"} : Begin(r, kind)
          \/ Serve(r) \/ Hear(r) \/ Leave(r)
    \/ Upheaval

\* Timers fire, and what has no limit of its own goes on; no provider answers.
TranslationFairness(r) ==
    /\ WF_translationVars(TimesOut(r))
    /\ WF_translationVars(Active(r) /\ req[r].at # "answer" /\ ~Limited(r) /\ Serve(r))

TranslationSpec ==
    /\ TranslationInit /\ [][TranslationNext]_translationVars
    /\ \A r \in Requests : TranslationFairness(r)

(***************************************************************************)
(* Properties                                                              *)
(***************************************************************************)

Settings == [engine: {"openai", "deeplx"}, on: BOOLEAN, url: {"plain", "keyed"},
             progressive: BOOLEAN, key: BOOLEAN, revision: 0..MaxSettingsRevision]

\* No settings are neither a row nor a revision.
ASSUME SettingsAssumption == None \notin Settings \cup Nat

TranslationTypeOK ==
    /\ settings \in Settings \cup {None}
    /\ backend \in {"ready", "unusable", "gone"} /\ others \in 0..GlobalPermits
    /\ \A c \in SettingsPages : leaf[c] # None => leaf[c].row \in Settings \cup {None}
    /\ Held + others <= GlobalPermits

\* Settings that are on can be used: DeepLX has the key its address asks for.
SettingsUsable == settings # None => Usable(settings, settings.key)

\* A save replaces settings its page shows, and no others.
SettingsEditsBuild ==
    [][settings' # settings =>
          \E c \in SettingsPages : save[c].at = "write" /\ leaf[c] = [row |-> settings]]_translationVars

\* What is put together so far are the pieces of the article, in its order and
\* each with its own text, whatever order the provider answers in.
ArticleIsItsOwn ==
    \A r \in Requests : Active(r) /\ req[r].at \in {"call", "answer"} =>
        \A i \in 1..Len(req[r].out) : req[r].out[i].id = i /\ req[r].out[i].text = i

\* The calls of a request carry every letter of every text, and none is larger
\* than its engine takes.
CutsFit ==
    \A r \in Requests : StandsAt(r, "call") /\ req[r].made = 0 =>
        LET pieces == FlattenSeq(req[r].calls)
            openai == req[r].engine = "openai"
        IN /\ \A o \in 1..Len(req[r].article) :
                 Total([i \in 1..Len(pieces) |-> IF pieces[i].owner = o THEN pieces[i].letters ELSE 0])
                   = IF openai /\ req[r].kind # "lookup" THEN Length(req[r].article[o]) ELSE Letters(req[r].article[o])
           /\ req[r].kind \notin {"lookup", "test"} =>
                 \A i \in 1..Len(req[r].calls) :
                     SizeOf(req[r].calls[i]) <= IF openai THEN SourceLimit ELSE AuthenticatedChunk

\* A relay is told in order and without a gap, whoever falls behind: what was
\* sent is the beginning of the whole story, then perhaps an error.
StreamsInOrder ==
    \A r \in Requests : relay[r] # None =>
        LET story == <<<<"started">>>> \o [o \in 1..relay[r].texts |-> <<"text", o>>] \o <<<<"completed">>>>
            sent == relay[r].sent
            told == IF sent # <<>> /\ sent[Len(sent)] = <<"error">> THEN Len(sent) - 1 ELSE Len(sent)
        IN \A i \in 1..told : i <= Len(story) /\ sent[i] = story[i]

\* Every request ends and gives its permits back, though its page left or its
\* provider never answers.
RequestsEnd == \A r \in Requests : Active(r) ~> ~Active(r)
===============================================================================
