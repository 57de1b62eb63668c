------------------------------ MODULE MCReader ---------------------------------
(***************************************************************************)
(* What a reader asks for: subscriptions and categories, translations, and *)
(* jobs of the worker lanes.  They share no state; "part" says which one a *)
(* behaviour is about, and the others stay as they began.                  *)
(***************************************************************************)
EXTENDS MCContentJobs, Translation, Organization

\* The texts of an article, as the lengths of their words, and the settings that
\* a user may save.
ShortTexts == {<<2>>, <<1, 5>>}
SomeDrafts ==
    LET Draft(e, on, u, p) == [engine |-> e, on |-> on, url |-> u, progressive |-> p] IN
    {Draft("openai", TRUE, "plain", TRUE), Draft("deeplx", TRUE, "keyed", TRUE),
     Draft("deeplx", TRUE, "plain", FALSE), Draft("deeplx", FALSE, "keyed", TRUE)}

VARIABLE part

\* Two pages edit the settings of translations, or a request runs while one page
\* saves once or the provider changes.
OneConcern ==
    IF \E r \in Requests : Active(r) \/ relay[r] # None
    THEN /\ settings # None /\ leaf["c1"] # None /\ leaf["c2"] = None /\ save["c2"] = NoSave
         /\ save["c1"].at \in {"none", "write"}
         /\ save["c1"].at = "write" => save["c1"].row.revision = 1
         /\ upheavals > 0 => settings.revision = 0 /\ save["c1"] = NoSave
    ELSE upheavals = 0 /\ backend = "ready" /\ (leaf["c2"] # None => settings # None)

\* Files of feeds, one of which is refused: it has more than a user may have.
Item(source, category) == [source |-> source, category |-> category]
LongFile == <<Item("c", None), Item("a", "x"), Item("b", "x")>>
SomeFiles == {<<Item("a", "x"), Item("b", None)>>, <<Item("b", "x"), Item("a", "y")>>, LongFile}
OwnerOfTab == [t \in Tabs |-> IF t = "t3" THEN "u2" ELSE "u1"]

\* At most one of a second page of the user, a second user, a disabled feed and
\* categories.
OneVisitor ==
    LET Kind(t) == IF tab[t] = None THEN "none" ELSE tab[t].kind
        second == tab["t2"] # None
        other == tab["t3"] # None \/ Mine(follows, "u2") # {}
        broken == \E s \in Sources : channel[s] # None /\ channel[s].disabled
        filed == shelf["u1"] # {}
        full == stored.ids = MaxIds \/ stored.rows = MaxRows
        \* only the refused file names this feed
        Names(t) == \/ Kind(t) = "subscribe" /\ tab[t].want = "c"
                    \/ Kind(t) = "move" /\ tab[t].want.source = "c"
                    \/ Kind(t) = "import" /\ tab[t].want = LongFile
                                          /\ (other \/ broken \/ tab[t].tries > 1)
    IN  /\ channel["c"] = None /\ \A t \in Tabs : tab[t] # None => ~Names(t)
        /\ shelf["u2"] = {}
        /\ \A t \in {"t2", "t3"} :
               Kind(t) \in {"none", "leave", "subscribe"} /\ (tab[t] # None => tab[t].tries = 1)
        /\ second => Kind("t1") # "import" /\ ~full
        /\ other /\ full => \A t \in Tabs : tab[t] = None
        /\ broken => ~full
        /\ stored.rows = MaxRows => ~filed
        /\ Cardinality({i \in 1..4 : <<second, other, broken, filed>>[i]}) <= 1

Bounded ==
    /\ part = "translation" => OneConcern
    /\ part = "organization" => OneVisitor

ReaderInit ==
    /\ part \in {"jobs", "translation", "organization"}
    /\ Init /\ TranslationInit /\ OrganizationInit

ReaderNext ==
    /\ \/ part = "jobs" /\ Next /\ UNCHANGED <<translationVars, organizationVars>>
       \/ part = "translation" /\ TranslationNext /\ UNCHANGED <<vars, organizationVars>>
       \/ part = "organization" /\ OrganizationNext /\ UNCHANGED <<vars, translationVars>>
    /\ UNCHANGED part

\* The fairness of each part, where it is the part that runs: of the lanes and
\* of the time limits.
ReaderFairness ==
    /\ WF_vars(part = "jobs" /\ Tick)
    /\ \A l \in Lanes : WF_vars(part = "jobs" /\ LaneStep(l))
    /\ <>[][\A l \in Lanes : Drop(l) => LaneStep(l)]_vars
    /\ \A r \in Requests :
         /\ WF_translationVars(part = "translation" /\ TimesOut(r))
         /\ WF_translationVars(part = "translation" /\ Active(r) /\ req[r].at # "answer" /\ ~Limited(r) /\ Serve(r))

ReaderSpec ==
    ReaderInit /\ [][ReaderNext]_<<part, vars, translationVars, organizationVars>> /\ ReaderFairness

(* What a reader gets is what was asked for.  A translation has the texts  *)
(* of its article in their order and nothing else, in calls that fit, its  *)
(* page hears of them in that order, and its settings can be used; an      *)
(* export can be imported, with every feed where it was.                   *)
AnswersAreFaithful ==
    /\ SettingsUsable /\ ArticleIsItsOwn /\ CutsFit /\ StreamsInOrder
    /\ ExportsImport
===============================================================================
