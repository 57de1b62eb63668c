------------------------------- MODULE MCContent -------------------------------
(***************************************************************************)
(* The jobs of AI content, the documents and providers they are configured *)
(* with, and the attempts that read all of it: one run checks each of them *)
(* in turn.  "part" says which one a behaviour is about; the others stay   *)
(* in their initial state.                                                 *)
(***************************************************************************)
EXTENDS MCContentJobs, AiExecution

CONSTANTS s1, s2, k3

ThreeKeys == {k1, k2, k3}

VARIABLE part

\* Both settings name the same provider, or one of them switches the AI off.
SameProvider == [v \in Settings |-> "p1"]
DearerSecond == [m \in Models |-> IF m = "m1" THEN 1 ELSE 2]

\* Documents are edited while nothing is being installed: pairs, with one of
\* the configuration and the grant.
Settled == installation # None /\ installation.version = 1 /\ installation.revision = 0 /\ \A h \in Hosts : syncing[h].at = "synced"
FewDocuments ==
    \/ Settled /\ None \in {document["config"], document["grant"]}
    \/ \A c \in Clients : shown[c] = None

\* Around the attempts one user edits one provider and the configuration: first
\* there are an installation, a provider and a configuration, then there is at
\* most one disturbance of them.
Disturbed ==
    <<(installation # None /\ installation.revision > 0) \/ syncing["h2"].version # 1,
      vetted["c1"] = s2 \/ (document["config"] # None /\ (document["config"].revision > 0 \/ change["c1"].at # "none")),
      screen["e1"] # None \/ ("p1" \in drawn /\ provider["p1"] = None),
      ~userActive>>

InOrder ==
    /\ syncing["h1"].version = 1 /\ (syncing["h2"].version # 1 => task # None)
    /\ "p1" \in drawn \/ edit["e1"] # NoEdit => installation # None
    /\ "p1" \in drawn /\ task = None => \A h \in Hosts : syncing[h].at = "synced"
    /\ shown["c1"] # None => "p1" \in drawn
    /\ vetted["c1"] # None => shown["c1"] # None
    /\ screen["e1"] # None => task # None /\ vetted["c1"] = None
    /\ vetted["c1"] = s2 => task # None
    /\ document["config"] # None /\ document["config"].revision = 0 => document["config"].value = s1
    /\ change["c1"].at # "none" /\ document["config"] # None => change["c1"].value = s2

OneUserEdits ==
    /\ shown["c2"] = None /\ vetted["c2"] = None
    /\ screen["e2"] = None /\ edit["e2"] = NoEdit
    /\ drawn \subseteq {"p1"}
    /\ "p1" \in drawn /\ provider["p1"] # None =>
          provider["p1"].kind = "chat" /\ (provider["p1"].revision = 0 => provider["p1"].model = "m2")
    /\ edit["e1"].at = "update" => edit["e1"].row.kind = "chat"
    /\ InOrder
    /\ task # None /\ task.tries = 1 => session["h2"] = NoSession
    /\ task # None => task.parts >= 2
    /\ \A c \in calls : c.cost > 0
    /\ Cardinality({i \in 1..4 : Disturbed[i]}) <= IF task # None /\ task.parts < 3 THEN 0 ELSE 1

\* Jobs take the keys in turn.  At most one of these happens: the entry changes,
\* its reader leaves, or is disabled for a while, a job is claimed again, or there
\* is a third job of the user, without retries.
KeyOf == <<k1, k2, k3>>
Jobs == {j \in JobIds : Exists(j)}
FewJobs ==
    LET changed == content # FirstVersion \/ \E j \in Jobs : job[j].version # FirstVersion
        twice == {j \in Jobs : job[j].token > 1}
        third == Cardinality(Jobs) > 2
        events == <<changed, readers # Users, disabled # {}, twice # {}, third>>
    IN  /\ \A j \in Jobs : job[j].key = KeyOf[j]
        /\ Cardinality({i \in 1..5 : events[i]}) <= 1
        /\ Cardinality(twice) <= 1
        /\ third => \A j \in Jobs : job[j].status # "RETRY_WAIT"

Bounded ==
    /\ part = "jobs" => FewJobs
    /\ part = "registry" => FewDocuments
    /\ part = "ai" => OneUserEdits

Same(p, unchanged) == IF part = p THEN TRUE ELSE unchanged

ContentInit ==
    /\ part \in {"jobs", "registry", "providers", "ai"}
    /\ Init /\ ExecutionInit
    /\ syncing = [h \in Hosts |-> [at |-> "start", version |-> 1, seen |-> None]]

ContentNext ==
    /\ \/ part = "jobs" /\ Next
       \/ part = "registry" /\ RegistryNext
       \/ part = "providers" /\ ProvidersNext
       \/ part = "ai" /\ ExecutionNext
    /\ UNCHANGED part
    /\ Same("jobs", UNCHANGED vars)
    /\ part \in {"jobs", "providers"} => UNCHANGED registryVars
    /\ part \in {"jobs", "registry"} => UNCHANGED providerVars
    /\ Same("ai", UNCHANGED executionVars)

contentVars == <<part, vars, allVars>>

ContentSpec == ContentInit /\ [][ContentNext]_contentVars
===============================================================================
