--------------------------- MODULE ContentOverview ---------------------------
(***************************************************************************)
(* What a reader sees of the AI jobs about an entry: overview_operation    *)
(* reads the artifact of an identity and then its latest job, in two       *)
(* statements and no transaction, and takes a disagreement of the two for  *)
(* stored data that is corrupt.                                            *)
(***************************************************************************)
EXTENDS ContentJobs

VARIABLES page,   \* what the request of a reader has read
          answer  \* what it was answered

overviewVars == <<page, answer>>

Idle == [at |-> "idle"]

\* The identity names the content the entry has when it is loaded, for a
\* reader who can see it.
OpenOverview(u) ==
    /\ page[u] = Idle
    /\ u \in readers \ disabled
    /\ page' = [page EXCEPT ![u] = [at |-> "open", version |-> content]]
    /\ UNCHANGED <<vars, answer>>

FindArtifact(u) ==
    /\ page[u].at = "open"
    /\ page' = [page EXCEPT ![u] = [at |-> "artifact", version |-> page[u].version,
                                    found |-> ArtifactsOf(u, page[u].version) # {}]]
    /\ UNCHANGED <<vars, answer>>

JobsOf(u, v) == {j \in JobIds : Exists(j) /\ job[j].user = u /\ job[j].version = v}

\* The latest by created_at; of two jobs created at once, the greater random id.
LatestJobs(u, v) == {j \in JobsOf(u, v) : \A i \in JobsOf(u, v) : job[i].created <= job[j].created}

Seen(found, status) ==
    IF found # (status = "SUCCEEDED") THEN "CORRUPT" ELSE status

FindLatestJob(u) ==
    LET p == page[u]
        latest == {job[j].status : j \in LatestJobs(u, p.version)}
    IN  /\ p.at = "artifact"
        /\ \E status \in IF latest = {} THEN {"IDLE"} ELSE latest :
              answer' = [answer EXCEPT ![u] = Seen(p.found, status)]
        /\ page' = [page EXCEPT ![u] = Idle]
        /\ UNCHANGED vars

OverviewInit ==
    /\ Init
    /\ page = [u \in Users |-> Idle]
    /\ answer = [u \in Users |-> "IDLE"]

OverviewNext ==
    \/ Next /\ UNCHANGED overviewVars
    \/ \E u \in Users : OpenOverview(u) \/ FindArtifact(u) \/ FindLatestJob(u)

OverviewSpec == OverviewInit /\ [][OverviewNext]_<<vars, overviewVars>>

\* The status 500 of an overview means, to the design of the API, that the
\* database or an artifact is corrupt.  Every job that succeeded has its result
\* and nothing else has one (ResultsAgree), so no reader should ever see it.
OverviewReportsNoCorruption == \A u \in Users : answer[u] # "CORRUPT"
=============================================================================
