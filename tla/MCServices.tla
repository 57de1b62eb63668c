------------------------------ MODULE MCServices ------------------------------
(***************************************************************************)
(* The reader's store and the services around it, which share no state:    *)
(* one run checks each of them in turn.  "part" says which one a behaviour *)
(* is about; the others stay in their initial state.                       *)
(***************************************************************************)
EXTENDS EntryList, Accounts, Admission, RateLimits, FeedFetch

VARIABLE part

\* Two articles of one feed and one of another.
FeedOfArticle == [a \in Articles |-> IF a <= 2 THEN "f1" ELSE "f2"]

Walking == \E u \in Readers : walk[u].pc # "none"
TwoUsers == \E f \in Feeds : Subscribed("u2", f)
TwoFeeds == \E u \in Users : Subscribed(u, "f2")

\* At most one of a walk, a second user and a second feed; dates differ only
\* for walks.
OneAtATime ==
    /\ Cardinality({i \in 1..3 : <<Walking, TwoUsers, TwoFeeds>>[i]}) <= 1
    /\ TwoUsers \/ TwoFeeds => \A a \in Articles : entry[a] # NULL => entry[a].sort = 1

\* Both prefixes embed a private address in "b".
HidesB == [p \in Nat64Prefixes |-> {"b"}]

\* Two fetches only meet at the snapshot, so the second goes no further than
\* that; redirects and bodies are followed under policies that do not expire.
OneTalks ==
    LET g == fetch["g1"] h == fetch["g2"] IN
    /\ h.at \notin {"execute", "request", "body", "decode"}
    /\ h.back \in {None, "resolve"} /\ h.url \in {None, "s"} /\ h.result \in {None, "denied"}
    /\ IF policyNow # None /\ policyNow.validUntil = Never THEN h.at = "unbegun"
       ELSE /\ moment <= 3 /\ g.redirects = 0 /\ g.url \in {None, "s"}
            /\ g.at \notin {"body", "decode"} /\ g.result \in {None, "total"}

Bounded == OneAtATime /\ (part = "fetch" => OneTalks)

ServicesInit ==
    /\ part \in {"reader", "accounts", "admission", "limits", "fetch"}
    /\ ListInit /\ AccountsInit /\ AdmissionInit /\ LimitsInit /\ FetchInit
    /\ part # "fetch" => policyNow = None

Keep(p, unchanged) == IF part = p THEN TRUE ELSE unchanged

ServicesNext ==
    /\ \/ part = "reader" /\ ListNext
       \/ part = "accounts" /\ AccountsNext
       \/ part = "admission" /\ AdmissionNext
       \/ part = "limits" /\ LimitsNext
       \/ part = "fetch" /\ FetchNext
    /\ UNCHANGED part
    /\ Keep("reader", UNCHANGED listVars)
    /\ Keep("accounts", UNCHANGED accountVars)
    /\ Keep("admission", UNCHANGED admissionVars)
    /\ Keep("limits", UNCHANGED limitVars)
    /\ Keep("fetch", UNCHANGED fetchVars)

servicesVars == <<part, listVars, accountVars, admissionVars, limitVars, fetchVars>>

ServicesSpec == ServicesInit /\ [][ServicesNext]_servicesVars

(* Every service keeps the types of its state. *)
ServicesTypeOK ==
    /\ TypeOK /\ AccountsTypeOK /\ AdmissionTypeOK /\ LimitsTypeOK /\ FetchTypeOK

(* Types and limits hold, whatever is cancelled, evicted, edited or late:  *)
(* password work, calls of a provider that nobody edits, requests of a     *)
(* user at once; and a user who comes back when told to is admitted.       *)
LimitsHold ==
    /\ ServicesTypeOK
    /\ PasswordWorkBounded /\ UneditedBounded /\ ConcurrencyBounded /\ RetryTimeHolds
===============================================================================
