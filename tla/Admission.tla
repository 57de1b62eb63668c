------------------------------ MODULE Admission ------------------------------
(***************************************************************************)
(* Calls of an AI provider through the broker: who may call it now.        *)
(* content/ai/admission.rs and content/ai/broker.rs (generate_structured). *)
(*                                                                         *)
(* The controller keeps a table from the provider's revision to a shared   *)
(* admission state: permits and a sliding window of requests.  A state is  *)
(* dropped from the table when a request for another revision comes and    *)
(* nobody else holds a reference to the state.  The permit of a call that  *)
(* runs refers to the semaphore inside the state, not to the state.        *)
(***************************************************************************)
EXTENDS Integers, Sequences, FiniteSets, Absence

CONSTANTS
    Calls,             \* requests the broker handles at a time
    MaxRevision,       \* bound on the edits of the provider
    MaxStates,         \* bound on the admission states ever made
    MaxConcurrency, RequestsPerMinute, \* of the provider's policy
    Minute, MaxMinutes \* the window, and the bound on time

ASSUME AdmissionAssumption ==
    /\ {MaxRevision, MaxStates, MaxConcurrency, RequestsPerMinute, Minute, MaxMinutes} \subseteq Nat
    /\ Minute > 0 /\ MaxConcurrency > 0 /\ RequestsPerMinute > 0 /\ MaxRevision > 0
    /\ IsFiniteSet(Calls) /\ None \notin Nat

VARIABLES
    minute,    \* the monotonic clock
    revision,  \* ai_providers.revision
    states,    \* the controller's table: the number of a state, or None
    made,      \* how many states were made
    ownerOf,   \* the revision a state was made for
    requests,  \* the request window of a state
    call       \* what a broker request holds

admissionVars == <<minute, revision, states, made, ownerOf, requests, call>>

Revisions == 1..MaxRevision
CallStep == [at: {"loaded", "pinned", "admitted", "calling"}, revision: Revisions,
             state: 0..MaxStates]
ASSUME CallAssumption == None \notin CallStep

CallAt(r, at) == call[r] # None /\ call[r].at = at
EndCall(r) == call' = [call EXCEPT ![r] = None]
Pinned(g) == \E r \in Calls :
    (CallAt(r, "pinned") \/ CallAt(r, "admitted")) /\ call[r].state = g
Permits(g) == Cardinality({r \in Calls :
                  (CallAt(r, "admitted") \/ CallAt(r, "calling")) /\ call[r].state = g})

-------------------------------------------------------------------------------
\* load_enabled_binding; what the job expects is what it finds.
LoadBinding(r) ==
    /\ call[r] = None
    /\ call' = [call EXCEPT ![r] = [at |-> "loaded", revision |-> revision, state |-> 0]]
    /\ UNCHANGED <<minute, revision, states, made, ownerOf, requests>>

EditProvider ==
    /\ revision < MaxRevision
    /\ revision' = revision + 1
    /\ UNCHANGED <<minute, states, made, ownerOf, requests, call>>

\* Under the lock of the table: other revisions go unless somebody refers to
\* them; the own one is found or made.
\* acquire itself is that somebody, until it has reserved its request.
Kept(v, own) == v = own \/ (states[v] # None /\ Pinned(states[v]))
FindState(r) ==
    LET own == call[r].revision
        fresh == states[own] = None
        g == IF fresh THEN made + 1 ELSE states[own] IN
    /\ CallAt(r, "loaded")
    /\ fresh => made < MaxStates
    /\ states' = [v \in Revisions |-> IF v = own THEN g ELSE IF Kept(v, own) THEN states[v] ELSE None]
    /\ made' = IF fresh THEN made + 1 ELSE made
    /\ ownerOf' = [ownerOf EXCEPT ![g] = own]
    /\ call' = [call EXCEPT ![r].at = "pinned", ![r].state = g]
    /\ UNCHANGED <<minute, revision, requests>>

\* try_acquire_owned: no permit, no wait.
TakePermit(r) ==
    /\ CallAt(r, "pinned")
    /\ IF Permits(call[r].state) < MaxConcurrency
       THEN call' = [call EXCEPT ![r].at = "admitted"] ELSE EndCall(r)
    /\ UNCHANGED <<minute, revision, states, made, ownerOf, requests>>

\* reserve_request: old entries leave the window, and a full one refuses.
Expired(window) == CHOOSE n \in 0..Len(window) :
    /\ \A i \in 1..n : minute - window[i] >= Minute
    /\ n < Len(window) => minute - window[n + 1] < Minute
Recent(window) == SubSeq(window, Expired(window) + 1, Len(window))
ReserveRequest(r) ==
    LET g == call[r].state
        window == Recent(requests[g])
        room == Len(window) < RequestsPerMinute IN
    /\ CallAt(r, "admitted")
    /\ requests' = [requests EXCEPT ![g] = IF room THEN Append(window, minute) ELSE window]
    /\ IF room THEN call' = [call EXCEPT ![r].at = "calling"] ELSE EndCall(r)
    /\ UNCHANGED <<minute, revision, states, made, ownerOf>>

\* The answer, the timeout, or the job that gives up drops the guard.
CallEnds(r) ==
    /\ call[r] # None
    /\ EndCall(r)
    /\ UNCHANGED <<minute, revision, states, made, ownerOf, requests>>

MinutePasses ==
    /\ minute < MaxMinutes
    /\ minute' = minute + 1
    /\ UNCHANGED <<revision, states, made, ownerOf, requests, call>>

-------------------------------------------------------------------------------
AdmissionInit ==
    /\ minute = 0 /\ revision = 1 /\ made = 0
    /\ states = [v \in Revisions |-> None]
    /\ ownerOf = [g \in 1..MaxStates |-> 1]
    /\ requests = [g \in 1..MaxStates |-> <<>>]
    /\ call = [r \in Calls |-> None]

AdmissionNext ==
    \/ \E r \in Calls :
          LoadBinding(r) \/ FindState(r) \/ TakePermit(r) \/ ReserveRequest(r) \/ CallEnds(r)
    \/ EditProvider \/ MinutePasses

AdmissionSpec == AdmissionInit /\ [][AdmissionNext]_admissionVars

-------------------------------------------------------------------------------
(* Every state, window and request has its type.                           *)
AdmissionTypeOK ==
    /\ minute \in 0..MaxMinutes /\ revision \in Revisions /\ made \in 0..MaxStates
    /\ states \in [Revisions -> 1..MaxStates \cup {None}]
    /\ ownerOf \in [1..MaxStates -> Revisions]
    /\ \A g \in 1..MaxStates : requests[g] \in Seq(0..MaxMinutes)
    /\ call \in [Calls -> CallStep \cup {None}]

StartedLately(v) ==
    {p \in (1..MaxStates) \X (1..RequestsPerMinute + 1) :
        /\ ownerOf[p[1]] = v
        /\ p[2] <= Len(Recent(requests[p[1]]))}

(* For each revision of a provider, no more calls run at once than its     *)
(* policy allows, and no more were started within a minute: "per-provider  *)
(* maximum concurrency" and "optional sliding 60-second request limit"     *)
(* (ai-provider-broker-composition-v1-design.md).                          *)
AdmissionBounded ==
    \A v \in Revisions :
        /\ Cardinality({r \in Calls : CallAt(r, "calling") /\ call[r].revision = v}) <= MaxConcurrency
        /\ Cardinality(StartedLately(v)) <= RequestsPerMinute

(* The same, as long as nobody edits the provider.                         *)
UneditedBounded == revision = 1 => AdmissionBounded
===============================================================================
