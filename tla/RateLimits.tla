------------------------------ MODULE RateLimits ------------------------------
(***************************************************************************)
(* The limits of the HTTP interface: a sliding window of attempts for each *)
(* user and a number of requests at once for each user, both in tables of  *)
(* bounded size.  api/rate_limit.rs.                                       *)
(*                                                                         *)
(* A full table makes room for a new user: the window table drops empty    *)
(* windows and then the one used longest ago, whose user starts anew; the  *)
(* concurrency table drops only entries nobody refers to, or refuses.      *)
(***************************************************************************)
EXTENDS Integers, Sequences, FiniteSets, Absence

CONSTANTS
    LimitedUsers,
    Slots,          \* requests that may be in progress
    AttemptLimit,   \* 30 in a window
    Window,         \* 15 minutes
    MaxKeys,        \* 10 000 users in a table
    PermitsPerUser, \* 4 requests of a user at once
    MaxInstant,     \* bound on time
    MaxEntries      \* bound on the semaphores ever made

ASSUME RateLimitsAssumption ==
    /\ {AttemptLimit, Window, MaxKeys, PermitsPerUser, MaxInstant, MaxEntries} \subseteq Nat
    /\ AttemptLimit > 0 /\ Window > 0 /\ MaxKeys > 0 /\ PermitsPerUser > 0
    /\ IsFiniteSet(LimitedUsers) /\ IsFiniteSet(Slots) /\ None \notin Nat \cup Seq(Nat) \cup LimitedUsers

VARIABLES
    instant,  \* the monotonic clock
    bucket,   \* the window of a user, in the order of the attempts, or None
    used,     \* updated_at of a bucket
    told,     \* the instant a refused user was told to come back at
    semaphore, \* the concurrency entry of a user: the number of a semaphore
    madeSems,    \* how many semaphores were made
    slot      \* a request that refers to a semaphore, with or without a permit

limitVars == <<instant, bucket, used, told, semaphore, madeSems, slot>>

Request == [user: LimitedUsers, semaphore: 1..MaxEntries, permit: BOOLEAN]
ASSUME RequestAssumption == None \notin Request

-------------------------------------------------------------------------------
(* UserMutationLimiter.  RateLimiter is one such window without a table.   *)

\* How many attempts leave the window: those before the first that is recent.
Left(window) == CHOOSE n \in 0..Len(window) :
    /\ \A i \in 1..n : instant - window[i] >= Window
    /\ n < Len(window) => instant - window[n + 1] < Window
Live(window) == SubSeq(window, Left(window) + 1, Len(window))

Tracked == {u \in LimitedUsers : bucket[u] # None}
AfterCleanup == {u \in Tracked : Live(bucket[u]) # <<>>}
LongestAgo(S) == {u \in S : \A v \in S : used[u] <= used[v]}

\* What a full table keeps: it is cleaned, and if it is still full one goes.
Survivors ==
    IF Cardinality(Tracked) < MaxKeys THEN {Tracked}
    ELSE IF Cardinality(AfterCleanup) < MaxKeys THEN {AfterCleanup}
    ELSE {AfterCleanup \ {u} : u \in LongestAgo(AfterCleanup)}

Admit(u, window, kept) ==
    /\ bucket' = [v \in LimitedUsers |->
           IF v = u THEN Append(window, instant) ELSE IF v \in kept THEN bucket[v] ELSE None]
    /\ used' = [used EXCEPT ![u] = instant]
    /\ told' = [told EXCEPT ![u] = None]

CheckMutation(u) ==
    /\ IF bucket[u] = None
       THEN \E kept \in Survivors : Admit(u, <<>>, kept)
       ELSE LET window == Live(bucket[u]) IN
            IF Len(window) < AttemptLimit THEN Admit(u, window, Tracked)
            ELSE /\ bucket' = [bucket EXCEPT ![u] = window]
                 /\ told' = [told EXCEPT ![u] = Head(window) + Window]
                 /\ UNCHANGED used
    /\ UNCHANGED <<instant, semaphore, madeSems, slot>>

-------------------------------------------------------------------------------
(* UserConcurrencyLimiter.                                                 *)

Referred(n) == \E r \in Slots : slot[r] # None /\ slot[r].semaphore = n
Granted(n) == Cardinality({r \in Slots : slot[r] # None /\ slot[r].permit /\ slot[r].semaphore = n})
Entries == {u \in LimitedUsers : semaphore[u] # None}

\* Mutant: any entry may go.
AnyEntry == Entries
IdleEntries == {u \in Entries : ~Referred(semaphore[u])}

\* Under the lock: the entry of the user is found, or made in place of an idle one.
FindSemaphore(r, u) ==
    /\ slot[r] = None
    /\ IF u \in Entries
       THEN /\ slot' = [slot EXCEPT ![r] = [user |-> u, semaphore |-> semaphore[u], permit |-> FALSE]]
            /\ UNCHANGED <<semaphore, madeSems>>
       ELSE /\ madeSems < MaxEntries
            /\ \E gone \in (IF Cardinality(Entries) < MaxKeys THEN {None} ELSE IdleEntries) :
                  semaphore' = [v \in LimitedUsers |->
                      IF v = u THEN madeSems + 1 ELSE IF v = gone THEN None ELSE semaphore[v]]
            /\ madeSems' = madeSems + 1
            /\ slot' = [slot EXCEPT ![r] = [user |-> u, semaphore |-> madeSems + 1, permit |-> FALSE]]
    /\ UNCHANGED <<instant, bucket, used, told>>

TryAcquire(r) ==
    /\ slot[r] # None /\ ~slot[r].permit
    /\ slot' = IF Granted(slot[r].semaphore) < PermitsPerUser
               THEN [slot EXCEPT ![r].permit = TRUE] ELSE [slot EXCEPT ![r] = None]
    /\ UNCHANGED <<instant, bucket, used, told, semaphore, madeSems>>

ReleaseSlot(r) ==
    /\ slot[r] # None /\ slot[r].permit
    /\ slot' = [slot EXCEPT ![r] = None]
    /\ UNCHANGED <<instant, bucket, used, told, semaphore, madeSems>>

InstantPasses ==
    /\ instant < MaxInstant
    /\ instant' = instant + 1
    /\ UNCHANGED <<bucket, used, told, semaphore, madeSems, slot>>

-------------------------------------------------------------------------------
LimitsInit ==
    /\ instant = 0 /\ madeSems = 0
    /\ bucket = [u \in LimitedUsers |-> None] /\ used = [u \in LimitedUsers |-> 0]
    /\ told = [u \in LimitedUsers |-> None]
    /\ semaphore = [u \in LimitedUsers |-> None]
    /\ slot = [r \in Slots |-> None]

LimitsNext ==
    \/ \E u \in LimitedUsers :
          CheckMutation(u) \/ \E r \in Slots : FindSemaphore(r, u)
    \/ \E r \in Slots : TryAcquire(r) \/ ReleaseSlot(r)
    \/ InstantPasses

LimitsSpec == LimitsInit /\ [][LimitsNext]_limitVars

-------------------------------------------------------------------------------
(* Every window, entry and request has its type.                           *)
LimitsTypeOK ==
    /\ instant \in 0..MaxInstant /\ madeSems \in 0..MaxEntries
    /\ \A u \in LimitedUsers :
         /\ bucket[u] # None => bucket[u] \in Seq(0..MaxInstant)
         /\ used[u] \in 0..MaxInstant
         /\ told[u] \in Nat \cup {None}
         /\ semaphore[u] \in 1..MaxEntries \cup {None}
    /\ slot \in [Slots -> Request \cup {None}]

(* A user never has more requests in progress than PermitsPerUser, though  *)
(* entries leave a full table and come back: an entry that a request still *)
(* refers to stays (rate_limit.rs, try_acquire).                           *)
ConcurrencyBounded ==
    \A u \in LimitedUsers :
        Cardinality({r \in Slots : slot[r] # None /\ slot[r].permit /\ slot[r].user = u}) <= PermitsPerUser

(* A user who comes back at the instant named in a refusal is admitted     *)
(* (rate_limit.rs, rate_limit_rejection): until then no attempt of the     *)
(* user can take the place that becomes free.                              *)
RetryTimeHolds ==
    \A u \in LimitedUsers : told[u] # None /\ told[u] <= instant /\ bucket[u] # None =>
        Len(Live(bucket[u])) < AttemptLimit
===============================================================================
