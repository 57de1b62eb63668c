------------------------------- MODULE Accounts -------------------------------
(***************************************************************************)
(* Logins and sessions.  auth/sessions.rs, auth/password.rs, auth/users.rs *)
(* (authenticate) and the handlers of api/routes.rs.                       *)
(*                                                                         *)
(* A login reads the account, verifies the password on a blocking thread   *)
(* of which PasswordSlots may run, and inserts a session.  A request that  *)
(* uses a session reads its row and, if last_seen_at is old, leaves a      *)
(* refresh behind that runs later.  Passwords and tokens are not modelled: *)
(* a verification may succeed or fail, and every login gets a new key.     *)
(* The delay after failed logins changes no row and is left out.           *)
(***************************************************************************)
EXTENDS Integers, FiniteSets, Absence

CONSTANTS
    AccountUsers,
    SessionKeys,   \* token hashes, numbered in the order of their creation
    Logins,        \* places of the login semaphore
    Processes,     \* each has one place for a last-seen refresh (SQLite)
    PasswordSlots, \* 4
    SessionLife,   \* 30 days
    SeenInterval,  \* 15 minutes
    MaxClock,      \* bound
    MaxOrphans     \* bound on hashes whose request is gone

ASSUME AccountsAssumption ==
    /\ {PasswordSlots, SessionLife, SeenInterval, MaxClock, MaxOrphans} \subseteq Nat
    /\ SessionKeys \subseteq Nat /\ SeenInterval > 0
    /\ IsFiniteSet(Logins) /\ None \notin Nat

VARIABLES
    clock,
    session,  \* rows of sessions: user, seen and expires, or None
    issued,   \* how many keys were ever given out
    barred,   \* users with is_disabled
    login,    \* a request in the login handler
    permits,  \* password slots that are free
    hashing,  \* password operations that run
    touch     \* a last-seen refresh that was spawned

accountVars == <<clock, session, issued, barred, login, permits, hashing, touch>>

SessionRow == [user: AccountUsers, seen: 0..MaxClock, expires: Nat]
LoginStep == [at: {"wait", "hash", "create"}, user: AccountUsers, barred: BOOLEAN]
Touch == [key: SessionKeys, at: 0..MaxClock]
ASSUME AccountRowAssumption == None \notin SessionRow \cup LoginStep \cup Touch

-------------------------------------------------------------------------------
(* Login.                                                                  *)

LoginAt(r, at) == login[r] # None /\ login[r].at = at
EndLogin(r) == login' = [login EXCEPT ![r] = None]

\* authenticate remembers the row it read before the password is verified.
Authenticate(r, u) ==
    /\ login[r] = None
    /\ login' = [login EXCEPT ![r] = [at |-> "wait", user |-> u, barred |-> u \in barred]]
    /\ UNCHANGED <<clock, session, issued, barred, permits, hashing, touch>>

StartHash(r) ==
    /\ LoginAt(r, "wait") /\ permits > 0
    /\ permits' = permits - 1
    /\ hashing' = hashing + 1
    /\ login' = [login EXCEPT ![r].at = "hash"]
    /\ UNCHANGED <<clock, session, issued, barred, touch>>

\* The verification says yes or no; a disabled account is refused after it.
HashDone(r) ==
    /\ LoginAt(r, "hash")
    /\ permits' = permits + 1
    /\ hashing' = hashing - 1
    /\ \/ EndLogin(r)
       \/ ~login[r].barred /\ login' = [login EXCEPT ![r].at = "create"]
    /\ UNCHANGED <<clock, session, issued, barred, touch>>

CreateSession(r) ==
    /\ LoginAt(r, "create")
    /\ issued + 1 \in SessionKeys
    /\ issued' = issued + 1
    /\ session' = [session EXCEPT ![issued + 1] =
           [user |-> login[r].user, seen |-> clock, expires |-> clock + SessionLife]]
    /\ EndLogin(r)
    /\ UNCHANGED <<clock, barred, permits, hashing, touch>>

Orphans == hashing - Cardinality({r \in Logins : LoginAt(r, "hash")})

\* The client goes away; a hash that has started keeps its slot until it ends.
CancelLogin(r) ==
    /\ login[r] # None
    /\ LoginAt(r, "hash") => Orphans < MaxOrphans
    /\ EndLogin(r)
    /\ UNCHANGED <<clock, session, issued, barred, permits, hashing, touch>>

OrphanDone ==
    /\ Orphans > 0
    /\ hashing' = hashing - 1
    /\ permits' = permits + 1
    /\ UNCHANGED <<clock, session, issued, barred, login, touch>>

-------------------------------------------------------------------------------
(* Sessions.                                                               *)

Valid(k) == session[k] # None /\ session[k].expires > clock /\ session[k].user \notin barred
Old(seen, at) == seen + SeenInterval <= at

\* A request with a valid session leaves a refresh behind, if there is a place.
Resolve(p, k) ==
    /\ Valid(k) /\ Old(session[k].seen, clock) /\ touch[p] = None
    /\ touch' = [touch EXCEPT ![p] = [key |-> k, at |-> clock]]
    /\ UNCHANGED <<clock, session, issued, barred, login, permits, hashing>>

\* Mutant: the refresh does not look at last_seen_at again.
RefreshBlind(p) ==
    LET t == touch[p] IN
    /\ t # None
    /\ session' = IF session[t.key] # None THEN [session EXCEPT ![t.key].seen = t.at] ELSE session
    /\ touch' = [touch EXCEPT ![p] = None]
    /\ UNCHANGED <<clock, issued, barred, login, permits, hashing>>

RefreshLastSeen(p) ==
    LET t == touch[p] IN
    /\ t # None
    /\ session' = IF session[t.key] # None /\ Old(session[t.key].seen, t.at)
                  THEN [session EXCEPT ![t.key].seen = t.at] ELSE session
    /\ touch' = [touch EXCEPT ![p] = None]
    /\ UNCHANGED <<clock, issued, barred, login, permits, hashing>>

\* logout; it needs a session that is valid when the request comes.
Revoke(k) ==
    /\ Valid(k)
    /\ session' = [session EXCEPT ![k] = None]
    /\ UNCHANGED <<clock, issued, barred, login, permits, hashing, touch>>

SetBarred(u) ==
    /\ barred' = IF u \in barred THEN barred \ {u} ELSE barred \cup {u}
    /\ UNCHANGED <<clock, session, issued, login, permits, hashing, touch>>

PassTime ==
    /\ clock < MaxClock
    /\ clock' = clock + 1
    /\ UNCHANGED <<session, issued, barred, login, permits, hashing, touch>>

-------------------------------------------------------------------------------
AccountsInit ==
    /\ clock = 0
    /\ session = [k \in SessionKeys |-> None] /\ issued = 0
    /\ barred = {}
    /\ login = [r \in Logins |-> None]
    /\ permits = PasswordSlots /\ hashing = 0
    /\ touch = [p \in Processes |-> None]

AccountsNext ==
    \/ \E r \in Logins :
          \/ \E u \in AccountUsers : Authenticate(r, u)
          \/ StartHash(r) \/ HashDone(r) \/ CreateSession(r) \/ CancelLogin(r)
    \/ OrphanDone
    \/ \E p \in Processes : RefreshLastSeen(p) \/ \E k \in SessionKeys : Resolve(p, k)
    \/ \E k \in SessionKeys : Revoke(k)
    \/ \E u \in AccountUsers : SetBarred(u)
    \/ PassTime

AccountsSpec == AccountsInit /\ [][AccountsNext]_accountVars

-------------------------------------------------------------------------------
(* Every row, request and counter has its type.                            *)
AccountsTypeOK ==
    /\ clock \in 0..MaxClock
    /\ session \in [SessionKeys -> SessionRow \cup {None}]
    /\ issued \in SessionKeys \cup {0}
    /\ barred \subseteq AccountUsers
    /\ login \in [Logins -> LoginStep \cup {None}]
    /\ permits \in 0..PasswordSlots /\ hashing \in 0..PasswordSlots
    /\ touch \in [Processes -> Touch \cup {None}]

(* At most PasswordSlots password operations run at once, however many     *)
(* clients hang up while theirs runs (password.rs, run_password_task).     *)
PasswordWorkBounded == hashing <= PasswordSlots

(* A refresh of last_seen_at that runs late, in whichever process, never   *)
(* brings back a session that was revoked, never turns last_seen_at back   *)
(* and never moves it by less than the interval; nothing prolongs a        *)
(* session (sessions.rs, refresh_last_seen).                               *)
SessionsMoveOn ==
    [][\A p \in Processes : touch[p] # None /\ touch'[p] = None =>
          \A k \in SessionKeys :
             /\ session'[k] = None <=> session[k] = None
             /\ session[k] # None =>
                   /\ session'[k].expires = session[k].expires
                   /\ \/ session'[k].seen = session[k].seen
                      \/ session'[k].seen >= session[k].seen + SeenInterval]_accountVars
===============================================================================
