---------------------------- MODULE AuthService ----------------------------
(***************************************************************************)
(* Users, sessions, API tokens and the account lockout (internal/auth) as  *)
(* the authentication routes of the REST interface use them                *)
(* (internal/api/rest/auth.go).                                            *)
(*                                                                         *)
(* Every request runs in a goroutine of its own, a member of Requests;     *)
(* thr[r] is where it stands.  Sessions live in memory under a mutex that  *)
(* is held across the write to the store, so creating and revoking one is  *)
(* one step; users and tokens live in the store only, which readers look   *)
(* at between the steps of writers.                                        *)
(***************************************************************************)
EXTENDS Integers, FiniteSets

CONSTANTS
    Requests,           \* concurrent requests
    Users,              \* user names
    Passwords,          \* passwords
    Sids,               \* session ids; each is drawn once
    Tokens,             \* API tokens; each is created once
    None,               \* no value
    MaxFailedAttempts,  \* auth.local.max_failed_attempts
    LockoutDuration,    \* auth.local.lockout_duration
    SessionTTL,         \* life time of a session
    AuthMaxTime,        \* bound: clock
    AuthMaxFaults       \* bound: failing writes and restarts

ASSUME AuthNoneAssumption == None \notin Passwords /\ None \notin Requests
ASSUME AuthNumbersAssumption ==
    /\ IsFiniteSet(Requests)
    /\ MaxFailedAttempts \in Nat \ {0} /\ LockoutDuration \in Nat \ {0}
    /\ SessionTTL \in Nat /\ AuthMaxTime \in Nat /\ AuthMaxFaults \in Nat

VARIABLES
    pw,         \* store: password of each user
    mem,        \* SessionManager.sessions
    stored,     \* store: tree sessions
    rec,        \* store: tree api_tokens (ids present)
    byHash,     \* store: tree api_tokens_by_hash (tokens present)
    fails,      \* lockoutTracker.entries: failures
    locked,     \* lockoutTracker.entries: lockedUntil, 0 when zero
    svcMu,      \* Service.mu: the request that holds it
    thr,        \* where each request stands
    clock,      \* time
    aFaults,    \* environment: faults so far
    guesses,    \* history: wrong passwords compared since the entry was last cleared
    revoked,    \* history: tokens whose revocation was acknowledged
    out,        \* history: sessions that were ended
    undeleted   \* history: ended sessions that are still in the store

storeVars == <<pw, rec, byHash>>
sessionVars == <<mem, stored, out, undeleted>>
lockVars == <<fails, locked, guesses>>
authVars == <<storeVars, sessionVars, lockVars, svcMu, thr, clock, aFaults, revoked>>

Resting == [pc |-> "rest"]

\* raced (history): the password the session rests on was no longer current
\* when the session was created.
SessionEntries == [user : Users, until : 0..(AuthMaxTime + SessionTTL), known : Passwords, raced : BOOLEAN]

AuthTypeOK ==
    /\ pw \in [Users -> Passwords \cup {None}]
    /\ mem \in [Sids -> SessionEntries \cup {None}] /\ stored \in [Sids -> SessionEntries \cup {None}]
    /\ rec \subseteq Tokens /\ byHash \subseteq Tokens /\ revoked \subseteq Tokens
    /\ fails \in [Users -> 0..MaxFailedAttempts]
    /\ locked \in [Users -> 0..(AuthMaxTime + LockoutDuration)]
    /\ guesses \in [Users -> Nat]
    /\ svcMu \in Requests \cup {None}
    /\ DOMAIN thr = Requests
    /\ clock \in 0..AuthMaxTime /\ aFaults \in 0..AuthMaxFaults
    /\ out \subseteq Sids /\ undeleted \subseteq out

\* A first start: no users, no sessions, no tokens.
AuthInit ==
    /\ pw = [u \in Users |-> None]
    /\ mem = [s \in Sids |-> None] /\ stored = mem
    /\ rec = {} /\ byHash = {} /\ revoked = {}
    /\ fails = [u \in Users |-> 0] /\ locked = [u \in Users |-> 0] /\ guesses = [u \in Users |-> 0]
    /\ svcMu = None
    /\ thr = [r \in Requests |-> Resting]
    /\ clock = 0 /\ aFaults = 0
    /\ out = {} /\ undeleted = {}

AuthFault == aFaults < AuthMaxFaults /\ aFaults' = aFaults + 1
AuthFine == aFaults' = aFaults

Starts(r) == thr[r] = Resting
At(r, pc) == thr[r].pc = pc
Goes(r, pc) == thr' = [thr EXCEPT ![r].pc = pc]
Ends(r) == thr' = [thr EXCEPT ![r] = Resting]

(***************************************************************************)
(* Bootstrap.                                                              *)
(***************************************************************************)

HasUsers == \E u \in Users : pw[u] # None

\* Mutant: BootstrapAdmin looks for users without the mutex.
BootstrapCheck_NoMutex(r, u, p) ==
    /\ Starts(r)
    /\ ~HasUsers
    /\ svcMu' = r
    /\ thr' = [thr EXCEPT ![r] = [pc |-> "bootstrap", user |-> u, known |-> p]]
    /\ UNCHANGED <<storeVars, sessionVars, lockVars, clock, aFaults, revoked>>

\* POST bootstrap: BootstrapAdmin takes the mutex and looks for users.
BootstrapCheck(r, u, p) ==
    /\ Starts(r) /\ svcMu = None
    /\ ~HasUsers
    /\ svcMu' = r
    /\ thr' = [thr EXCEPT ![r] = [pc |-> "bootstrap", user |-> u, known |-> p]]
    /\ UNCHANGED <<storeVars, sessionVars, lockVars, clock, aFaults, revoked>>

\* The password is hashed, then upsertUser; Service.mu is released.
BootstrapPut(r) ==
    /\ At(r, "bootstrap")
    /\ \/ AuthFine /\ pw' = [pw EXCEPT ![thr[r].user] = thr[r].known]
       \/ AuthFault /\ UNCHANGED pw
    /\ svcMu' = None
    /\ Ends(r)
    /\ UNCHANGED <<rec, byHash, sessionVars, lockVars, clock, revoked>>

(***************************************************************************)
(* AuthenticateLocal and the lockout, for login and for password changes.  *)
(***************************************************************************)

LocksAt(n) == n >= MaxFailedAttempts

LockExpired(u) == locked[u] > 0 /\ clock >= locked[u]

\* lockoutTracker.Check; an entry whose time has passed is dropped.
CheckLock(u) ==
    /\ ~(locked[u] > clock)
    /\ fails' = IF LockExpired(u) THEN [fails EXCEPT ![u] = 0] ELSE fails
    /\ locked' = IF LockExpired(u) THEN [locked EXCEPT ![u] = 0] ELSE locked
    /\ guesses' = IF LockExpired(u) THEN [guesses EXCEPT ![u] = 0] ELSE guesses

\* POST login.
LoginStart(r, u, p) ==
    /\ Starts(r)
    /\ CheckLock(u)
    /\ thr' = [thr EXCEPT ![r] = [pc |-> "compare", op |-> "login", user |-> u, known |-> p]]
    /\ UNCHANGED <<storeVars, sessionVars, svcMu, clock, aFaults, revoked>>

\* POST password, with the identity of a valid session (AuthMiddleware).
ChangeStart(r, s, old, new) ==
    /\ Starts(r)
    /\ mem[s] # None /\ clock <= mem[s].until
    /\ CheckLock(mem[s].user)
    /\ thr' = [thr EXCEPT ![r] =
          [pc |-> "compare", op |-> "change", user |-> mem[s].user, known |-> old, new |-> new]]
    /\ UNCHANGED <<storeVars, sessionVars, svcMu, clock, aFaults, revoked>>

\* GetUser and CompareHashAndPassword.
Compare(r) ==
    /\ At(r, "compare")
    /\ IF pw[thr[r].user] = thr[r].known
       THEN Goes(r, "right") /\ UNCHANGED guesses
       ELSE Goes(r, "wrong") /\ guesses' = [guesses EXCEPT ![thr[r].user] = @ + 1]
    /\ UNCHANGED <<storeVars, sessionVars, fails, locked, svcMu, clock, aFaults, revoked>>

\* lockoutTracker.RecordFailure; the request is refused.
RecordFailure(r) ==
    LET u == thr[r].user
        n == IF LockExpired(u) THEN 1 ELSE fails[u] + 1
    IN  /\ At(r, "wrong")
        /\ IF locked[u] > clock
           THEN UNCHANGED <<fails, locked>>
           ELSE /\ fails' = [fails EXCEPT ![u] = n]
                /\ locked' = [locked EXCEPT ![u] = IF LocksAt(n) THEN clock + LockoutDuration ELSE 0]
        /\ guesses' = IF LockExpired(u) THEN [guesses EXCEPT ![u] = 1] ELSE guesses
        /\ Ends(r)
        /\ UNCHANGED <<storeVars, sessionVars, svcMu, clock, aFaults, revoked>>

\* lockoutTracker.Reset.
ResetLock(r) ==
    LET u == thr[r].user
    IN  /\ At(r, "right")
        /\ fails' = [fails EXCEPT ![u] = 0]
        /\ locked' = [locked EXCEPT ![u] = 0]
        /\ guesses' = [guesses EXCEPT ![u] = 0]
        /\ Goes(r, IF thr[r].op = "login" THEN "create" ELSE "set")
        /\ UNCHANGED <<storeVars, sessionVars, svcMu, clock, aFaults, revoked>>

(***************************************************************************)
(* Sessions.                                                               *)
(***************************************************************************)

NewSession(r) ==
    [user |-> thr[r].user, until |-> clock + SessionTTL, known |-> thr[r].known,
     raced |-> pw[thr[r].user] # thr[r].known]

\* SessionManager.Create: a session that cannot be stored is taken back.
CreateSession(r, s) ==
    /\ At(r, "create")
    /\ mem[s] = None /\ stored[s] = None /\ s \notin out
    /\ \/ /\ AuthFine
          /\ mem' = [mem EXCEPT ![s] = NewSession(r)]
          /\ stored' = [stored EXCEPT ![s] = NewSession(r)]
       \/ AuthFault /\ UNCHANGED <<mem, stored>>
    /\ Ends(r)
    /\ UNCHANGED <<storeVars, lockVars, svcMu, clock, revoked, out, undeleted>>

\* The sessions of gone leave memory; those of kept stay in the store because
\* their Delete fails, which nobody looks at.
EndSessions(gone, kept) ==
    /\ kept \subseteq gone
    /\ IF kept = {} THEN AuthFine ELSE AuthFault
    /\ mem' = [s \in Sids |-> IF s \in gone THEN None ELSE mem[s]]
    /\ stored' = [s \in Sids |-> IF s \in gone \ kept THEN None ELSE stored[s]]
    /\ out' = out \cup gone
    /\ undeleted' = (undeleted \ (gone \ kept)) \cup kept

\* POST logout: SessionManager.Revoke.
Logout(s) ==
    /\ mem[s] # None
    /\ \E kept \in SUBSET {s} : EndSessions({s}, kept)
    /\ UNCHANGED <<storeVars, lockVars, svcMu, thr, clock, revoked>>

\* SessionManager.Validate of a session whose time has passed.
ValidateExpired(s) ==
    /\ mem[s] # None /\ clock > mem[s].until
    /\ \E kept \in SUBSET {s} : EndSessions({s}, kept)
    /\ UNCHANGED <<storeVars, lockVars, svcMu, thr, clock, revoked>>

(***************************************************************************)
(* SetPassword, then RevokeSessionsForUser, then a new session.            *)
(***************************************************************************)

SetPassword(r) ==
    /\ At(r, "set")
    /\ \/ /\ AuthFine
          /\ pw' = [pw EXCEPT ![thr[r].user] = thr[r].new]
          /\ thr' = [thr EXCEPT ![r].pc = "revoke", ![r].known = thr[r].new]
       \/ AuthFault /\ UNCHANGED pw /\ Ends(r)
    /\ UNCHANGED <<rec, byHash, sessionVars, lockVars, svcMu, clock, revoked>>

SessionsOf(u) == {s \in Sids : mem[s] # None /\ mem[s].user = u}

RevokeSessionsForUser(r) ==
    /\ At(r, "revoke")
    /\ \E kept \in SUBSET SessionsOf(thr[r].user) : EndSessions(SessionsOf(thr[r].user), kept)
    /\ Goes(r, "create")
    /\ UNCHANGED <<storeVars, lockVars, svcMu, clock, revoked>>

(***************************************************************************)
(* API tokens.                                                             *)
(***************************************************************************)

\* CreateToken: one transaction; the secret is handed out after it.
CreateToken(k) ==
    /\ k \notin rec \cup byHash \cup revoked
    /\ \/ AuthFine /\ rec' = rec \cup {k} /\ byHash' = byHash \cup {k}
       \/ AuthFault /\ rec' = rec \cup {k} /\ UNCHANGED byHash
    /\ UNCHANGED <<pw, sessionVars, lockVars, svcMu, thr, clock, revoked>>

\* AuthenticateBearer: id by hash, record by id, write the record back with its
\* last use (an error of that write is ignored).  late (history): the token's
\* revocation was acknowledged before the request began.
BearerHash(r, k) ==
    /\ Starts(r)
    /\ k \in byHash
    /\ thr' = [thr EXCEPT ![r] = [pc |-> "record", token |-> k, late |-> k \in revoked]]
    /\ UNCHANGED <<storeVars, sessionVars, lockVars, svcMu, clock, aFaults, revoked>>

BearerRecord(r) ==
    /\ At(r, "record")
    /\ IF thr[r].token \in rec THEN Goes(r, "note") ELSE Ends(r)
    /\ UNCHANGED <<storeVars, sessionVars, lockVars, svcMu, clock, aFaults, revoked>>

BearerNote(r) ==
    /\ At(r, "note")
    /\ \/ AuthFine /\ rec' = rec \cup {thr[r].token}
       \/ AuthFault /\ UNCHANGED rec
    /\ Ends(r)
    /\ UNCHANGED <<pw, byHash, sessionVars, lockVars, svcMu, clock, revoked>>

\* RevokeToken: the record gives the hash, then one transaction removes both;
\* readers look between its mutations, and the second may fail.
RevokeGet(r, k) ==
    /\ Starts(r)
    /\ k \in rec
    /\ thr' = [thr EXCEPT ![r] = [pc |-> "delete", token |-> k]]
    /\ UNCHANGED <<storeVars, sessionVars, lockVars, svcMu, clock, aFaults, revoked>>

RevokeRecord(r) ==
    /\ At(r, "delete")
    /\ rec' = rec \ {thr[r].token}
    /\ Goes(r, "unhash")
    /\ UNCHANGED <<pw, byHash, sessionVars, lockVars, svcMu, clock, aFaults, revoked>>

\* Mutant: the hash stays behind.
RevokeHash_Keeps(r) ==
    /\ At(r, "unhash")
    /\ revoked' = revoked \cup {thr[r].token}
    /\ Ends(r)
    /\ UNCHANGED <<storeVars, sessionVars, lockVars, svcMu, clock, aFaults>>

RevokeHash(r) ==
    /\ At(r, "unhash")
    /\ \/ AuthFine /\ byHash' = byHash \ {thr[r].token} /\ revoked' = revoked \cup {thr[r].token}
       \/ AuthFault /\ UNCHANGED <<byHash, revoked>>
    /\ Ends(r)
    /\ UNCHANGED <<pw, rec, sessionVars, lockVars, svcMu, clock>>

(***************************************************************************)
(* Restart and time.                                                       *)
(***************************************************************************)

\* NewSessionManager loads what has not expired and removes the rest; lockouts
\* are gone.  The sessions that a request was about to revoke are back.
AuthRestart ==
    LET cut == {s \in Sids : \E r \in Requests : At(r, "revoke") /\ stored[s] # None /\ stored[s].user = thr[r].user}
        back == [s \in Sids |-> IF stored[s] # None /\ clock <= stored[s].until THEN stored[s] ELSE None]
    IN  /\ AuthFault
        /\ mem' = [s \in Sids |-> IF s \in cut /\ back[s] # None THEN [back[s] EXCEPT !.raced = TRUE] ELSE back[s]]
        /\ stored' = mem'
        /\ fails' = [u \in Users |-> 0] /\ locked' = [u \in Users |-> 0] /\ guesses' = [u \in Users |-> 0]
        /\ svcMu' = None
        /\ thr' = [r \in Requests |-> Resting]
        /\ UNCHANGED <<storeVars, clock, revoked, out, undeleted>>

\* EnsureAdmin, which main calls before it serves requests.
EnsureAdmin(u, p) ==
    /\ \A r \in Requests : Starts(r)
    /\ mem = [s \in Sids |-> None] /\ ~HasUsers
    /\ pw' = [pw EXCEPT ![u] = p]
    /\ UNCHANGED <<rec, byHash, sessionVars, lockVars, svcMu, thr, clock, aFaults, revoked>>

AuthTick ==
    /\ clock < AuthMaxTime
    /\ clock' = clock + 1
    /\ UNCHANGED <<storeVars, sessionVars, lockVars, svcMu, thr, aFaults, revoked>>

AuthNext ==
    \/ \E r \in Requests :
        \/ \E u \in Users, p \in Passwords : BootstrapCheck(r, u, p) \/ LoginStart(r, u, p)
        \/ \E s \in Sids, p, q \in Passwords : ChangeStart(r, s, p, q)
        \/ \E s \in Sids : CreateSession(r, s)
        \/ \E k \in Tokens : BearerHash(r, k) \/ RevokeGet(r, k)
        \/ BootstrapPut(r) \/ Compare(r) \/ RecordFailure(r) \/ ResetLock(r)
        \/ SetPassword(r) \/ RevokeSessionsForUser(r)
        \/ BearerRecord(r) \/ BearerNote(r) \/ RevokeRecord(r) \/ RevokeHash(r)
    \/ \E s \in Sids : Logout(s) \/ ValidateExpired(s)
    \/ \E k \in Tokens : CreateToken(k)
    \/ \E u \in Users, p \in Passwords : EnsureAdmin(u, p)
    \/ AuthRestart
    \/ AuthTick

AuthSpec == AuthInit /\ [][AuthNext]_authVars

(***************************************************************************)
(* Properties.                                                             *)
(***************************************************************************)

\* Bootstrap happens once: two requests for different names at the same time
\* do not both make an administrator (BootstrapAdmin, Service.mu).
BootstrapOnce == Cardinality({u \in Users : pw[u] # None}) <= 1

\* A changed password ends the sessions that rest on the old one, once the
\* request has revoked them; the exception is a session created by a request
\* that compared the old password before the change, or loaded after a restart
\* in the middle of it (POST password: SetPassword, RevokeSessionsForUser).
OldPasswordLoggedOut ==
    \A s \in Sids :
        mem[s] # None /\ mem[s].known # pw[mem[s].user] /\ ~mem[s].raced /\ s \notin undeleted
            => \E r \in Requests : At(r, "revoke") /\ thr[r].user = mem[s].user

\* A session that was logged out, revoked or found expired is accepted again
\* only when removing it from the store failed (deleteSession ignores it).
EndedStaysOut == \A s \in out \ undeleted : mem[s] = None /\ stored[s] = None

\* A request that begins after a token's revocation was acknowledged is not let
\* in, although a request that read the token earlier may write its record back.
RevokedRefused == \A r \in Requests : At(r, "note") => ~thr[r].late

\* Concurrent logins pass the lockout check together, but no more of them
\* compare a wrong password than the limit and the other requests allow.
GuessesBounded == \A u \in Users : guesses[u] <= MaxFailedAttempts + Cardinality(Requests) - 1

\* Credentials that were ended are refused: sessions that rest on an old
\* password or were logged out, revoked or found expired, and tokens whose
\* revocation was acknowledged.
EndedCredentialsRefused == OldPasswordLoggedOut /\ EndedStaysOut /\ RevokedRefused

\* The two checks that concurrent requests could pass together hold up: one
\* administrator is bootstrapped, and wrong passwords are bounded.
LoginGuards == BootstrapOnce /\ GuessesBounded
=============================================================================
