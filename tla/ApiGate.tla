------------------------------ MODULE ApiGate ------------------------------
(***************************************************************************)
(* The chain of middlewares in front of the REST, gRPC and MCP handlers    *)
(* (internal/api/rest/middleware.go, chained in cmd/monsoon/main.go) and   *)
(* the role check inside a handler.  Requests pass the chain concurrently; *)
(* each middleware reads the runtime settings when the request reaches it, *)
(* and a reload of the configuration changes them at any time.             *)
(*                                                                         *)
(* A request is what the chain looks at: its endpoint, whether it carries  *)
(* a bearer token or a session cookie (both valid: AuthService models      *)
(* their life), the role behind it, whether a browser sent it from another *)
(* site, and the address it comes from.  Time is counted in GTicks per     *)
(* second and tokens of a bucket in GTicks-ths, so the refill is exact.    *)
(***************************************************************************)
EXTENDS Integers, FiniteSets

CONSTANTS
    GateSlots,          \* requests
    GateHosts,          \* remote addresses
    GateSettings,       \* values of the runtime settings
    Endpoints,      \* endpoints the requests name
    GTicks,         \* ticks of the clock in a second
    GMaxTime        \* bound on the clock

ASSUME ApiGateAssumption ==
    /\ GTicks \in Nat \ {0}
    /\ \A s \in GateSettings : s.rate \in Nat \ {0} /\ s.authRate \in Nat \ {0} /\ s.enforced \in BOOLEAN
    /\ Endpoints \subseteq {"health", "login", "subnets", "tokens"}

VARIABLES gset, greq, buckets, gnow, admitted

gateVars == <<gset, greq, buckets, gnow, admitted>>

\* Ranks of HasRole.
RoleRank == [none |-> 0, viewer |-> 1, operator |-> 2, admin |-> 3]

\* What an endpoint is to the chain: isPublicAuthPath, isUnsafeMethod,
\* authRateLimitKey, the role its handler requires, and whether that handler
\* insists on an identity of its own (requireRoleWithService).
Endpoint ==
    [health  |-> [public |-> TRUE,  unsafe |-> FALSE, key |-> "",              role |-> "none",     strict |-> FALSE],
     login   |-> [public |-> TRUE,  unsafe |-> TRUE,  key |-> "login",         role |-> "none",     strict |-> FALSE],
     subnets |-> [public |-> FALSE, unsafe |-> TRUE,  key |-> "",              role |-> "operator", strict |-> FALSE],
     tokens  |-> [public |-> FALSE, unsafe |-> TRUE,  key |-> "tokens.create", role |-> "admin",    strict |-> TRUE]]

Credentials == {"none", "bearer", "session", "both"}
FreeSlot == [pc |-> "free", ep |-> "health", cred |-> "none", role |-> "none", cross |-> FALSE,
         host |-> "", enforced |-> FALSE, identity |-> "none", watched |-> FALSE]

BucketKeys == {"auth", "all"} \X GateHosts \X {"", "login", "tokens.create"} \X
              (UNION {{s.rate, s.authRate} : s \in GateSettings})
NoBucket == [tokens |-> -1, last |-> 0]

GateInit ==
    /\ gset \in GateSettings
    /\ greq = [r \in GateSlots |-> FreeSlot]
    /\ buckets = [k \in BucketKeys |-> NoBucket]
    /\ gnow = 0
    /\ admitted = {}

\* runtimeSettings.Apply: one lock, all the fields.
ApplySettings(s) ==
    /\ gset' = s
    /\ greq' = [r \in GateSlots |-> [greq[r] EXCEPT
           !.watched = @ /\ (s.enforced \/ greq[r].pc \in {"handler", "handled"})]]
    /\ UNCHANGED <<buckets, gnow, admitted>>

GateTick == gnow < GMaxTime /\ gnow' = gnow + 1 /\ UNCHANGED <<gset, greq, buckets, admitted>>

GateTo(r, pc) == greq' = [greq EXCEPT ![r].pc = pc]
GateAt(r, pc) == greq[r].pc = pc
EndpointOf(r) == Endpoint[greq[r].ep]

GateArrive(r, ep, cred, role, cross, host) ==
    /\ GateAt(r, "free")
    /\ (cred = "none") = (role = "none")
    /\ greq' = [greq EXCEPT ![r] =
           [pc |-> "csrf", ep |-> ep, cred |-> cred, role |-> role, cross |-> cross, host |-> host,
            enforced |-> FALSE, identity |-> "none", watched |-> gset.enforced]]
    /\ UNCHANGED <<gset, buckets, gnow, admitted>>

\* CSRFMiddleware: an unsafe request with the session cookie from another
\* site (isTrustedCSRFRequest, isCrossSiteFetch) is rejected.
CSRFGate(r) ==
    /\ GateAt(r, "csrf")
    /\ GateTo(r, IF EndpointOf(r).unsafe /\ greq[r].cred \in {"session", "both"} /\ greq[r].cross
               THEN "rejected" ELSE "authLimit")
    /\ UNCHANGED <<gset, buckets, gnow, admitted>>

\* tokenBucketLimiter.allow up to the decision: newLimiter is full.
Refilled(b, rate) ==
    IF b = NoBucket THEN rate * GTicks
    ELSE LET t == b.tokens + (gnow - b.last) * rate IN
         IF t > rate * GTicks THEN rate * GTicks ELSE t

\* LoadOrStore and allow.
Limiter(r, lim, key, rate, next) ==
    LET k == <<lim, greq[r].host, key, rate>>
        t == Refilled(buckets[k], rate)
        ok == t >= GTicks
    IN  /\ buckets' = [buckets EXCEPT ![k] = [tokens |-> IF ok THEN t - GTicks ELSE t, last |-> gnow]]
        /\ admitted' = IF ok THEN admitted \cup {[k |-> k, req |-> r, at |-> gnow]} ELSE admitted
        /\ GateTo(r, IF ok THEN next ELSE "limited")
        /\ UNCHANGED <<gset, gnow>>

\* AuthRateLimitMiddlewareFunc: the authentication endpoints only.
AuthRateLimit(r) ==
    /\ GateAt(r, "authLimit")
    /\ IF EndpointOf(r).key = ""
       THEN GateTo(r, "limit") /\ UNCHANGED <<gset, buckets, gnow, admitted>>
       ELSE Limiter(r, "auth", EndpointOf(r).key, gset.authRate, "limit")

\* RateLimitMiddlewareFunc
RateLimit(r) == GateAt(r, "limit") /\ Limiter(r, "all", "", gset.rate, "auth")

\* resolveIdentity: the bearer token, then the session.
resolveIdentity(r) == greq[r].role

\* AuthMiddlewareFunc
AuthGate(r) ==
    /\ GateAt(r, "auth")
    /\ greq' = [greq EXCEPT ![r] =
           IF ~gset.enforced THEN [@ EXCEPT !.pc = "handler", !.enforced = FALSE]
           ELSE IF EndpointOf(r).public THEN [@ EXCEPT !.pc = "handler", !.enforced = TRUE]
           ELSE IF resolveIdentity(r) = "none" THEN [@ EXCEPT !.pc = "unauthorized"]
           ELSE [@ EXCEPT !.pc = "handler", !.enforced = TRUE, !.identity = resolveIdentity(r)]]
    /\ UNCHANGED <<gset, buckets, gnow, admitted>>

\* Mutant: any identity will do.
requireRole_AnyIdentity(r) == greq[r].identity # "none" \/ ~greq[r].enforced

\* requireRole
requireRole(r) ==
    IF greq[r].identity = "none" THEN ~greq[r].enforced
    ELSE RoleRank[greq[r].identity] >= RoleRank[EndpointOf(r).role]

\* requireRoleWithService
requireRoleWithService(r) ==
    LET id == IF greq[r].identity = "none" THEN resolveIdentity(r) ELSE greq[r].identity
    IN  id # "none" /\ RoleRank[id] >= RoleRank[EndpointOf(r).role]

\* The handler runs if it needs no role or the role check lets it.
HandleRequest(r) ==
    /\ GateAt(r, "handler")
    /\ GateTo(r, IF EndpointOf(r).role = "none"
                  \/ IF EndpointOf(r).strict THEN requireRoleWithService(r) ELSE requireRole(r)
               THEN "handled" ELSE "forbidden")
    /\ UNCHANGED <<gset, buckets, gnow, admitted>>

GateNext ==
    \/ \E s \in GateSettings : ApplySettings(s)
    \/ GateTick
    \/ \E r \in GateSlots :
        \/ \E ep \in Endpoints, cred \in Credentials, role \in {"none", "viewer", "operator", "admin"},
              cross \in BOOLEAN, host \in GateHosts : GateArrive(r, ep, cred, role, cross, host)
        \/ CSRFGate(r) \/ AuthRateLimit(r) \/ RateLimit(r) \/ AuthGate(r) \/ HandleRequest(r)

GateSpec == GateInit /\ [][GateNext]_gateVars

-----------------------------------------------------------------------------
(* Properties                                                              *)

\* A bucket never holds more than its capacity nor a negative amount, and
\* requests only carry identities the credentials gave them.
GateTypeOK ==
    /\ gset \in GateSettings
    /\ \A k \in BucketKeys : buckets[k] # NoBucket =>
          buckets[k].tokens \in 0..(k[4] * GTicks) /\ buckets[k].last \in 0..gnow
    /\ \A r \in GateSlots : greq[r].identity \in {"none", greq[r].role}

\* A handler that needs a role runs only for a request that carries it, if
\* authentication was enforced all the time from the request's arrival to
\* its passing AuthMiddleware, however settings are switched for the others;
\* the handlers of tokens even when it is not enforced.  An unsafe request a
\* browser sent from another site never runs on the strength of a session.
GateHolds ==
    \A r \in GateSlots : GateAt(r, "handled") =>
        /\ RoleRank[EndpointOf(r).role] > 0 /\ (greq[r].watched \/ EndpointOf(r).strict) =>
              RoleRank[greq[r].role] >= RoleRank[EndpointOf(r).role]
        /\ EndpointOf(r).unsafe /\ greq[r].cross => greq[r].cred \in {"none", "bearer"}

\* In any d ticks a limiter lets at most its burst and what flows in
\* meanwhile through: rate + rate * d / GTicks requests per address, endpoint
\* and limit in force, whatever requests run at once and limits are reloaded.
RateBounded ==
    \A k \in BucketKeys, from \in 0..gnow, to \in 0..gnow :
        LET n == Cardinality({a \in admitted : a.k = k /\ a.at \in from..to})
        IN  from <= to => n * GTicks <= k[4] * GTicks + k[4] * (to - from)

\* The chain lets a request through only as roles and rate limits allow.
GateGuards == GateHolds /\ RateBounded
=============================================================================
