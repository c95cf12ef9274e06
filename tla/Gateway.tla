------------------------------ MODULE Gateway -------------------------------
(***************************************************************************)
(* The gateway's request pipeline (gateway/main.py: gateway_handler) with  *)
(* the token exchange it makes on the way (auth/token_exchange.py) and the *)
(* Redis cache of exchanged tokens that all requests share.                *)
(*                                                                         *)
(* The gateway is one asyncio process: between two awaits a request runs   *)
(* alone, so one action is the code from one await to the next, together   *)
(* with the answer that ends the await.  The awaits of the pipeline are    *)
(* redis.get, the POST to Keycloak, redis.setex and the proxied request;   *)
(* any other request may run, and time may pass, at each of them.          *)
(*                                                                         *)
(* pc[r]  "new"     r has not reached the handler                          *)
(*        "lookup"  in exchange(), awaiting redis.get                      *)
(*        "call"    in _call_keycloak(), the POST has not been answered    *)
(*        "reply"   Keycloak has issued a token, its reply is under way    *)
(*        "store"   in exchange(), awaiting redis.setex                    *)
(*        "proxy"   in proxy_request(), the backend has not been reached   *)
(*        "await"   the backend has the request                            *)
(*        "done"    answered;  "lost"  the gateway stopped first           *)
(***************************************************************************)
EXTENDS PathRouter

CONSTANTS
  Requests,    \* HTTP requests
  Token,       \* the tokens callers present, one per login (one jti each)
  Genuine,     \* those of them the realm signed
  Subject,     \* the callers' subjects (claim sub)
  SubOf,       \* SubOf[t], the subject of t
  ScopesOf,    \* ScopesOf[t], scopes and roles t carries
  ExpOf,       \* ExpOf[t], the time t expires
  Scope,
  RouteScope,  \* RouteScope[p], the scope route p requires
  Audience,
  RouteAud,    \* RouteAud[p], the audience its tokens are exchanged for
  McpGateway,  \* mcp-gateway: audience of a caller's token, actor of an exchange
  Lifespans,   \* how long a token Keycloak issues may live
  CacheTTL,    \* token_exchange_cache_ttl
  StoreDelay,  \* the longest a setex takes (environment)
  MaxTime      \* bound on the clock

ASSUME GatewayAssumption ==
  /\ Genuine \subseteq Token
  /\ SubOf \in [Token -> Subject]
  /\ ScopesOf \in [Token -> SUBSET Scope]
  /\ ExpOf \in [Token -> Nat]
  /\ RouteScope \in [Route -> Scope]
  /\ RouteAud \in [Route -> Audience]
  /\ Lifespans \subseteq Nat \ {0}
  /\ CacheTTL \in Nat /\ StoreDelay \in Nat /\ MaxTime \in Nat
  /\ McpGateway \notin Audience

VARIABLES
  now,        \* the clock
  pc,
  token,      \* token[r], the bearer token r presented
  route,      \* route[r], the route r was admitted to
  path,       \* path[r], the path the router was asked about for r
  exchanged,  \* exchanged[r], what Keycloak answered for r
  sentAt,     \* sentAt[r], when the setex of r was sent
  bearer,     \* bearer[r], backend_token
  performed,  \* performed[r], exchange_performed
  cache,      \* Redis: cache[<<t, a>>], the exchanged token, and when it dies
  delivered,  \* delivered[r], the claims the backend saw for r
  audit,      \* audit[r], the audit entries written for r
  resp        \* resp[r], the status r was answered with

local == <<token, route, path, exchanged, sentAt, bearer, performed>>
vars == <<now, pc, local, cache, delivered, audit, resp>>

JWT == [sub: Subject, aud: Audience \cup {McpGateway}, act: {McpGateway, None}, exp: Nat]
SeenClaims == [sub: Subject, aud: Audience \cup {McpGateway}, act: {McpGateway, None}]
Entry == [tok: JWT, dies: Nat]
Keys == Token \X Audience

InFlight == {"lookup", "call", "reply", "store", "proxy", "await"}
Status == {"401", "403", "404", "502", "backend"}
AuditEntry == [decision: {"DENY", "ERROR", "PERMIT"},
               sub: Subject \cup {None}, performed: BOOLEAN]

\* The absent value is none of the values it stands in for.
ASSUME NoneAssumption ==
  None \notin Token \cup Route \cup Subject \cup Audience \cup JWT \cup Entry
            \cup SeenClaims \cup Status \cup [sub: Subject, aud: Audience \cup {McpGateway}]

-----------------------------------------------------------------------------
\* Variant: the subject claim is lost.
OriginalNoSub(t) ==
  [sub |-> None, aud |-> McpGateway, act |-> None, exp |-> ExpOf[t]]

\* The token t itself, as a backend sees it when it is forwarded unexchanged.
Original(t) ==
  [sub |-> SubOf[t], aud |-> McpGateway, act |-> None, exp |-> ExpOf[t]]

\* JWTValidator.validate: signature and issuer, and exp strictly in the future.
Valid(t) == t \in Genuine /\ now < ExpOf[t]

\* Variant: the scope check is skipped.
MayUseAny(t, p) == TRUE

\* check_scope: scopes, realm roles and client roles count alike.
MayUse(t, p) == RouteScope[p] \in ScopesOf[t]

\* Variants: the key leaves out the audience, or the caller's jti.
CacheKeyNoAudience(t, a) == <<t, CHOOSE b \in Audience : TRUE>>
CacheKeyNoJti(t, a) == <<CHOOSE u \in Token : TRUE, a>>

\* _cache_key: the subject token's jti and the audience.
CacheKey(t, a) == <<t, a>>

\* Variant: the token's own expiry is forgotten.
TtlConfigured(exp, t) == CacheTTL

\* min(int(expires_at - time.time()), cache_ttl), at the time it is computed.
Ttl(exp, t) == IF exp - t < CacheTTL THEN exp - t ELSE CacheTTL

KeyOf(r) == CacheKey(token[r], RouteAud[route[r]])

\* The entry log_access_decision writes when r is decided.
Log(r, d, s) ==
  audit' = [audit EXCEPT ![r] =
              Append(@, [decision |-> d, sub |-> s, performed |-> performed[r]])]

\* r is answered and the handler's locals are gone.
Answer(r, status) ==
  /\ resp' = [resp EXCEPT ![r] = status]
  /\ pc' = [pc EXCEPT ![r] = "done"]
  /\ bearer' = [bearer EXCEPT ![r] = None]
  /\ performed' = [performed EXCEPT ![r] = FALSE]
-----------------------------------------------------------------------------
Init ==
  /\ now = 0
  /\ pc = [r \in Requests |-> "new"]
  /\ token = [r \in Requests |-> None]
  /\ route = [r \in Requests |-> None]
  /\ path = [r \in Requests |-> None]
  /\ exchanged = [r \in Requests |-> None]
  /\ sentAt = [r \in Requests |-> 0]
  /\ bearer = [r \in Requests |-> None]
  /\ performed = [r \in Requests |-> FALSE]
  /\ cache = [k \in Keys |-> None]
  /\ delivered = [r \in Requests |-> None]
  /\ audit = [r \in Requests |-> <<>>]
  /\ resp = [r \in Requests |-> None]

\* _extract_bearer raises before the handler's try: 401 and no audit entry.
RejectNoBearer(r) ==
  /\ pc[r] = "new"
  /\ Answer(r, "401")
  /\ UNCHANGED <<now, token, route, path, exchanged, sentAt, cache, delivered, audit>>

\* A request that presents t is turned away with an audit entry.
Reject(r, t, s, status) ==
  /\ pc[r] = "new"
  /\ token' = [token EXCEPT ![r] = t]
  /\ Log(r, "DENY", s)
  /\ Answer(r, status)
  /\ UNCHANGED <<now, route, exchanged, sentAt, cache, delivered>>

\* validate raises: t is not valid, or the keys to tell could not be had.
RejectInvalid(r, t) == Reject(r, t, None, "401") /\ UNCHANGED path

\* What the router makes of the paths requests ask for.
Matched == [x \in Paths |-> Match(x)]

RejectNoRoute(r, t, x) ==
  /\ Valid(t) /\ Matched[x] = None
  /\ Reject(r, t, SubOf[t], "404")
  /\ path' = [path EXCEPT ![r] = x]

RejectScope(r, t, x) ==
  /\ Valid(t) /\ Matched[x] # None /\ ~MayUse(t, Matched[x])
  /\ Reject(r, t, SubOf[t], "403")
  /\ path' = [path EXCEPT ![r] = x]

\* Steps 1 to 3 pass; backend_token defaults to the caller's token and
\* exchange() sends redis.get.
Admit(r, t, x) ==
  /\ pc[r] = "new"
  /\ Valid(t) /\ Matched[x] # None /\ MayUse(t, Matched[x])
  /\ token' = [token EXCEPT ![r] = t]
  /\ route' = [route EXCEPT ![r] = Matched[x]]
  /\ path' = [path EXCEPT ![r] = x]
  /\ bearer' = [bearer EXCEPT ![r] = Original(t)]
  /\ pc' = [pc EXCEPT ![r] = "lookup"]
  /\ UNCHANGED <<now, exchanged, sentAt, performed, cache, delivered, audit, resp>>

-----------------------------------------------------------------------------
\* The coroutine exchange() ends, its locals with it, and step 5 begins.
LeaveExchange(r) ==
  /\ pc' = [pc EXCEPT ![r] = "proxy"]
  /\ exchanged' = [exchanged EXCEPT ![r] = None]
  /\ sentAt' = [sentAt EXCEPT ![r] = 0]

\* exchange() returned tok: the handler forwards it.
Forward(r, tok) ==
  /\ bearer' = [bearer EXCEPT ![r] = tok]
  /\ performed' = [performed EXCEPT ![r] = TRUE]
  /\ LeaveExchange(r)

\* Variant: exchange_performed is set before exchange() has returned.
FallBackPerformed(r) ==
  /\ performed' = [performed EXCEPT ![r] = TRUE]
  /\ UNCHANGED bearer
  /\ LeaveExchange(r)

\* exchange() raised: the handler logs a warning and forwards the caller's token.
FallBack(r) ==
  /\ UNCHANGED <<bearer, performed>>
  /\ LeaveExchange(r)

LookupHit(r) ==
  /\ pc[r] = "lookup"
  /\ cache[KeyOf(r)] # None
  /\ Forward(r, cache[KeyOf(r)].tok)
  /\ UNCHANGED <<now, token, route, path, cache, delivered, audit, resp>>

LookupMiss(r) ==
  /\ pc[r] = "lookup"
  /\ cache[KeyOf(r)] = None
  /\ pc' = [pc EXCEPT ![r] = "call"]
  /\ UNCHANGED <<now, local, cache, delivered, audit, resp>>

\* redis.get raises.
LookupFail(r) ==
  /\ pc[r] = "lookup"
  /\ FallBack(r)
  /\ UNCHANGED <<now, token, route, path, cache, delivered, audit, resp>>

\* Keycloak grants the exchange (it refuses a subject token that has expired).
KeycloakIssue(r) ==
  /\ pc[r] = "call"
  /\ now < ExpOf[token[r]]
  /\ \E life \in Lifespans :
       exchanged' = [exchanged EXCEPT ![r] =
         [sub |-> SubOf[token[r]], aud |-> RouteAud[route[r]],
          act |-> McpGateway, exp |-> now + life]]
  /\ pc' = [pc EXCEPT ![r] = "reply"]
  /\ UNCHANGED <<now, token, route, path, sentAt, bearer, performed, cache,
                 delivered, audit, resp>>

\* Variant: only a lost answer is a failure, a refused exchange is waited for.
KeycloakFailLate(r) ==
  /\ pc[r] = "reply"
  /\ FallBack(r)
  /\ UNCHANGED <<now, token, route, path, cache, delivered, audit, resp>>

\* Keycloak answers with an error, or its answer does not come in time.
KeycloakFail(r) ==
  /\ pc[r] \in {"call", "reply"}
  /\ FallBack(r)
  /\ UNCHANGED <<now, token, route, path, cache, delivered, audit, resp>>

\* Keycloak's reply is read: a token with time left is stored first ...
SendStore(r) ==
  /\ pc[r] = "reply"
  /\ Ttl(exchanged[r].exp, now) > 0
  /\ sentAt' = [sentAt EXCEPT ![r] = now]
  /\ pc' = [pc EXCEPT ![r] = "store"]
  /\ UNCHANGED <<now, token, route, path, exchanged, bearer, performed, cache,
                 delivered, audit, resp>>

\* ... one with none left is forwarded uncached.
SkipStore(r) ==
  /\ pc[r] = "reply"
  /\ Ttl(exchanged[r].exp, now) <= 0
  /\ Forward(r, exchanged[r])
  /\ UNCHANGED <<now, token, route, path, cache, delivered, audit, resp>>

\* Redis executes the setex of r: the entry lives ttl seconds from now on, ttl
\* being what remained when it was sent.
CacheWrite(r) ==
  cache' = [cache EXCEPT ![KeyOf(r)] =
              [tok |-> exchanged[r], dies |-> now + Ttl(exchanged[r].exp, sentAt[r])]]

Store(r) ==
  /\ pc[r] = "store"
  /\ CacheWrite(r)
  /\ Forward(r, exchanged[r])
  /\ UNCHANGED <<now, token, route, path, delivered, audit, resp>>

\* redis.setex raises, executed or not: the token just issued is dropped.
StoreFail(r) ==
  /\ pc[r] = "store"
  /\ CacheWrite(r) \/ UNCHANGED cache
  /\ FallBack(r)
  /\ UNCHANGED <<now, token, route, path, delivered, audit, resp>>

-----------------------------------------------------------------------------
\* What a backend reads of a token: the claims the properties tell apart.
Seen(tok) == [sub |-> tok.sub, aud |-> tok.aud, act |-> tok.act]

BackendReceive(r) ==
  /\ pc[r] = "proxy"
  /\ delivered' = [delivered EXCEPT ![r] = Seen(bearer[r])]
  /\ pc' = [pc EXCEPT ![r] = "await"]
  /\ UNCHANGED <<now, local, cache, audit, resp>>

\* The backend's response, whatever its status, is passed through.
BackendReply(r) ==
  /\ pc[r] = "await"
  /\ Log(r, "PERMIT", SubOf[token[r]])
  /\ Answer(r, "backend")
  /\ UNCHANGED <<now, token, route, path, exchanged, sentAt, cache, delivered>>

\* proxy_request raises: backend down, connection lost, timeout.
ProxyFail(r) ==
  /\ pc[r] \in {"proxy", "await"}
  /\ Log(r, "ERROR", SubOf[token[r]])
  /\ Answer(r, "502")
  /\ UNCHANGED <<now, token, route, path, exchanged, sentAt, cache, delivered>>

-----------------------------------------------------------------------------
\* The gateway process stops and restarts: requests in flight are gone, what
\* Redis holds is not.
Crash ==
  /\ \E r \in Requests : pc[r] \in InFlight
  /\ pc' = [r \in Requests |-> IF pc[r] \in InFlight THEN "lost" ELSE pc[r]]
  /\ exchanged' = [r \in Requests |-> None]
  /\ sentAt' = [r \in Requests |-> 0]
  /\ bearer' = [r \in Requests |-> None]
  /\ performed' = [r \in Requests |-> FALSE]
  /\ UNCHANGED <<now, token, route, path, cache, delivered, audit, resp>>

\* maxmemory-policy allkeys-lru: Redis may drop any key.
Evict(k) ==
  /\ cache[k] # None
  /\ cache' = [cache EXCEPT ![k] = None]
  /\ UNCHANGED <<now, pc, local, delivered, audit, resp>>

\* A second passes; Redis drops the entries whose TTL is over.
Tick ==
  /\ now < MaxTime
  /\ \A r \in Requests : pc[r] = "store" => now - sentAt[r] < StoreDelay
  /\ now' = now + 1
  /\ cache' = [k \in Keys |-> IF cache[k] # None /\ cache[k].dies <= now + 1
                              THEN None ELSE cache[k]]
  /\ UNCHANGED <<pc, local, delivered, audit, resp>>

Arrive(r) ==
  \/ RejectNoBearer(r)
  \/ \E t \in Token : \/ RejectInvalid(r, t)
                      \/ \E x \in Paths :
                           RejectNoRoute(r, t, x) \/ RejectScope(r, t, x) \/ Admit(r, t, x)

Exchange(r) ==
  \/ LookupHit(r) \/ LookupMiss(r) \/ LookupFail(r)
  \/ KeycloakIssue(r) \/ KeycloakFail(r)
  \/ SendStore(r) \/ SkipStore(r) \/ Store(r) \/ StoreFail(r)

Proxy(r) == BackendReceive(r) \/ BackendReply(r) \/ ProxyFail(r)

Next ==
  \/ \E r \in Requests : Arrive(r) \/ Exchange(r) \/ Proxy(r)
  \/ Crash
  \/ \E k \in Keys : Evict(k)
  \/ Tick

Spec == Init /\ [][Next]_vars

\* Every await of the pipeline ends: Redis answers or its connection breaks,
\* httpx gives up after 10 s (Keycloak) or route.timeout (backend).  Callers,
\* eviction, crashes and the clock owe nothing.
Fairness == \A r \in Requests : WF_vars(Exchange(r) \/ Proxy(r))

FairSpec == Spec /\ Fairness
-----------------------------------------------------------------------------
TypeOK ==
  /\ now \in Nat
  /\ pc \in [Requests -> InFlight \cup {"new", "done", "lost"}]
  /\ token \in [Requests -> Token \cup {None}]
  /\ route \in [Requests -> Route \cup {None}]
  /\ path \in [Requests -> Paths \cup {None}]
  /\ exchanged \in [Requests -> JWT \cup {None}]
  /\ sentAt \in [Requests -> Nat]
  /\ bearer \in [Requests -> JWT \cup {None}]
  /\ performed \in [Requests -> BOOLEAN]
  /\ cache \in [Keys -> Entry \cup {None}]
  /\ delivered \in [Requests -> SeenClaims \cup {None}]
  /\ audit \in [Requests -> Seq(AuditEntry)]
  /\ resp \in [Requests -> Status \cup {None}]

\* A backend never sees a request under another caller's subject, whatever is
\* in the shared cache and however requests interleave; a token narrowed by an
\* exchange is for the backend it is sent to (proxy.py's Authorization header).
SubjectPreserved ==
  \A r \in Requests : delivered[r] # None =>
    /\ delivered[r].sub = SubOf[token[r]]
    /\ delivered[r].aud \in {RouteAud[route[r]], McpGateway}
    /\ delivered[r].aud # McpGateway => delivered[r].act = McpGateway

\* Redis holds a token for an audience only under the login it was exchanged
\* for, and only if that login has the scope of a route to that audience: no
\* exchange is made, or kept, for a caller who fails the scope check.
CacheSound ==
  \A t \in Token, a \in Audience : cache[<<t, a>>] # None =>
    /\ cache[<<t, a>>].tok.sub = SubOf[t]
    /\ cache[<<t, a>>].tok.aud = a
    /\ t \in Genuine
    /\ \E p \in Route : RouteAud[p] = a /\ RouteScope[p] \in ScopesOf[t]

\* Redis serves a token after its expiry by at most the time a setex takes:
\* the TTL is computed from the token's exp before the setex is sent.
CacheStalenessBounded ==
  \A k \in Keys : cache[k] # None => now < cache[k].tok.exp + StoreDelay

\* The routes whose prefix is all of a path or its first segments.
Covering == [x \in Paths |-> {p \in Route : Covers(p, x)}]

\* p is the longest of them, and its backend is asked for the rest of the path.
Forwards(x, p) ==
  /\ p \in Covering[x]
  /\ \A q \in Covering[x] : Len(PathPrefix[q]) <= Len(PathPrefix[p])
  /\ \/ Strip(x) = Strip(PathPrefix[p]) /\ BackendPath(x, p) = <<Slash>>
     \/ Strip(x) = Strip(PathPrefix[p]) \o BackendPath(x, p)

\* A request is forwarded to the route with the longest prefix made of the first
\* segments of its path, whatever order routes.yaml lists the routes in, and the
\* backend is asked for exactly the rest; it is turned away with a 404 only if no
\* prefix covers its path (PathRouter.match, get_backend_path).
RoutesByWholeSegments ==
  \A r \in Requests :
    /\ route[r] # None => Forwards(path[r], route[r])
    /\ resp[r] = "404" => Covering[path[r]] = {}

Decision(status) ==
  IF status = "backend" THEN "PERMIT" ELSE IF status = "502" THEN "ERROR" ELSE "DENY"

\* Every answer to a request that presented a token has exactly one audit
\* entry, and the entry tells the truth: the decision matches the answer, and
\* exchange_performed says whether the backend was shown an exchanged token or
\* the caller's own.
AuditMatchesOutcome ==
  \A r \in Requests :
    /\ resp[r] = None => audit[r] = <<>>
    /\ resp[r] # None /\ token[r] # None =>
         /\ Len(audit[r]) = 1
         /\ audit[r][1].decision = Decision(resp[r])
         /\ delivered[r] # None =>
              /\ audit[r][1].sub = delivered[r].sub
              /\ audit[r][1].performed = (delivered[r].aud # McpGateway)

\* What the steps of one request preserve: where it stands in the pipeline
\* fixes what it holds, what its backend has seen and what has been logged.
Authorised(r) ==
  /\ token[r] \in Genuine /\ route[r] \in Route
  /\ MayUse(token[r], route[r])

\* backend_token is the caller's own, or an exchanged one for the matched route.
BearerSound(r) ==
  \/ ~performed[r] /\ bearer[r] = Original(token[r])
  \/ /\ performed[r] /\ bearer[r] \in JWT
     /\ bearer[r].sub = SubOf[token[r]]
     /\ bearer[r].aud = RouteAud[route[r]]
     /\ bearer[r].act = McpGateway

ExchangedSound(r) ==
  /\ exchanged[r] \in JWT
  /\ exchanged[r].sub = SubOf[token[r]]
  /\ exchanged[r].aud = RouteAud[route[r]]
  /\ exchanged[r].act = McpGateway

DeliveredSound(r) ==
  delivered[r] # None =>
    /\ Authorised(r)
    /\ delivered[r].sub = SubOf[token[r]]
    /\ \/ delivered[r].aud = McpGateway
       \/ delivered[r].aud = RouteAud[route[r]] /\ delivered[r].act = McpGateway

RequestInv(r) ==
  /\ DeliveredSound(r)
  /\ pc[r] = "new" => token[r] = None /\ route[r] = None /\ ~performed[r]
  /\ pc[r] \in {"new", "lookup", "call", "reply", "store", "proxy"} => delivered[r] = None
  /\ pc[r] \in InFlight => Authorised(r) /\ BearerSound(r)
  /\ pc[r] \in {"lookup", "call", "reply", "store"} => ~performed[r]
  /\ pc[r] \in {"reply", "store"} => ExchangedSound(r)
  /\ pc[r] = "store" =>
       /\ sentAt[r] <= now /\ now <= sentAt[r] + StoreDelay
       /\ Ttl(exchanged[r].exp, sentAt[r]) > 0
  /\ pc[r] = "await" => delivered[r] = Seen(bearer[r])
  /\ pc[r] # "done" => resp[r] = None /\ audit[r] = <<>>
  /\ pc[r] = "done" => resp[r] # None
  /\ pc[r] = "done" /\ token[r] # None =>
       /\ Len(audit[r]) = 1
       /\ audit[r][1].decision = Decision(resp[r])
       /\ delivered[r] # None =>
            /\ audit[r][1].sub = delivered[r].sub
            /\ audit[r][1].performed = (delivered[r].aud # McpGateway)
  /\ resp[r] = "backend" => delivered[r] # None

\* What the router answered for r is what r was admitted to, or turned away for.
RoutedInv(r) ==
  /\ route[r] # None => path[r] \in Paths /\ route[r] = Matched[path[r]]
  /\ resp[r] = "404" => path[r] \in Paths /\ Matched[path[r]] = None

\* What the steps of all requests preserve of the cache they share.
EntryInv(t, a) ==
  cache[<<t, a>>] # None =>
    /\ t \in Genuine
    /\ \E p \in Route : RouteAud[p] = a /\ MayUse(t, p)
    /\ cache[<<t, a>>].tok.sub = SubOf[t]
    /\ cache[<<t, a>>].tok.aud = a
    /\ cache[<<t, a>>].tok.act = McpGateway
    /\ now < cache[<<t, a>>].dies
    /\ cache[<<t, a>>].dies <= cache[<<t, a>>].tok.exp + StoreDelay

PipelineInv ==
  /\ TypeOK
  /\ \A r \in Requests : RequestInv(r) /\ RoutedInv(r)
  /\ \A t \in Token, a \in Audience : EntryInv(t, a)

\* Every request the handler has admitted is answered, unless the gateway stops.
Answered ==
  \A r \in Requests : pc[r] \in InFlight ~> pc[r] \in {"done", "lost"}
-----------------------------------------------------------------------------
\* The access a request for route p under token t asks for.
Access(t, p) == [sub |-> SubOf[t], aud |-> RouteAud[p]]

\* The accesses the realm allows: a login whose scopes cover the route.
Granted ==
  {Access(x[1], x[2]) :
     x \in {y \in Genuine \X Route : RouteScope[y[2]] \in ScopesOf[y[1]]}}

AskedFor ==
  [r \in Requests |-> IF route[r] = None THEN None ELSE Access(token[r], route[r])]
Shown ==
  [r \in Requests |-> IF delivered[r] = None THEN None
                      ELSE [sub |-> delivered[r].sub, aud |-> delivered[r].aud]]
Outcome(p, status) ==
  IF p = "lost" THEN "lost"
  ELSE IF p # "done" THEN "pending"
  ELSE IF status = "backend" THEN "permit"
  ELSE IF status = "502" THEN "error" ELSE "deny"
OutcomeOf == [r \in Requests |-> Outcome(pc[r], resp[r])]

\* The pipeline implements the abstract access decision.
Decided ==
  INSTANCE AccessDecision WITH
    Grants <- Granted, Gateway <- McpGateway,
    asked <- AskedFor, shown <- Shown, outcome <- OutcomeOf

\* Denied outright, or shown to its own backend at most once and permitted only
\* after that: every step of the pipeline is a step of AccessDecision.
ImplementsAccessDecision == Decided!Spec
=============================================================================
