--------------------------- MODULE ToolAggregator ---------------------------
(***************************************************************************)
(* GET /tools/aggregate (routing/tool_aggregator.py): the tools of every   *)
(* backend the caller's scopes reach, fetched in parallel, merged into one *)
(* manifest and cached in Redis under the caller's scope set.              *)
(*                                                                         *)
(* A manifest is a function from backends to the version of the tool list  *)
(* it holds of each, None for a backend it lists no tools of.              *)
(***************************************************************************)
EXTENDS Integers, Sequences

CONSTANTS
  Requests,    \* the aggregation requests
  Route,       \* the backends, by route name
  RouteScope,  \* RouteScope[b], the scope route b requires
  ScopeSets,   \* the scope sets callers may have
  CacheTTL,    \* tool_aggregation_cache_ttl
  FetchTime,   \* the longest a miss takes from redis.get to redis.setex
  MaxTime,     \* bound on the clock
  MaxDeploys,  \* bound on the times a backend's tools change
  Pending,     \* a fetch that has not ended
  None

ASSUME AggregatorAssumption ==
  /\ RouteScope \in [Route -> UNION ScopeSets]
  /\ CacheTTL \in Nat \ {0} /\ FetchTime \in Nat
  /\ MaxTime \in Nat /\ MaxDeploys \in Nat
  /\ Pending \notin Nat /\ None \notin Nat /\ Pending # None

VARIABLES
  now,
  deployedAt,  \* deployedAt[b], the times the tool list of backend b has changed
  failedAt,    \* failedAt[b], the last time a fetch from b failed, or None
  pc,          \* "new", then awaiting "get", "fetch" (gather), "set"; "done"
  scopes,      \* scopes[r], the scopes of the caller of r
  got,         \* got[r][b], what the fetch from b has come to
  since,       \* since[r], when the fetches of r began
  cache,       \* cache[S], the manifest cached for scope set S, and when it dies
  reply        \* reply[r], the status and manifest r was answered with

vars == <<now, deployedAt, failedAt, pc, scopes, got, since, cache, reply>>

Manifest == [Route -> Nat \cup {None}]
Empty == [b \in Route |-> None]

-----------------------------------------------------------------------------
\* The routes whose scope the caller has.
Accessible(S) == {b \in Route : RouteScope[b] \in S}

\* Variant: one key for every caller.
CacheKeyShared(S) == CHOOSE T \in ScopeSets : Accessible(T) # {}

\* _cache_key: the sorted scope set.
CacheKey(S) == S

\* The number of times the tool list of b has changed.
Version(b) == Len(deployedAt[b])

Respond(r, status, m) ==
  /\ reply' = [reply EXCEPT ![r] = [status |-> status, manifest |-> m]]
  /\ pc' = [pc EXCEPT ![r] = "done"]
  /\ got' = [got EXCEPT ![r] = None]
  /\ since' = [since EXCEPT ![r] = None]
-----------------------------------------------------------------------------
Init ==
  /\ now = 0
  /\ deployedAt = [b \in Route |-> <<>>]
  /\ failedAt = [b \in Route |-> None]
  /\ pc = [r \in Requests |-> "new"]
  /\ scopes = [r \in Requests |-> {}]
  /\ got = [r \in Requests |-> None]
  /\ since = [r \in Requests |-> None]
  /\ cache = [S \in ScopeSets |-> None]
  /\ reply = [r \in Requests |-> None]

\* No bearer token (401), or one that does not validate (the handler does not
\* catch that: 500).
Refuse(r) ==
  /\ pc[r] = "new"
  /\ \E status \in {401, 500} : Respond(r, status, Empty)
  /\ UNCHANGED <<now, deployedAt, failedAt, scopes, cache>>

\* No route is accessible: answered empty, Redis is not asked.
AnswerEmpty(r, S) ==
  /\ pc[r] = "new" /\ Accessible(S) = {}
  /\ scopes' = [scopes EXCEPT ![r] = S]
  /\ Respond(r, 200, Empty)
  /\ UNCHANGED <<now, deployedAt, failedAt, cache>>

Ask(r, S) ==
  /\ pc[r] = "new" /\ Accessible(S) # {}
  /\ scopes' = [scopes EXCEPT ![r] = S]
  /\ pc' = [pc EXCEPT ![r] = "get"]
  /\ UNCHANGED <<now, deployedAt, failedAt, got, since, cache, reply>>

Entry(r) == cache[CacheKey(scopes[r])]

CacheHit(r) ==
  /\ pc[r] = "get" /\ Entry(r) # None
  /\ Respond(r, 200, Entry(r).manifest)
  /\ UNCHANGED <<now, deployedAt, failedAt, scopes, cache>>

\* One fetch per accessible backend is started; the others count as not asked.
CacheMiss(r) ==
  /\ pc[r] = "get" /\ Entry(r) = None
  /\ got' = [got EXCEPT ![r] =
               [b \in Route |-> IF b \in Accessible(scopes[r]) THEN Pending ELSE None]]
  /\ since' = [since EXCEPT ![r] = now]
  /\ pc' = [pc EXCEPT ![r] = "fetch"]
  /\ UNCHANGED <<now, deployedAt, failedAt, scopes, cache, reply>>

\* Variant: set without a TTL.
ExpiryNever == MaxTime + 1

\* setex: the entry dies a TTL after Redis executes it.
Expiry == now + CacheTTL

StoreEntry(r) ==
  cache' = [cache EXCEPT ![CacheKey(scopes[r])] = [manifest |-> got[r], dies |-> Expiry]]

\* redis.get or redis.setex raises, the latter perhaps after Redis executed it:
\* nothing catches it, the request is answered 500.

RedisFail(r) ==
  /\ pc[r] \in {"get", "set"}
  /\ Respond(r, 500, Empty)
  /\ \/ pc[r] = "set" /\ StoreEntry(r)
     \/ UNCHANGED cache
  /\ UNCHANGED <<now, deployedAt, failedAt, scopes>>

\* _fetch_tools: backend b answers tools/list ...
FetchOk(r, b) ==
  /\ pc[r] = "fetch" /\ got[r][b] = Pending
  /\ got' = [got EXCEPT ![r][b] = Version(b)]
  /\ UNCHANGED <<now, deployedAt, failedAt, pc, scopes, since, cache, reply>>

\* ... or the exchange for b fails, or b answers with an error or not at all.
FetchFail(r, b) ==
  /\ pc[r] = "fetch" /\ got[r][b] = Pending
  /\ got' = [got EXCEPT ![r][b] = None]
  /\ failedAt' = [failedAt EXCEPT ![b] = now]
  /\ UNCHANGED <<now, deployedAt, pc, scopes, since, cache, reply>>

\* Variant: a failed fetch leaves its place in the results unfilled.
GatheredAll(r) == \A b \in Accessible(scopes[r]) : got[r][b] \notin {Pending, None}

\* gather() returns once every fetch has ended.
Gathered(r) == \A b \in Route : got[r][b] # Pending

SendSet(r) ==
  /\ pc[r] = "fetch" /\ Gathered(r)
  /\ pc' = [pc EXCEPT ![r] = "set"]
  /\ UNCHANGED <<now, deployedAt, failedAt, scopes, got, since, cache, reply>>

\* A complete and a partial manifest are cached alike.
Store(r) ==
  /\ pc[r] = "set"
  /\ StoreEntry(r)
  /\ Respond(r, 200, got[r])
  /\ UNCHANGED <<now, deployedAt, failedAt, scopes>>
-----------------------------------------------------------------------------
\* A backend is deployed with other tools.
Deploy(b) ==
  /\ Len(deployedAt[b]) < MaxDeploys
  /\ deployedAt' = [deployedAt EXCEPT ![b] = Append(@, now)]
  /\ UNCHANGED <<now, failedAt, pc, scopes, got, since, cache, reply>>

Evict(S) ==
  /\ cache[S] # None
  /\ cache' = [cache EXCEPT ![S] = None]
  /\ UNCHANGED <<now, deployedAt, failedAt, pc, scopes, got, since, reply>>

Tick ==
  /\ now < MaxTime
  /\ \A r \in Requests : pc[r] \in {"fetch", "set"} => now - since[r] < FetchTime
  /\ now' = now + 1
  /\ cache' = [S \in ScopeSets |-> IF cache[S] # None /\ cache[S].dies <= now + 1
                                   THEN None ELSE cache[S]]
  /\ UNCHANGED <<deployedAt, failedAt, pc, scopes, got, since, reply>>

Progress(r) ==
  \/ CacheHit(r) \/ CacheMiss(r) \/ RedisFail(r)
  \/ \E b \in Route : FetchOk(r, b) \/ FetchFail(r, b)
  \/ SendSet(r) \/ Store(r)

Next ==
  \/ \E r \in Requests : \/ Refuse(r)
                         \/ \E S \in ScopeSets : AnswerEmpty(r, S) \/ Ask(r, S)
                         \/ Progress(r)
  \/ \E b \in Route : Deploy(b)
  \/ \E S \in ScopeSets : Evict(S)
  \/ Tick

Spec == Init /\ [][Next]_vars

\* Redis answers or its connection breaks; httpx gives up after 10 s.
FairSpec == Spec /\ \A r \in Requests : WF_vars(Progress(r))
-----------------------------------------------------------------------------
TypeOK ==
  /\ now \in 0..MaxTime
  /\ deployedAt \in [Route -> Seq(0..MaxTime)]
  /\ failedAt \in [Route -> Nat \cup {None}]
  /\ pc \in [Requests -> {"new", "get", "fetch", "set", "done"}]
  /\ scopes \in [Requests -> ScopeSets \cup {{}}]
  /\ since \in [Requests -> Nat \cup {None}]
  /\ <<DOMAIN got, DOMAIN reply, DOMAIN cache>> = <<Requests, Requests, ScopeSets>>
  /\ \A r \in Requests :
       /\ got[r] # None => got[r] \in [Route -> Nat \cup {Pending, None}]
       /\ reply[r] # None => reply[r] \in [status : {200, 401, 500}, manifest : Manifest]
  /\ \A S \in ScopeSets :
       cache[S] # None => /\ cache[S].manifest \in Manifest
                          /\ cache[S].dies \in (now + 1)..(now + CacheTTL)

\* The manifest a caller gets lists no backend the caller's scopes do not reach,
\* whoever's request it was fetched for.
OnlyAccessible ==
  \A r \in Requests, b \in Route :
    reply[r] # None /\ reply[r].manifest[b] # None => b \in Accessible(scopes[r])

\* How long ago a manifest's content may have been true when it is served.
Horizon == CacheTTL + FetchTime

\* When v was last the version of the tool list of b.
CurrentUntil(b, v) == IF v = Version(b) THEN now ELSE deployedAt[b][v + 1]

\* A manifest as it is gathered by a request of scopes S that began at t: a version
\* was the backend's at t or later, and a fetch that failed did so at t or later.
GatheredSince(m, S, t) ==
  \A b \in Route :
    /\ b \notin Accessible(S) => m[b] = None
    /\ b \in Accessible(S) /\ m[b] = None => failedAt[b] # None /\ t <= failedAt[b]
    /\ m[b] \in Nat => /\ m[b] <= Version(b)
                       /\ m[b] < Version(b) => t <= deployedAt[b][m[b] + 1]

\* A request has no answer before it is done, and what it holds was gathered since
\* it began.
RequestInv(r) ==
  /\ pc[r] # "done" => reply[r] = None
  /\ pc[r] \in {"get", "fetch", "set"} => scopes[r] \in ScopeSets
  /\ pc[r] \in {"fetch", "set"} =>
       /\ got[r] \in [Route -> Nat \cup {Pending, None}]
       /\ since[r] \in Nat /\ since[r] <= now /\ now <= since[r] + FetchTime
       /\ GatheredSince(got[r], scopes[r], since[r])
  /\ pc[r] = "set" => \A b \in Route : got[r][b] # Pending

\* What makes the two properties inductive: what a gathering holds is as old as
\* the gathering, and what the cache holds as old as the one that stored it.
AggInv ==
  /\ TypeOK /\ OnlyAccessible
  /\ \A b \in Route : failedAt[b] # None => failedAt[b] <= now
  /\ \A r \in Requests : RequestInv(r)
  /\ \A S \in ScopeSets :
       cache[S] # None => GatheredSince(cache[S].manifest, S, cache[S].dies - Horizon)

\* A manifest served from the shared cache is not older than the TTL and one
\* gathering: each tool list in it was b's within that time, and an accessible
\* backend is left out only if a fetch from it failed within that time.
BoundedStaleness ==
  [][\A r \in Requests : reply'[r] # reply[r] /\ reply'[r].status = 200 =>
       \A b \in Accessible(scopes'[r]) :
         IF reply'[r].manifest[b] = None
         THEN failedAt[b] # None /\ now <= failedAt[b] + Horizon
         ELSE now <= CurrentUntil(b, reply'[r].manifest[b]) + Horizon]_vars

\* Every aggregation is answered.
Answered == \A r \in Requests : pc[r] = "get" ~> pc[r] = "done"
=============================================================================
