------------------------ MODULE ToolAggregatorProofs ------------------------
(***************************************************************************)
(* AggInv is inductive for any number of aggregations, backends, scope sets *)
(* and redeployments; what a manifest lists, and how old it may be, follow. *)
(***************************************************************************)
EXTENDS ToolAggregator, TLAPS

\* The type of what is kept per backend, spelled out.
LEMMA BackendTypes ==
  ASSUME AggInv
  PROVE  /\ now \in Nat /\ CacheTTL \in Nat /\ CacheTTL >= 1 /\ FetchTime \in Nat
         /\ \A b \in Route :
              /\ Version(b) \in Nat
              /\ \A i \in 1..Version(b) : deployedAt[b][i] \in Nat
              /\ failedAt[b] # None => failedAt[b] \in Nat /\ failedAt[b] <= now
<1>1. now \in Nat /\ CacheTTL \in Nat /\ CacheTTL >= 1 /\ FetchTime \in Nat
  BY AggregatorAssumption DEF AggInv, TypeOK
<1>2. ASSUME NEW b \in Route
      PROVE  /\ Version(b) \in Nat
             /\ \A i \in 1..Version(b) : deployedAt[b][i] \in Nat
             /\ failedAt[b] # None => failedAt[b] \in Nat /\ failedAt[b] <= now
  <2>1. deployedAt[b] \in Seq(0..MaxTime)
    BY DEF AggInv, TypeOK
  <2>2. failedAt[b] \in Nat \cup {None} /\ (failedAt[b] # None => failedAt[b] <= now)
    BY DEF AggInv, TypeOK
  <2>3. MaxTime \in Nat
    BY AggregatorAssumption
  <2>4. Version(b) \in Nat
    BY <2>1 DEF Version
  <2>5. \A i \in 1..Version(b) : deployedAt[b][i] \in Nat
    BY <2>1, <2>3 DEF Version
  <2>6. failedAt[b] # None => failedAt[b] \in Nat
    BY <2>2
  <2> QED
    BY <2>2, <2>4, <2>5, <2>6
<1> QED
  BY <1>1, <1>2

Gatherings == [Route -> Nat \cup {Pending, None}]

\* What was gathered since t stays so while backends are redeployed and fetches
\* from them fail, both no earlier than t.
LEMMA GatheredStays ==
  ASSUME AggInv, NEW m \in Gatherings, NEW S, NEW t \in Int, t <= now,
         GatheredSince(m, S, t),
         \/ UNCHANGED <<deployedAt, failedAt>>
         \/ /\ \E d \in Route : deployedAt' = [deployedAt EXCEPT ![d] = Append(@, now)]
            /\ UNCHANGED failedAt
         \/ /\ \E d \in Route : failedAt' = [failedAt EXCEPT ![d] = now]
            /\ UNCHANGED deployedAt
  PROVE  GatheredSince(m, S, t)'
<1> USE BackendTypes
<1>1. CASE UNCHANGED <<deployedAt, failedAt>>
  BY <1>1 DEF GatheredSince, Version
<1>2. CASE /\ \E d \in Route : deployedAt' = [deployedAt EXCEPT ![d] = Append(@, now)]
           /\ UNCHANGED failedAt
  <2>1. ASSUME NEW b \in Route, m[b] \in Nat
        PROVE  /\ m[b] <= Version(b)'
               /\ m[b] < Version(b)' => t <= deployedAt'[b][m[b] + 1]
    <3>1. /\ deployedAt[b] \in Seq(0..MaxTime)
          /\ \/ deployedAt'[b] = deployedAt[b]
             \/ deployedAt'[b] = Append(deployedAt[b], now)
      BY <1>2 DEF AggInv, TypeOK
    <3>2. m[b] <= Version(b) /\ (m[b] < Version(b) => t <= deployedAt[b][m[b] + 1])
      BY <2>1 DEF GatheredSince
    <3>3. CASE deployedAt'[b] = deployedAt[b]
      BY <3>2, <3>3 DEF Version
    <3>4. CASE deployedAt'[b] = Append(deployedAt[b], now)
      <4>1. Version(b)' = Version(b) + 1 /\ deployedAt'[b][Version(b) + 1] = now
        BY <3>1, <3>4 DEF Version
      <4>2. \A i \in 1..Version(b) : deployedAt'[b][i] = deployedAt[b][i]
        BY <3>1, <3>4 DEF Version
      <4>3. Version(b) \in Nat
        OBVIOUS
      <4>4. CASE m[b] = Version(b)
        BY <4>1, <4>3, <4>4
      <4>5. CASE m[b] < Version(b)
        <5>1. m[b] + 1 \in 1..Version(b) /\ m[b] <= Version(b) + 1
          BY <2>1, <4>3, <4>5
        <5> QED
          BY <3>2, <4>1, <4>2, <4>5, <5>1
      <4>6. m[b] = Version(b) \/ m[b] < Version(b)
        BY <2>1, <3>2, <4>3
      <4> QED
        BY <4>4, <4>5, <4>6
    <3> QED
      BY <3>1, <3>3, <3>4
  <2> QED
    BY <1>2, <2>1 DEF GatheredSince
<1>3. CASE /\ \E d \in Route : failedAt' = [failedAt EXCEPT ![d] = now]
           /\ UNCHANGED deployedAt
  <2>1. ASSUME NEW b \in Route PROVE failedAt'[b] \in {failedAt[b], now}
    BY <1>3 DEF AggInv, TypeOK
  <2>2. now # None
    BY AggregatorAssumption
  <2> QED
    BY <1>3, <2>1, <2>2 DEF GatheredSince, Version
<1> QED
  BY <1>1, <1>2, <1>3

-----------------------------------------------------------------------------
\* No step but a redeployment and a failed fetch touches what the backends did.
LEMMA BackendSteps ==
  ASSUME [Next]_vars
  PROVE  \/ UNCHANGED <<deployedAt, failedAt>>
         \/ /\ \E d \in Route : deployedAt' = [deployedAt EXCEPT ![d] = Append(@, now)]
            /\ UNCHANGED failedAt
         \/ /\ \E d \in Route : failedAt' = [failedAt EXCEPT ![d] = now]
            /\ UNCHANGED deployedAt
BY DEF Next, vars, Progress, Refuse, AnswerEmpty, Ask, CacheHit, CacheMiss, RedisFail,
       FetchOk, FetchFail, SendSet, Store, Deploy, Evict, Tick

\* What was gathered since t is still so after any step.
LEMMA GatheredStep ==
  ASSUME AggInv, [Next]_vars, NEW m \in Gatherings, NEW S, NEW t \in Int, t <= now,
         GatheredSince(m, S, t)
  PROVE  GatheredSince(m, S, t)'
BY BackendSteps, GatheredStays

\* An entry a step leaves alone still holds what its gathering found.
LEMMA EntryStays ==
  ASSUME AggInv, [Next]_vars, NEW S \in ScopeSets, cache'[S] = cache[S]
  PROVE  cache'[S] # None => GatheredSince(cache[S].manifest, S, cache[S].dies - Horizon)'
<1> SUFFICES ASSUME cache[S] # None
             PROVE  GatheredSince(cache[S].manifest, S, cache[S].dies - Horizon)'
  OBVIOUS
<1>1. /\ cache[S].manifest \in Gatherings /\ cache[S].dies \in Int
      /\ cache[S].dies <= now + CacheTTL
  BY BackendTypes DEF AggInv, TypeOK, Manifest, Gatherings
<1>2. PICK m \in Gatherings, t \in Int :
        m = cache[S].manifest /\ t = cache[S].dies - Horizon
  BY <1>1, BackendTypes DEF Horizon
<1>3. t <= now
  BY <1>1, <1>2, BackendTypes DEF Horizon
<1>4. GatheredSince(m, S, t)
  BY <1>2 DEF AggInv
<1>5. GatheredSince(m, S, t)'
  BY <1>3, <1>4, GatheredStep
<1> QED
  BY <1>2, <1>5 DEF GatheredSince, Horizon

\* So does a request a step leaves alone, while the clock grants it time.
LEMMA RequestStays ==
  ASSUME AggInv, [Next]_vars, NEW r \in Requests,
         pc'[r] = pc[r], scopes'[r] = scopes[r], got'[r] = got[r],
         since'[r] = since[r], reply'[r] = reply[r],
         now' = now \/ Tick
  PROVE  RequestInv(r)'
<1>1. RequestInv(r)
  BY DEF AggInv
<1>2. ASSUME pc[r] \in {"fetch", "set"}
      PROVE  GatheredSince(got[r], scopes[r], since[r])'
  <2>1. PICK m \in Gatherings, S \in ScopeSets, t \in Int :
          m = got[r] /\ S = scopes[r] /\ t = since[r]
    BY <1>1, <1>2 DEF RequestInv, Gatherings
  <2>2. GatheredSince(m, S, t)'
    BY <1>1, <1>2, <2>1, GatheredStep DEF RequestInv
  <2> QED
    BY <2>1, <2>2 DEF GatheredSince
<1>3. ASSUME pc[r] \in {"fetch", "set"}
      PROVE  since[r] <= now' /\ now' <= since[r] + FetchTime
  BY <1>1, <1>3, BackendTypes DEF RequestInv, Tick
<1> QED
  BY <1>1, <1>2, <1>3 DEF RequestInv
-----------------------------------------------------------------------------
\* The type invariant is preserved (tool_aggregator.py, aggregate).
LEMMA TypeStep == AggInv /\ [Next]_vars => TypeOK'
<1> SUFFICES ASSUME AggInv, [Next]_vars PROVE TypeOK'
  OBVIOUS
<1> USE AggregatorAssumption
<1>1. now' \in 0..MaxTime
  BY DEF AggInv, TypeOK, Next, vars, Progress, Refuse, AnswerEmpty, Ask, CacheHit, CacheMiss,
     RedisFail, FetchOk, FetchFail, SendSet, Store, Deploy, Evict, Tick
<1>2. deployedAt' \in [Route -> Seq(0..MaxTime)]
  <2>1. CASE UNCHANGED deployedAt
    BY <2>1 DEF AggInv, TypeOK
  <2>2. CASE \E d \in Route : deployedAt' = [deployedAt EXCEPT ![d] = Append(@, now)]
    <3>1. PICK d \in Route : deployedAt' = [deployedAt EXCEPT ![d] = Append(@, now)]
      BY <2>2
    <3>2. deployedAt \in [Route -> Seq(0..MaxTime)] /\ now \in 0..MaxTime
      BY DEF AggInv, TypeOK
    <3>3. Append(deployedAt[d], now) \in Seq(0..MaxTime)
      BY <3>2
    <3> QED
      BY <3>1, <3>2, <3>3
  <2> QED
    BY <2>1, <2>2, BackendSteps
<1>3. failedAt' \in [Route -> Nat \cup {None}]
  <2>1. failedAt \in [Route -> Nat \cup {None}] /\ now \in Nat
    BY BackendTypes DEF AggInv, TypeOK
  <2> QED
    BY <2>1, BackendSteps
<1>4. pc' \in [Requests -> {"new", "get", "fetch", "set", "done"}]
  <2>1. pc \in [Requests -> {"new", "get", "fetch", "set", "done"}]
    BY DEF AggInv, TypeOK
  <2>2. ASSUME NEW r \in Requests,
               Refuse(r) \/ (\E S \in ScopeSets : AnswerEmpty(r, S) \/ Ask(r, S))
        PROVE  \E l \in {"get", "done"} : pc' = [pc EXCEPT ![r] = l]
    BY <2>2 DEF Refuse, AnswerEmpty, Ask, Respond
  <2>3. ASSUME NEW r \in Requests, Progress(r)
        PROVE  pc' = pc \/ \E l \in {"fetch", "set", "done"} : pc' = [pc EXCEPT ![r] = l]
    BY <2>3 DEF Progress, CacheHit, CacheMiss, RedisFail, FetchOk, FetchFail, SendSet, Store,
                Respond
  <2>4. ASSUME (\E b \in Route : Deploy(b)) \/ (\E S \in ScopeSets : Evict(S)) \/ Tick
               \/ UNCHANGED vars
        PROVE  pc' = pc
    BY <2>4 DEF Deploy, Evict, Tick, vars
  <2>5. pc' = pc \/ \E r \in Requests, l \in {"get", "fetch", "set", "done"} :
                     pc' = [pc EXCEPT ![r] = l]
    BY <2>2, <2>3, <2>4 DEF Next
  <2> QED
    BY <2>1, <2>5
<1>5. ASSUME NEW r \in Requests, got'[r] # None
      PROVE  got'[r] \in [Route -> Nat \cup {Pending, None}]
  <2> USE DEF AggInv, TypeOK
  <2>1. ASSUME NEW q \in Requests, CacheMiss(q) PROVE got'[r] \in [Route -> Nat \cup {Pending, None}]
    BY <1>5, <2>1 DEF CacheMiss
  <2>2. ASSUME NEW q \in Requests, NEW b \in Route, FetchOk(q, b)
        PROVE  got'[r] \in [Route -> Nat \cup {Pending, None}]
    <3>1. Version(b) \in Nat /\ RequestInv(q)
      BY BackendTypes DEF AggInv
    <3> QED
      BY <1>5, <2>2, <3>1 DEF FetchOk, RequestInv
  <2>3. ASSUME NEW q \in Requests, NEW b \in Route, FetchFail(q, b)
        PROVE  got'[r] \in [Route -> Nat \cup {Pending, None}]
    <3>1. RequestInv(q)
      BY DEF AggInv
    <3> QED
      BY <1>5, <2>3, <3>1 DEF FetchFail, RequestInv
  <2>4. ASSUME NEW q \in Requests, got' = [got EXCEPT ![q] = None]
        PROVE  got'[r] \in [Route -> Nat \cup {Pending, None}]
    BY <1>5, <2>4
  <2>5. CASE UNCHANGED got
    BY <1>5, <2>5
  <2> QED
    BY <2>1, <2>2, <2>3, <2>4, <2>5
    DEF Next, vars, Progress, Refuse, AnswerEmpty, Ask, CacheHit, RedisFail, SendSet, Store,
        Deploy, Evict, Tick, Respond
<1>6. ASSUME NEW S \in ScopeSets, cache'[S] # None
      PROVE  /\ cache'[S].manifest \in Manifest
             /\ cache'[S].dies \in (now' + 1)..(now' + CacheTTL)
  <2>1. ASSUME NEW r \in Requests, pc[r] = "set", StoreEntry(r), now' = now
        PROVE  /\ cache'[S].manifest \in Manifest
               /\ cache'[S].dies \in (now' + 1)..(now' + CacheTTL)
    <3>1. got[r] \in Manifest
      BY <2>1 DEF AggInv, RequestInv, Manifest
    <3>2. now \in Nat /\ CacheTTL \in Nat /\ CacheTTL >= 1
      BY BackendTypes
    <3>3. cache'[S] = cache[S] \/ cache'[S] = [manifest |-> got[r], dies |-> now + CacheTTL]
      BY <2>1 DEF StoreEntry, AggInv, TypeOK, CacheKey, Expiry
    <3> QED
      BY <1>6, <2>1, <3>1, <3>2, <3>3 DEF AggInv, TypeOK
  <2>2. CASE UNCHANGED <<cache, now>>
    BY <1>6, <2>2 DEF AggInv, TypeOK
  <2>3. ASSUME NEW T \in ScopeSets, Evict(T)
        PROVE  /\ cache'[S].manifest \in Manifest
               /\ cache'[S].dies \in (now' + 1)..(now' + CacheTTL)
    BY <1>6, <2>3 DEF Evict, AggInv, TypeOK
  <2>4. CASE Tick
    BY <1>6, <2>4, BackendTypes DEF Tick, AggInv, TypeOK
  <2> QED
    BY <2>1, <2>2, <2>3, <2>4
    DEF Next, vars, Progress, Refuse, AnswerEmpty, Ask, CacheHit, CacheMiss, RedisFail,
        FetchOk, FetchFail, SendSet, Store, Deploy
<1>7. scopes' \in [Requests -> ScopeSets \cup {{}}]
  <2>1. scopes \in [Requests -> ScopeSets \cup {{}}]
    BY DEF AggInv, TypeOK
  <2>2. scopes' = scopes
        \/ \E r \in Requests, S \in ScopeSets : scopes' = [scopes EXCEPT ![r] = S]
    BY DEF Next, vars, Progress, Refuse, AnswerEmpty, Ask, CacheHit, CacheMiss, RedisFail,
           FetchOk, FetchFail, SendSet, Store, Deploy, Evict, Tick
  <2> QED
    BY <2>1, <2>2
<1>8. since' \in [Requests -> Nat \cup {None}]
  <2>1. since \in [Requests -> Nat \cup {None}] /\ now \in Nat
    BY BackendTypes DEF AggInv, TypeOK
  <2>2. since' = since
        \/ \E r \in Requests, t \in {None, now} : since' = [since EXCEPT ![r] = t]
    BY DEF Next, vars, Progress, Refuse, AnswerEmpty, Ask, CacheHit, CacheMiss, RedisFail,
           FetchOk, FetchFail, SendSet, Store, Deploy, Evict, Tick, Respond
  <2> QED
    BY <2>1, <2>2
<1>9. <<DOMAIN got', DOMAIN reply', DOMAIN cache'>> = <<Requests, Requests, ScopeSets>>
  <2>1. DOMAIN got = Requests /\ DOMAIN reply = Requests /\ DOMAIN cache = ScopeSets
    BY DEF AggInv, TypeOK
  <2>2. DOMAIN got' = Requests /\ DOMAIN reply' = Requests /\ DOMAIN cache' = ScopeSets
    BY <2>1, ZenonT(60)
    DEF Next, vars, Progress, Refuse, AnswerEmpty, Ask, CacheHit, CacheMiss, RedisFail,
        FetchOk, FetchFail, SendSet, Store, Deploy, Evict, Tick, Respond, StoreEntry
  <2> QED
    BY <2>2
<1>10. ASSUME NEW r \in Requests, reply'[r] # None
       PROVE  reply'[r] \in [status : {200, 401, 500}, manifest : Manifest]
  <2>1. DOMAIN reply = Requests
        /\ (reply[r] # None => reply[r] \in [status : {200, 401, 500}, manifest : Manifest])
    BY DEF AggInv, TypeOK
  <2>2. ASSUME NEW q \in Requests, NEW s \in {200, 401, 500}, NEW m \in Manifest,
               Respond(q, s, m)
        PROVE  reply'[r] \in [status : {200, 401, 500}, manifest : Manifest]
    BY <1>10, <2>1, <2>2 DEF Respond
  <2>3. Empty \in Manifest
    BY DEF Empty, Manifest
  <2>4. ASSUME NEW q \in Requests, CacheHit(q) PROVE Entry(q).manifest \in Manifest
    <3>1. scopes[q] \in ScopeSets /\ Entry(q) = cache[scopes[q]] /\ Entry(q) # None
      BY <2>4 DEF CacheHit, Entry, CacheKey, AggInv, RequestInv
    <3> QED
      BY <3>1 DEF AggInv, TypeOK
  <2>5. ASSUME NEW q \in Requests, Store(q) PROVE got[q] \in Manifest
    BY <2>5 DEF Store, AggInv, RequestInv, Manifest
  <2>6. CASE UNCHANGED reply
    BY <1>10, <2>1, <2>6
  <2> QED
    BY <2>2, <2>3, <2>4, <2>5, <2>6
    DEF Next, vars, Progress, Refuse, AnswerEmpty, Ask, CacheHit, CacheMiss, RedisFail,
        FetchOk, FetchFail, SendSet, Store, Deploy, Evict, Tick
<1> QED
  BY <1>1, <1>2, <1>3, <1>4, <1>5, <1>6, <1>7, <1>8, <1>9, <1>10 DEF TypeOK
-----------------------------------------------------------------------------
\* A request's own steps keep what it holds true of its gathering.
LEMMA RequestStep == AggInv /\ [Next]_vars => \A r \in Requests : RequestInv(r)'
<1> SUFFICES ASSUME AggInv, [Next]_vars, NEW r \in Requests PROVE RequestInv(r)'
  OBVIOUS
<1>1. RequestInv(r) /\ \A q \in Requests : RequestInv(q)
  BY DEF AggInv
<1>2. DOMAIN scopes = Requests /\ DOMAIN got = Requests /\ DOMAIN since = Requests
      /\ DOMAIN reply = Requests /\ pc \in [Requests -> {"new", "get", "fetch", "set", "done"}]
  BY DEF AggInv, TypeOK
<1>3. ASSUME NEW q \in Requests, NEW s, NEW m, Respond(q, s, m), now' = now,
             scopes'[r] = scopes[r] \/ q = r
      PROVE  RequestInv(r)'
  <2>1. CASE q = r
    BY <1>2, <1>3, <2>1 DEF Respond, RequestInv
  <2>2. CASE q # r
    BY <1>2, <1>3, <2>2, RequestStays DEF Respond
  <2> QED
    BY <2>1, <2>2
<1>4. ASSUME NEW q \in Requests, NEW S \in ScopeSets, AnswerEmpty(q, S) PROVE RequestInv(r)'
  BY <1>2, <1>3, <1>4 DEF AnswerEmpty
<1>5. ASSUME NEW q \in Requests, NEW S \in ScopeSets, Ask(q, S) PROVE RequestInv(r)'
  <2>1. CASE q = r
    BY <1>1, <1>2, <1>5, <2>1 DEF Ask, RequestInv
  <2>2. CASE q # r
    BY <1>2, <1>5, <2>2, RequestStays DEF Ask
  <2> QED
    BY <2>1, <2>2
<1>6. ASSUME NEW q \in Requests, CacheMiss(q) PROVE RequestInv(r)'
  <2>1. CASE q = r
    <3>1. /\ pc'[r] = "fetch" /\ scopes'[r] = scopes[r] /\ since'[r] = now /\ now' = now
          /\ reply'[r] = reply[r] /\ pc[r] = "get"
          /\ got'[r] = [b \in Route |-> IF b \in Accessible(scopes[r]) THEN Pending ELSE None]
      BY <1>2, <1>6, <2>1 DEF CacheMiss
    <3>2. GatheredSince(got[r], scopes[r], since[r])'
      <4>1. \A b \in Route : got'[r][b] \notin Nat /\ (got'[r][b] = None <=> b \notin Accessible(scopes[r]))
        BY <3>1, AggregatorAssumption
      <4> QED
        BY <3>1, <4>1 DEF GatheredSince, Accessible
    <3> QED
      BY <1>1, <3>1, <3>2, BackendTypes DEF RequestInv
  <2>2. CASE q # r
    BY <1>2, <1>6, <2>2, RequestStays DEF CacheMiss
  <2> QED
    BY <2>1, <2>2
<1>7. ASSUME NEW q \in Requests, NEW b \in Route, FetchOk(q, b) \/ FetchFail(q, b)
      PROVE  RequestInv(r)'
  <2>1. CASE q = r
    <3>1. PICK v \in Nat \cup {None} :
            /\ got' = [got EXCEPT ![r][b] = v]
            /\ \/ v = Version(b) /\ UNCHANGED failedAt
               \/ v = None /\ failedAt' = [failedAt EXCEPT ![b] = now]
      <4>1. CASE FetchOk(q, b)
        <5>1. Version(b) \in Nat /\ got' = [got EXCEPT ![r][b] = Version(b)] /\ UNCHANGED failedAt
          BY <2>1, <4>1, BackendTypes DEF FetchOk
        <5> QED
          BY <5>1
      <4>2. CASE FetchFail(q, b)
        <5>1. got' = [got EXCEPT ![r][b] = None] /\ failedAt' = [failedAt EXCEPT ![b] = now]
          BY <2>1, <4>2 DEF FetchFail
        <5> QED
          BY <5>1
      <4> QED
        BY <1>7, <4>1, <4>2
    <3>2. /\ pc[r] = "fetch" /\ got[r][b] = Pending /\ pc' = pc /\ scopes' = scopes
          /\ since' = since /\ now' = now /\ deployedAt' = deployedAt /\ reply' = reply
      BY <1>7, <2>1 DEF FetchOk, FetchFail
    <3>3. /\ got[r] \in [Route -> Nat \cup {Pending, None}] /\ since[r] \in Nat
          /\ since[r] <= now /\ now <= since[r] + FetchTime
          /\ GatheredSince(got[r], scopes[r], since[r])
      BY <1>1, <3>2 DEF RequestInv
    <3>4. /\ got'[r] = [got[r] EXCEPT ![b] = v]
          /\ got'[r] \in [Route -> Nat \cup {Pending, None}]
      BY <1>2, <3>1, <3>3
    <3>5. PICK m \in Gatherings, S \in ScopeSets, t \in Int :
            m = got[r] /\ S = scopes[r] /\ t = since[r]
      BY <1>1, <3>2, <3>3 DEF RequestInv, Gatherings
    <3>6. GatheredSince(m, S, t)'
      BY <3>3, <3>5, GatheredStep
    <3>7. GatheredSince(got[r], scopes[r], since[r])'
      <4>1. ASSUME NEW d \in Route, d # b
            PROVE  got'[r][d] = m[d]
        BY <3>3, <3>4, <3>5, <4>1
      <4>2. got'[r][b] = v
        BY <3>3, <3>4
      <4>3. b \in Accessible(S)
        BY <3>2, <3>3, <3>5, AggregatorAssumption DEF GatheredSince
      <4>4. v = None => failedAt'[b] # None /\ t <= failedAt'[b]
        BY <3>1, <3>3, <3>5, BackendTypes, AggregatorAssumption DEF AggInv, TypeOK
      <4>5. v \in Nat => v = Version(b)' /\ Version(b)' \in Nat
        BY <3>1, <3>2, BackendTypes, AggregatorAssumption DEF Version
      <4>6. scopes'[r] = S /\ since'[r] = t
        BY <3>2, <3>5
      <4>7. \A d \in Route : d # b =>
              /\ d \notin Accessible(S) => got'[r][d] = None
              /\ d \in Accessible(S) /\ got'[r][d] = None => failedAt'[d] # None /\ t <= failedAt'[d]
              /\ got'[r][d] \in Nat => /\ got'[r][d] <= Version(d)'
                                       /\ got'[r][d] < Version(d)' => t <= deployedAt'[d][got'[r][d] + 1]
        BY <3>6, <4>1 DEF GatheredSince, Accessible
      <4>8. /\ b \notin Accessible(S) => got'[r][b] = None
            /\ b \in Accessible(S) /\ got'[r][b] = None => failedAt'[b] # None /\ t <= failedAt'[b]
            /\ got'[r][b] \in Nat => got'[r][b] <= Version(b)' /\ ~(got'[r][b] < Version(b)')
        BY <4>2, <4>3, <4>4, <4>5
      <4>9. \A d \in Route :
              /\ d \notin Accessible(S) => got'[r][d] = None
              /\ d \in Accessible(S) /\ got'[r][d] = None => failedAt'[d] # None /\ t <= failedAt'[d]
              /\ got'[r][d] \in Nat => /\ got'[r][d] <= Version(d)'
                                       /\ got'[r][d] < Version(d)' => t <= deployedAt'[d][got'[r][d] + 1]
        BY <4>7, <4>8
      <4>10. Accessible(S)' = Accessible(S)
        BY DEF Accessible
      <4>11. PICK g : g = got'[r]
        OBVIOUS
      <4>12. GatheredSince(g, S, t)'
        BY <4>9, <4>10, <4>11 DEF GatheredSince
      <4> QED
        BY <4>6, <4>11, <4>12 DEF GatheredSince, Accessible
    <3> QED
      BY <1>1, <3>2, <3>3, <3>4, <3>7 DEF RequestInv
  <2>2. CASE q # r
    BY <1>2, <1>7, <2>2, RequestStays DEF FetchOk, FetchFail
  <2> QED
    BY <2>1, <2>2
<1>8. ASSUME NEW q \in Requests, SendSet(q) PROVE RequestInv(r)'
  <2>1. CASE q = r
    <3>1. /\ pc[r] = "fetch" /\ pc'[r] = "set" /\ \A b \in Route : got[r][b] # Pending
          /\ UNCHANGED <<now, deployedAt, failedAt, scopes, got, since, reply>>
      BY <1>2, <1>8, <2>1 DEF SendSet, Gathered
    <3> QED
      BY <1>1, <3>1 DEF RequestInv, GatheredSince, Version
  <2>2. CASE q # r
    BY <1>2, <1>8, <2>2, RequestStays DEF SendSet
  <2> QED
    BY <2>1, <2>2
<1>9. ASSUME UNCHANGED <<pc, scopes, got, since, reply>>, now' = now \/ Tick
      PROVE  RequestInv(r)'
  BY <1>9, RequestStays
<1> QED
  BY <1>3, <1>4, <1>5, <1>6, <1>7, <1>8, <1>9
  DEF Next, vars, Progress, Refuse, CacheHit, RedisFail, Store, Deploy, Evict, Tick
-----------------------------------------------------------------------------
\* What a step stores in the cache is as old as its gathering: a TTL from now is at
\* most a TTL and a gathering after it began (redis.setex).
LEMMA EntryStep ==
  AggInv /\ [Next]_vars =>
    \A S \in ScopeSets :
      cache'[S] # None => GatheredSince(cache[S].manifest, S, cache[S].dies - Horizon)'
<1> SUFFICES ASSUME AggInv, [Next]_vars, NEW S \in ScopeSets, cache'[S] # None
             PROVE  GatheredSince(cache[S].manifest, S, cache[S].dies - Horizon)'
  OBVIOUS
<1>1. CASE cache'[S] = cache[S]
  BY <1>1, EntryStays
<1>2. ASSUME NEW r \in Requests, pc[r] = "set", StoreEntry(r), cache'[S] # cache[S],
             UNCHANGED <<now, deployedAt, failedAt>>
      PROVE  GatheredSince(cache[S].manifest, S, cache[S].dies - Horizon)'
  <2>1. /\ S = scopes[r]
        /\ cache'[S] = [manifest |-> got[r], dies |-> now + CacheTTL]
    BY <1>2 DEF StoreEntry, AggInv, CacheKey, Expiry
  <2>2. /\ got[r] \in [Route -> Nat \cup {Pending, None}]
        /\ since[r] \in Nat /\ now <= since[r] + FetchTime
        /\ GatheredSince(got[r], S, since[r]) /\ \A b \in Route : got[r][b] # Pending
    BY <1>2, <2>1 DEF AggInv, RequestInv
  <2>3. PICK t \in Int : t = (now + CacheTTL) - Horizon
    BY BackendTypes DEF Horizon
  <2>4. t <= since[r]
    BY <2>2, <2>3, BackendTypes DEF Horizon
  <2>5. GatheredSince(got[r], S, t)
    <3>1. ASSUME NEW b \in Route, b \in Accessible(S), got[r][b] = None
          PROVE  failedAt[b] # None /\ t <= failedAt[b]
      BY <2>2, <2>4, <3>1, BackendTypes DEF GatheredSince
    <3>2. ASSUME NEW b \in Route, got[r][b] \in Nat
          PROVE  /\ got[r][b] <= Version(b)
                 /\ got[r][b] < Version(b) => t <= deployedAt[b][got[r][b] + 1]
      <4>1. got[r][b] <= Version(b)
            /\ (got[r][b] < Version(b) => since[r] <= deployedAt[b][got[r][b] + 1])
        BY <2>2, <3>2 DEF GatheredSince
      <4>2. got[r][b] < Version(b) => deployedAt[b][got[r][b] + 1] \in Nat
        <5>1. got[r][b] < Version(b) => got[r][b] + 1 \in 1..Version(b)
          BY <3>2, BackendTypes
        <5> QED
          BY <5>1, BackendTypes
      <4> QED
        BY <2>2, <2>4, <4>1, <4>2
    <3> QED
      BY <2>2, <3>1, <3>2 DEF GatheredSince
  <2>6. cache'[S].manifest = got[r] /\ cache'[S].dies - Horizon' = t
    <3>1. cache'[S].manifest = got[r] /\ cache'[S].dies = now + CacheTTL
      BY <2>1
    <3>2. Horizon' = Horizon
      BY DEF Horizon
    <3> QED
      BY <2>3, <3>1, <3>2
  <2>7. GatheredSince(cache'[S].manifest, S, cache'[S].dies - Horizon')
    BY <2>5, <2>6
  <2> QED
    BY <1>2, <2>7 DEF GatheredSince, Accessible, Version
<1>3. ASSUME NEW T \in ScopeSets, Evict(T) PROVE cache'[S] = cache[S]
  BY <1>3 DEF Evict, AggInv
<1>4. CASE Tick
  BY <1>1, <1>4 DEF Tick
<1> QED
  BY <1>1, <1>2, <1>3, <1>4
  DEF Next, vars, Progress, Refuse, AnswerEmpty, Ask, CacheHit, CacheMiss, RedisFail, FetchOk,
      FetchFail, SendSet, Store, Deploy
-----------------------------------------------------------------------------
\* A manifest that is served lists only what the caller's scopes reach.
LEMMA AccessibleStep == AggInv /\ [Next]_vars => OnlyAccessible'
<1> SUFFICES ASSUME AggInv, [Next]_vars, NEW r \in Requests, NEW b \in Route,
                    reply'[r] # None, reply'[r].manifest[b] # None
             PROVE  b \in Accessible(scopes'[r])
  BY DEF OnlyAccessible, Accessible
<1>1. /\ DOMAIN scopes = Requests /\ DOMAIN reply = Requests /\ RequestInv(r) /\ OnlyAccessible
      /\ pc \in [Requests -> {"new", "get", "fetch", "set", "done"}]
  BY DEF AggInv, TypeOK
<1>2. CASE reply'[r] = reply[r] /\ scopes'[r] = scopes[r]
  BY <1>1, <1>2 DEF OnlyAccessible
<1>3. ASSUME NEW q \in Requests, NEW s, NEW m \in Manifest, Respond(q, s, m),
             scopes' = scopes \/ m = Empty,
             q = r => \A d \in Route : m[d] # None => d \in Accessible(scopes[r]),
             q # r => scopes'[r] = scopes[r]
      PROVE  b \in Accessible(scopes'[r])
  <2>1. CASE q = r
    <3>1. reply'[r].manifest = m
      BY <1>1, <1>3, <2>1 DEF Respond
    <3> QED
      BY <1>3, <2>1, <3>1 DEF Empty
  <2>2. CASE q # r
    BY <1>1, <1>2, <1>3, <2>2 DEF Respond
  <2> QED
    BY <2>1, <2>2
<1>4. Empty \in Manifest /\ \A d \in Route : Empty[d] = None
  BY DEF Empty, Manifest
<1>5. ASSUME NEW q \in Requests, Refuse(q) \/ RedisFail(q) PROVE b \in Accessible(scopes'[r])
  BY <1>3, <1>4, <1>5 DEF Refuse, RedisFail
<1>6. ASSUME NEW q \in Requests, NEW S \in ScopeSets, AnswerEmpty(q, S)
      PROVE  b \in Accessible(scopes'[r])
  BY <1>1, <1>3, <1>4, <1>6 DEF AnswerEmpty
<1>7. ASSUME NEW q \in Requests, NEW S \in ScopeSets, Ask(q, S)
      PROVE  b \in Accessible(scopes'[r])
  BY <1>1, <1>2, <1>7 DEF Ask, RequestInv
<1>8. ASSUME NEW q \in Requests, CacheHit(q) PROVE b \in Accessible(scopes'[r])
  <2>1. /\ scopes[q] \in ScopeSets /\ Entry(q) = cache[scopes[q]] /\ Entry(q) # None
        /\ Respond(q, 200, Entry(q).manifest) /\ scopes' = scopes
    BY <1>8 DEF CacheHit, Entry, CacheKey, AggInv, RequestInv
  <2>2. /\ Entry(q).manifest \in Manifest
        /\ \A d \in Route : Entry(q).manifest[d] # None => d \in Accessible(scopes[q])
    BY <2>1 DEF AggInv, TypeOK, GatheredSince
  <2> QED
    BY <1>3, <2>1, <2>2
<1>9. ASSUME NEW q \in Requests, Store(q) PROVE b \in Accessible(scopes'[r])
  <2>1. /\ got[q] \in Manifest /\ Respond(q, 200, got[q]) /\ scopes' = scopes
        /\ \A d \in Route : got[q][d] # None => d \in Accessible(scopes[q])
    BY <1>9 DEF Store, AggInv, RequestInv, GatheredSince, Manifest
  <2> QED
    BY <1>3, <2>1
<1> QED
  BY <1>2, <1>5, <1>6, <1>7, <1>8, <1>9
  DEF Next, vars, Progress, CacheMiss, FetchOk, FetchFail, SendSet, Deploy, Evict, Tick
-----------------------------------------------------------------------------
\* The invariant holds before the first aggregation.
THEOREM InitInv == Init => AggInv
BY AggregatorAssumption
DEF Init, AggInv, TypeOK, OnlyAccessible, RequestInv, Version

\* Every step preserves it.
THEOREM StepInv == AggInv /\ [Next]_vars => AggInv'
<1> SUFFICES ASSUME AggInv, [Next]_vars PROVE AggInv'
  OBVIOUS
<1>1. now <= now'
  BY BackendTypes DEF Next, vars, Progress, Refuse, AnswerEmpty, Ask, CacheHit, CacheMiss,
         RedisFail, FetchOk, FetchFail, SendSet, Store, Deploy, Evict, Tick
<1>2. now' \in Nat
  BY TypeStep, AggregatorAssumption DEF TypeOK
<1>3. \A b \in Route : failedAt'[b] # None => failedAt'[b] <= now'
  <2>1. ASSUME NEW b \in Route PROVE failedAt'[b] \in {failedAt[b], now}
    BY BackendSteps DEF AggInv, TypeOK
  <2>2. ASSUME NEW b \in Route, failedAt'[b] # None PROVE failedAt'[b] <= now'
    BY <1>1, <1>2, <2>1, <2>2, BackendTypes
  <2> QED
    BY <2>2
<1> QED
  BY <1>3, TypeStep, RequestStep, EntryStep, AccessibleStep DEF AggInv

\* The invariant holds in every behaviour of the aggregator.
THEOREM AggregatorInvariant == Spec => []AggInv
BY InitInv, StepInv, PTL DEF Spec

\* The clock, the backends' history, the requests, the cache and the answers keep their
\* types: no entry is cached beyond a TTL, none is left that has died, and an answer is a
\* status the handler gives with a manifest (tool_aggregator.py, aggregate).
THEOREM TypeCorrect == Spec => []TypeOK
<1>1. AggInv => TypeOK
  BY DEF AggInv
<1> QED
  BY <1>1, AggregatorInvariant, PTL

\* No caller is shown the tools of a backend the caller's scopes do not reach,
\* cached or not (tool_aggregator.py, _cache_key).
THEOREM ShowsOnlyAccessible == Spec => []OnlyAccessible
<1>1. AggInv => OnlyAccessible
  BY DEF AggInv
<1> QED
  BY <1>1, AggregatorInvariant, PTL

\* A manifest that is served is no older than a TTL and a gathering, and leaves out
\* only a backend that failed within that time (redis.setex, asyncio.gather).
THEOREM StalenessIsBounded == Spec => BoundedStaleness
<1> DEFINE Fresh(r) ==
      reply'[r] # reply[r] /\ reply'[r].status = 200 =>
        \A b \in Accessible(scopes'[r]) :
          IF reply'[r].manifest[b] = None
          THEN failedAt[b] # None /\ now <= failedAt[b] + Horizon
          ELSE now <= CurrentUntil(b, reply'[r].manifest[b]) + Horizon
<1>1. ASSUME AggInv, [Next]_vars PROVE \A r \in Requests : Fresh(r)
  <2> SUFFICES ASSUME NEW r \in Requests, reply'[r] # reply[r], reply'[r].status = 200,
                      NEW b \in Route, b \in Accessible(scopes'[r])
               PROVE  IF reply'[r].manifest[b] = None
                      THEN failedAt[b] # None /\ now <= failedAt[b] + Horizon
                      ELSE now <= CurrentUntil(b, reply'[r].manifest[b]) + Horizon
    BY DEF Accessible
  <2>1. DOMAIN reply = Requests /\ DOMAIN scopes = Requests
    BY <1>1 DEF AggInv, TypeOK
  <2>2. ASSUME NEW m \in Manifest, NEW t \in Int, GatheredSince(m, scopes[r], t),
               now <= t + Horizon, reply'[r].manifest = m, scopes'[r] = scopes[r]
        PROVE  IF m[b] = None THEN failedAt[b] # None /\ now <= failedAt[b] + Horizon
               ELSE now <= CurrentUntil(b, m[b]) + Horizon
    <3>1. Horizon \in Nat /\ now \in Nat
      BY <1>1, BackendTypes DEF Horizon
    <3>2. CASE m[b] = None
      BY <1>1, <2>2, <3>1, <3>2, BackendTypes DEF GatheredSince
    <3>3. CASE m[b] # None
      <4>1. m[b] \in Nat /\ m[b] <= Version(b) /\ Version(b) \in Nat
            /\ (m[b] < Version(b) => t <= deployedAt[b][m[b] + 1])
        BY <1>1, <2>2, <3>3, BackendTypes DEF GatheredSince, Manifest
      <4>2. CASE m[b] = Version(b)
        BY <3>1, <3>3, <4>2 DEF CurrentUntil
      <4>3. CASE m[b] < Version(b)
        <5>1. deployedAt[b][m[b] + 1] \in Nat
          <6>1. m[b] + 1 \in 1..Version(b)
            BY <4>1, <4>3
          <6> QED
            BY <1>1, <6>1, BackendTypes
        <5>2. now <= deployedAt[b][m[b] + 1] + Horizon
          BY <2>2, <3>1, <4>1, <4>3, <5>1
        <5>3. CurrentUntil(b, m[b]) = deployedAt[b][m[b] + 1]
          BY <4>1, <4>3 DEF CurrentUntil
        <5> QED
          BY <3>3, <5>2, <5>3
      <4> QED
        BY <4>1, <4>2, <4>3
    <3> QED
      BY <3>2, <3>3
  <2>3. ASSUME NEW q \in Requests, NEW s, NEW m, Respond(q, s, m)
        PROVE  q = r /\ reply'[r].status = s /\ reply'[r].manifest = m
    BY <2>1, <2>3 DEF Respond
  <2>4. ASSUME NEW q \in Requests, CacheHit(q)
        PROVE  \E m \in Manifest, t \in Int :
                 /\ GatheredSince(m, scopes[r], t) /\ now <= t + Horizon
                 /\ reply'[r].manifest = m /\ scopes'[r] = scopes[r]
    <3>1. /\ scopes[q] \in ScopeSets /\ Entry(q) = cache[scopes[q]] /\ Entry(q) # None
          /\ Respond(q, 200, Entry(q).manifest) /\ scopes' = scopes
      BY <1>1, <2>4 DEF CacheHit, Entry, CacheKey, AggInv, RequestInv
    <3>2. q = r /\ reply'[r].manifest = Entry(q).manifest
      BY <2>3, <3>1
    <3>3. /\ Entry(q).manifest \in Manifest /\ Entry(q).dies \in Int /\ now <= Entry(q).dies
          /\ GatheredSince(Entry(q).manifest, scopes[q], Entry(q).dies - Horizon)
      BY <1>1, <3>1, BackendTypes DEF AggInv, TypeOK
    <3>4. Entry(q).dies - Horizon \in Int /\ now <= (Entry(q).dies - Horizon) + Horizon
      BY <1>1, <3>3, BackendTypes DEF Horizon
    <3> QED
      BY <3>1, <3>2, <3>3, <3>4
  <2>5. ASSUME NEW q \in Requests, Store(q)
        PROVE  \E m \in Manifest, t \in Int :
                 /\ GatheredSince(m, scopes[r], t) /\ now <= t + Horizon
                 /\ reply'[r].manifest = m /\ scopes'[r] = scopes[r]
    <3>1. /\ got[q] \in Manifest /\ Respond(q, 200, got[q]) /\ scopes' = scopes
          /\ GatheredSince(got[q], scopes[q], since[q])
          /\ since[q] \in Nat /\ now <= since[q] + FetchTime
      BY <1>1, <2>5 DEF Store, AggInv, RequestInv, Manifest
    <3>2. q = r /\ reply'[r].manifest = got[q]
      BY <2>3, <3>1
    <3>3. now <= since[q] + Horizon
      BY <1>1, <3>1, BackendTypes DEF Horizon
    <3> QED
      BY <3>1, <3>2, <3>3
  <2>6. ASSUME NEW q \in Requests, RedisFail(q) \/ Refuse(q) PROVE FALSE
    BY <2>3, <2>6 DEF RedisFail, Refuse
  <2>7. ASSUME NEW q \in Requests, NEW S \in ScopeSets, AnswerEmpty(q, S) PROVE FALSE
    <3>1. q = r /\ Accessible(S) = {} /\ scopes'[r] = S
      BY <2>1, <2>3, <2>7 DEF AnswerEmpty
    <3> QED
      BY <3>1 DEF Accessible
  <2>8. \E q \in Requests : \/ CacheHit(q) \/ Store(q) \/ RedisFail(q) \/ Refuse(q)
                            \/ \E S \in ScopeSets : AnswerEmpty(q, S)
    BY <1>1 DEF Next, vars, Progress, Ask, CacheMiss, FetchOk, FetchFail, SendSet, Deploy,
                Evict, Tick
  <2> QED
    BY <2>2, <2>4, <2>5, <2>6, <2>7, <2>8
<1>2. AggInv /\ [Next]_vars => [\A r \in Requests : Fresh(r)]_vars
  BY <1>1
<1>3. BoundedStaleness <=> [][\A r \in Requests : Fresh(r)]_vars
  BY DEF BoundedStaleness
<1> QED
  BY <1>2, <1>3, AggregatorInvariant, PTL DEF Spec
=============================================================================
