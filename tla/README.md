# TLA+ verification of the ContextForge MCP gateway

TLA+ models of the services in this repository, the TLC runs that check them on
small instances, and TLAPS proofs of their safety properties for every value of
the constants.

    tlc -workers 2 -config MCGateway.cfg MCGateway      # a run
    tlapm GatewayProofs.tla                             # a proof

`PROJECT.json` lists the components, the runs with their properties, for each
definition the lines of code it models, for each property a mutation of the
code's model that breaks it, the hazards found in the code, and the theorems.

## 1. The system

A portfolio manager (PM) talks to the **gateway** with a broad token of
Keycloak. The gateway validates it, picks a backend by path, checks the route's
scope, exchanges the token for one narrowed to that backend (through a cache in
Redis), forwards the request and writes an audit entry. The backends are MCP
servers: **bloomberg**, **risk**, **research**, and the **cognitive server**,
which learns a PM's habits. The **orchestrator** is another client of the
gateway: it parses a thesis, plans tool calls, executes them and synthesises a
report.

Everything is asyncio: within a process, tasks interleave at `await`s and
nowhere else. There are no locks. State shared by tasks of one process lives in
module or object attributes; state shared by processes, in Redis and Postgres.

### Inventory

| part | state | operations | talks to | what is hard | what makes it correct |
|---|---|---|---|---|---|
| gateway pipeline (`gateway/main.py`, `routing/proxy.py`, `middleware/audit_log.py`) | the request being handled; the audit log | one handler with six ways out | Keycloak, Redis, a backend | any await may fail or be the last; requests interleave | the subject is the caller's from the token to the backend; one truthful audit entry per answer; an answer for every request |
| token exchange (`auth/token_exchange.py`) | cache entries in Redis with a TTL | `exchange`, `_call_keycloak` | Keycloak, Redis | shared cache, expiry against TTL, lost replies of `setex`, eviction | an entry is used only by the login and for the audience it was exchanged for; no token is served long after it expired |
| JWT validation, scopes (`auth/jwt_validator.py`, `auth/scope_checker.py`) | the key client: a key set with an expiry, and a key per kid without one | `validate`, `_decode`, `check_scope` | Keycloak | key rotation under the two caches, a kid used again | only tokens signed with a published key and with the scope get in; a rotation locks nobody out |
| path router, configuration (`routing/path_router.py`, `config.py`) | constant routes | `match`, `get_backend_path` | - | prefixes of prefixes, slashes at the ends | the longest prefix of whole segments wins, and the backend is asked for the rest |
| tool aggregator (`routing/tool_aggregator.py`) | manifests in Redis, by scope set | `aggregate`, `_fetch_tools` | backends, Redis | partial failures, staleness, concurrent gathers | only accessible tools are listed; staleness is bounded; always an answer |
| thesis parser (`orchestrator/parser`) | constant keyword tables | `parse_thesis` | - | keywords inside keywords, ties, words that only look like tickers | the plan made from what it finds is executable |
| planner (`orchestrator/planner`) | constant templates | `generate_plan` | - | the calls must be ones the servers accept | plans are executable |
| plan executor (`executor/plan_executor.py`) | groups left, names executed, results | `execute_plan`, `_execute_group`, `_execute_call` | gateway client | waves of concurrent calls, dependencies, failures, deadlock | dependencies first; nothing lost; the deadlock detected exactly |
| gateway client (`executor/gateway_client.py`) | the cached token and its expiry | `call_tool`, `_get_token`, `_fetch_token` | Keycloak, gateway | concurrent refreshes, late 401s, one retry | no tool run twice; fresh token on retry |
| synthesiser (`synthesiser/*`) | - | `score_evidence`, `assess_risk`, `generate_report` | - | thresholds, missing data, the shape of the servers' results | the verdict follows the evidence |
| risk, bloomberg, research servers (`servers/*`) | constants | nine tools | - | desk isolation | nothing of a desk the caller lacks |
| ECEF engine (`cognitive_server/ecef/equilibrium.py`) | rows of models by PM and version | `get_or_build_model`, `iterate` | Postgres | two builds at once, a build cut short | contiguous versions, what is shown is stored or empty |
| ingestion (`cognitive_server/ingest`) | rows of interactions | `POST /ingest`, `/ingest/batch` | Postgres | background writes that fail | each event is by itself; batches drain |
| connection pool (`cognitive_server/db/connection.py`) | the pool | `get_pool`, `acquire` | Postgres | check, await, assign | one pool |
| pattern mining, ECEF numerics (`patterns`, `constructor.py`, `evaluator.py`, `tools/suggest.py`, `tools/profile.py`) | - | `build_model`, `evaluate`, `predict_next`, the patterns of a history | the tables | events that arrive late, models built on part of a history, blended and raced | nothing is shown that no session did; a loop with nothing to learn from settles |
| demo, tests, deployment | - | - | - | - | - |

Interactions, by kind:

- *calls over HTTP*: client -> gateway -> backend; gateway and client -> Keycloak;
  every one may fail, time out, or be served with the answer lost;
- *shared state*: the two Redis caches, shared by all requests (and outliving
  the process); the client's token, shared by the calls of a plan; the two
  tables, shared by requests, background writes and restarts; `_pool`;
- *background tasks*: the writes of a batch, after its answer; calls of a plan
  that outlive an aborted `gather`.

## 2. Modules

| module | models | proofs |
|---|---|---|
| `AccessDecision` | what the gateway promises: a decision per request, its audit entry, the backend's view | |
| `PathRouter` | `match`, `get_backend_path` (no state) | `GatewayProofs` |
| `Gateway` | the pipeline, the router, the token exchange and its cache | `GatewayProofs` |
| `KeyCache` | the signing keys under rotation | `KeyCacheProofs` |
| `ToolAggregator` | `GET /tools/aggregate` and its cache | `ToolAggregatorProofs` |
| `DependencySchedule` | what the executor promises: groups end in an order of their dependencies | |
| `PlanExecutor` | `execute_plan` for any plan | `ExecutorProofs` |
| `GatewayClient` | concurrent `call_tool`s over one client | `ExecutorProofs` |
| `CognitiveServer` | requests, builds, ingestion, pool, tables | `CognitiveServerProofs` |
| `TransitionModel` | the matrix, its score, and what is read from it (no state) | `LearningProofs` |
| `Learning` | what requests show and persist while a history arrives | `LearningProofs` |
| `ThesisParser` | `parse_thesis` (no state) | |
| `ToolServers` | the tools that plans call: checks, isolation, the shape of the answers (no state) | |
| `Planner` | `generate_plan` and the six templates (no state) | |
| `Synthesis` | evidence, confidence, verdict, risk score (no state) | `ThesisValidationProofs` |
| `ThesisValidation` | `validate_thesis`, composed of the four above and `PlanExecutor` | `ThesisValidationProofs` |

`FoldFacts` is no model: it holds the lemmas about the folds of the models, and the
inductions behind them. `MC*` modules give the constants small values; each `.cfg` is one run.
`Gateway` implements `AccessDecision` and `PlanExecutor` implements
`DependencySchedule`, each with a refinement mapping and the abstract
specification as a property of the run. `ThesisValidation` runs an instance of
`PlanExecutor`: its variables are the executor's and a few of its own.

Conventions. A task is an index of per-task variables with a program counter
that names the await it stands at; one action takes it from one await to the
next, with all the code in between. Failures are disjuncts, not fairness.
`Crash` drops the state of the tasks and keeps what is stored outside. A
definition commented `Variant:` is a plausible bug of the definition after it;
nothing refers to it: it is there to show that a property can fail (`mutants` in
`PROJECT.json`).

### Gateway

`pc[r]` is where `gateway_handler` stands: `lookup` (`redis.get`), `call` and
`reply` (the POST of `_call_keycloak`, before and after Keycloak issues a token),
`store` (`setex`), `proxy` and `await` (the backend's request and answer),
`done`, or `lost` in a crash. The early returns (401 without or with a bad token, 404, 403)
are the `Reject...` actions; `Admit` enters the exchange. `CacheWrite` is the
effect of a `setex`, which may happen although its reply is lost (`StoreFail`).
`FallBack` is the handler's `except Exception`: whatever fails in `exchange`,
the request goes on with the caller's own token. `BackendReceive` records the
token a backend was shown; `Answer` ends the handler and logs. `Evict`
(`allkeys-lru`) and `Tick` are the environment. The SHA-256 of the cache key is
taken to be injective, and a token is its claims. `Admit` and the rejections
take the route from `PathRouter`, which has paths as sequences of characters,
the slash among them; `path[r]` is the path it was asked about.

### KeyCache

`validate` awaits nothing: while it fetches keys the event loop stands still, so
there is one validation at a time, and Keycloak (`Publish`, `Retire`) and the
clock go on between its fetches. PyJWT's client is external, modelled from how
`jwt_validator.py` uses it: it keeps the key set for `jwks_cache_ttl`, and the
key of each kid, which it was once asked for, for good. `BadSignature` is the
handler of `InvalidSignatureError`, which replaces the client and decodes once
more; `CheckClaims` is what `jwt.decode` makes of a good signature: the token is
accepted, or refused for its `exp`, `nbf`, `iss` or `aud`.

### ToolAggregator

`Ask` is a request with a scope set, up to `redis.get`; `CacheHit` and
`CacheMiss` its answers. The fetches of `asyncio.gather` end in any order
(`FetchOk`, `FetchFail`); `SendSet` builds the manifest, `Store` ends the
`setex`; `RedisFail` is a Redis error at either call, which the route answers
with a 500. A backend's tool list is its version, changed by `Deploy`. The
renaming of tools is abstracted, and the token exchange of a fetch is part of
the fetch.

### PlanExecutor

A plan is a record of the groups in the order listed, their dependencies and
which of their calls are required; it is chosen in `Init`, with `strict`. `StartWave` is one turn of the `while`
loop: the ready groups' calls start at once. `CallEnds` ends one with any
outcome, `GroupReturns` and `GroupRaises` are `_execute_group` after its
gather, `Resume` the outer gather, `Deadlock` and `Return` the other exits.
When a required call fails under `strict`, gather re-raises at once and the
other calls go on: they stay in the state as they do in the event loop.

### GatewayClient

`token` and `expiry` are the client's attributes. `CallCached` starts a call
with a usable token, `CallFetch` one that has to fetch; `TokenArrives` and
`FetchFails` end a fetch, whose answer overwrites the attributes whatever
happened meanwhile. `Refuse` and `Accept` are the answers of the gateway, `Retry`
the branch for a first 401: it clears the cached token, whichever that is by now,
and leaves its expiry (`gateway_client.py:123`). `Conclude` is the result or the
`GatewayError`, `PostFails` an exception of httpx. The gateway accepts a token until it has expired;
Keycloak's `expires_in` counts from the issue, the client's from the moment
before its fetch.

### CognitiveServer

A request's `pc` is the query it waits for. `Request` is any tool; `Fetch` the
history; `Load` and `LoadNone` the two outcomes of `_load_latest_model`; a
build runs `LoadInteractions`, `LoadPrior` and then `Persist` after each
iteration, going on or returning (`GoOn`). `Upsert` is the `ON CONFLICT`
clause. `QueryFails` raises out of the tool, and a persist that failed may have
happened. A batch writes one event at a time (`NextWrite`, `Write`,
`WriteFails`). `Connected` and `WriterConnected` are `create_pool` returning.
Of a model the version is kept, the request that built it (`by`) and whether its
loop was over; that tells the models of one version apart, as no request builds a
version twice. `Empty` is the model `iterate` returns without any interactions,
of version 1 too and never stored (`equilibrium.py:206`). Convergence is a choice,
so nothing here depends on the numerics.

### Learning, TransitionModel

The same tools with what `CognitiveServer` leaves open: the rows of one PM, the
model as a matrix, its accuracy, and what a suggestion or a profile reads from it.
`delivered` is the table in the order of its timestamps. `Deliver` puts the row of
a call in it: late, never or, when a batch is replayed (`interaction_logger.py:126`;
`schema.sql` has no unique key), once more. A producer may stamp its events
(`stamped`); otherwise the stamp is the time the server parsed the event
(`ingest/models.py:63-66`), and the order of the rows is any. Calls are taken to
have distinct times, so that the stamps alone order them. `TransitionModel` is exact: a row
of the matrix is integer weights without a common divisor (`gcd` is arithmetic of
this representation, not of the code), whose quotients are the code's
probabilities; a blend of 3/10 and 7/10 and the test for convergence
are comparisons of products. Which of several equally likely tools comes first
depends on the order rows were inserted in and is a choice. `lone` and `rich`
are ghosts; a request's locals end with it, and `answer` is what the last step
answered.

### ThesisValidation, ThesisParser, Planner, ToolServers, Synthesis

`Start` is `validate_thesis` up to the first await of `execute_plan`, for a
text it parses (`ThesisParser`); `RejectUntestable` its early return. `Wave`
and `GroupReturns` are the executor's own actions; `CallEnds` is the executor's
with the reply beside it: one of `Replies(call, account)`, what the server of
the call may answer the account, or `Lost`, whatever failed on the way.
`Synthesise` is the rest of the handler, which ends in a report or raises. Since the synthesiser keeps no state
and the results no longer change, the report is an operator (`Report`) of the
state, not a variable. Two exits of the executor are left out: `main.py:183`
calls it with `allow_partial_failure`, so that nothing aborts it, and should a
template deadlock, no action would be enabled and `AlwaysReports` would fail.

A text is the keywords that occur in it, its words in capitals in order, and an
instrument it names: all that decides the claim, the direction, the asset and
whether the thesis is testable. Magnitude, timeframe, trade and asset class are
echoed in the report and left out.

`Planner` gives each call with its arguments, dates as days. `ToolServers` has
what the tools check, in their order: the arguments, the desk against the
claims of the token (`DeskIsolation.enforce`), the bloomberg tools' own
limits, the ticker. The exception of a tool that refuses reaches the client in one
of two forms (`Refusal`), depending on the MCP library the servers run on: as an
error of JSON-RPC, which the end-to-end test expects
(`tests/e2e/test_pm_isolation.py:29-30`) and which makes the call a failed one, or as
the text of a result, which `_extract_result` takes for a success, since it never looks
at `isError` (`gateway_client.py:244-258`). A text leaves no gap in the evidence, and
where the fields of a ticker are expected the scorer raises on it
(`evidence_scorer.py:127-131`): `Unscorable`, and no report. Of an answer `ToolServers` keeps
*which key holds what kind of value*: that decides what the synthesiser reads,
and it differs between the two sides. `Synthesis` follows the scorers
branch by branch, in thousandths.

## 3. Runs

| run | instance | properties |
|---|---|---|
| `gateway` | 2 requests, up to 2 callers with 2 routes | `PipelineInv` (types and the inductive invariant), `SubjectPreserved`, `CacheSound`, `CacheStalenessBounded`, `AuditMatchesOutcome`, `RoutesByWholeSegments`, `Answered`, `ImplementsAccessDecision` |
| `keys` | 3 keys, 2 of one kid, 4 changes | `RotationIsSeen`, `AcceptedWasPublished`, `ValidationEnds` |
| `aggregator` | 2 aggregations, 2 backends, 1 deployment | `OnlyAccessible`, `BoundedStaleness`, `Answered` |
| `executor` | five shapes of plans of up to 5 groups, strict or not | `ExecInv`, `DependenciesRespected`, `ResultsComplete`, `DeadlockExact`, `RequiredFailures`, `Terminates`, `ImplementsSchedule` |
| `client` | 2 calls, tokens of 3 ticks, a buffer of 1 | `ClientInv`, `RetryIsFresh`, `AtMostOnce`, `SentInTime`, `EveryCallEnds` |
| `cognitive` | 2 requests, 1 PM, a batch of up to 2, 3 iterations, 1 crash | `VersionsContiguous`, `AnswersPersisted`, `EmptyMeansNoModel`, `BatchDrains`, `RequestsEnd` |
| `cognitive_pool` | same | `SinglePool`, **violated** |
| `learning` | 2 requests, histories of 3 calls in two sessions and 2 in one, up to 3 rows, stamped or not, 3 iterations | `ShowsWhatHappened`, `LoneBuildSettles` |
| `learning_insufficient` | same | `InsufficientMeansInsufficient`, **violated** |
| `thesis` | one validation: 23 texts, 3 desks, 2 accounts, every order and outcome of the calls | `CallsAnswerable`, `DeskIsolated`, `SupportNeedsMarketData`, `GapNeverSupports`, `FavourableIsNoWorse`, `EvidenceInOrder`, `AlwaysReports` |
| `thesis_gaps` | same | `GapsDoNotContradict`, **violated** |
| `thesis_risk` | same | `RiskThresholdsMet`, **violated** |

What the passing runs show is stated above each property in the modules. What
the violated ones show:

- *`SinglePool`*: `connection.py:4` promises a single pool; `get_pool` has an
  await between its test and its assignment.
- *`InsufficientMeansInsufficient`*: `suggest.py:77` answers that there is too little
  history, and `constructor.py:10-12` says new observations update beliefs; but a PM
  who has a model never gets another, so that a model built on a single call
  answers for ever, whatever the table holds by then.
- *`GapsDoNotContradict`*: `evidence_scorer.py:641-642` says missing data neither
  supports nor contradicts a thesis; but without items FOR the confidence
  is 0 before the pull of the neutral ones, which is at most 20% of the way to 1/2: a
  thesis is `UNSUPPORTED` for lack of any evidence against it. The other half
  of the sentence holds: `GapNeverSupports`.
- *`RiskThresholdsMet`*: `risk_assessor.py:13-17` gives the thresholds of the
  risk score; the assessor looks for `var`, `cvar`, `pnl_impact` as numbers
  where the engine writes `value_pct_nav` and an object (`engine.py:176-177,425`),
  so no VaR is ever seen and the score does not depend on it.

Three of the passing properties say less than a reader may expect, as the code does:

- `AnswersPersisted`: the row of an answered model may be overwritten by another build
  that arrived at the same version (`ON CONFLICT DO UPDATE`), and the empty model
  is in no row; `EmptyMeansNoModel` says when that one is shown.
- `ShowsWhatHappened`: whatever is shown was called in one session. That it was called in
  that order holds only if the events are stamped, and that no call is shown as
  its own successor only if no row is in the table twice.
- `SupportNeedsMarketData` and `AlwaysReports`: a refusal that arrives as a text counts as
  a success. Then research alone can support a thesis whose market data calls all
  succeeded without leaving an item (an unknown ticker in a snapshot, a refused
  history); and a validation for a desk the account may not see, or that is none,
  can end without a report.

Other differences between code and docs met on the way, which no run checks:

- gateway: a request whose exchange failed is proxied with the caller's own token
  (`main.py:145` says the exchanged one; the log tells which it was). A 401 for
  want of a bearer token, and all of `/tools/aggregate`, leave no audit entry
  (`audit_log.py:29`: every request). A retired key is accepted past
  `jwks_cache_ttl`, until the process restarts or a signature fails, since the key
  of a kid is cached for good. A catch-all prefix `/` would match only the root.
- cognitive server: `suggest.py:37` promises the latest *converged* model; every
  iteration is persisted and the latest row is served, for ever if the loop was
  cut short. `ecef/models.py:61-62` says a version is one iteration (two builds
  can share one). `evaluator.py:47` says the rows scored were never seen during
  construction; the prior of a raced build may have been trained on them. An
  event without a timestamp gets the time the server parses it
  (`ingest/models.py:36-38`: when the gateway received the call), so that a late
  one counts as late.
- orchestrator: `plan_executor.py:51-52` says the results are sorted by server and
  tool (they are in plan order); the error of line 72 says dependencies are
  missing, also for a cycle. In `thesis_parser.py` a keyword inside another counts
  as well and a tie goes to the earlier entry: "long straddle" is `long`, not
  `long_vol`. Its pattern "US treasur" is matched against a lowercased text
  and never found, and "USD/JPY" alone makes a thesis untestable.

### Bounds, and why they are enough

- *Two tasks* everywhere: the shared state of each component is a cache entry, a
  pair, a set of rows, and a race for it needs two parties. The proofs, for any
  number of tasks, say the same of the safety properties.
- *Time* is a counter capped by `MaxTime`; lifetimes, TTLs and buffers are 1 to 3
  ticks, enough for a token to expire at each await and for an entry to outlive
  it. The proofs do not use the cap.
- `MaxDeploys = 1`, `MaxCrashes = 1`: the properties compare a state with one
  earlier state; a second crash finds the tasks as the first left them.
- `NIterations = 3` (the code has 10): a first iteration, one that may converge,
  a last one. `BatchLimit = 2` (500): a batch with a failure and a success, and
  one that is too large.
- Key rotations: four changes suffice to retire a key, publish another under its
  kid and go back; two fetches of a decode and two decodes of a validation meet
  each of them. A key set lives for one tick of three.
- Paths: one that is a prefix, one that only seems to be below the longer prefix, and
  one that only seems to be below the shorter; with more, the run repeats itself
  under other names.
- Learning: `NIterations = 3`, and `Window = 2` (3 in the code), `TopK = 1` (3) and
  `MinFrequency = 1` (2), so that three rows of two tools give chains, ties and more
  candidates than are shown; intervals lie on both sides of the 5 s threshold. One
  history interleaves two sessions, the other is one session of two calls, of which a
  repeated row makes a third. `MaxRows = 3`: every call, or one of them repeated, before,
  between or after the look-ups of two requests. The requests are symmetric.
- Texts: the examples of `thesis_parser.py`, then each claim type on a stock of the bloomberg universe and on the index
  (whose ticker the planner gets wrong); momentum in both directions, also on a stock the
  universe lacks, and mean reversion on that stock; "mean reversion" always with
  the "rsi" that is part of it; no keyword at all; words that only look like tickers (`IV`, `GDP`);
  one untestable. Desks: one the account may have, one it has not, one
  that is none. Accounts: with a desk, and without any. Three histories, two
  P&Ls and four libraries put the scores on each side of their thresholds that the
  data of the servers can reach: the VaR of every shipped book is between 6.3% and 18.5%
  of the NAV, so one value does; snapshots hold volatilities as
  fractions, so the spread rule only ever yields NEUTRAL. The shipped research
  titles have none of the keywords; the libraries of the model do, so that the
  verdict properties do not rest on it.
- Plans: every template is a chain or a fork on one root; the run adds a chain
  listed backwards, a diamond, an unknown dependency and a cycle.

### Fairness

Liveness is checked under weak fairness of a task's steps as a whole
(`WF(Progress(r))` or the like): the event loop runs a ready task, and each
await ends: httpx and asyncpg give up, which is one of the failures. The client of
Redis has no socket timeout (`main.py:51`): that its awaits end is an assumption on
Redis and the network, that it answers or its connection breaks. Nothing is assumed of *how* an await ends, so success is never
assumed. A validation of a token (`WF_vars(Decode)`) runs in the process, and
`urllib` gives up on a fetch. `Learning` is checked for safety only. There is no fairness on the environment (expiry, eviction, crashes,
deployments, new requests), nor on the start of a validation: `WF_vars(Execute)`
is what the event loop does once it has begun.

## 4. Proofs

All for arbitrary constants under the named `ASSUME`s (bounds are naturals, and
`None` is not one of the values it stands beside; the rest are facts of the
configuration, such as a positive TTL), which TLC evaluates in each run.

- **Gateway** (`GatewayProofs`). `PipelineInv` is inductive: where a request
  stands fixes what it holds, what its backend has seen and what is logged, and
  each cache entry was exchanged for the key it is under. The cache conjunct is
  needed because a hit checks nothing but the key. From it: `SubjectPreserved`,
  `CacheSound`, `CacheStalenessBounded`, `AuditMatchesOutcome`, and step
  simulation gives `ImplementsAccessDecision`.
- **Router** (`GatewayProofs`): the prefixes that pass the test of `match` are those
  that cover whole segments; the first hit is the least index, and the table is
  sorted by length (`MatchIsLongestPrefix`). With the part of `PipelineInv` that
  ties a request's route to its path: `RoutesByWholeSegments`, for any table and paths.
- **Signing keys** (`KeyCacheProofs`). `KeyInv`: what is cached was published since the
  client was made; and in a second decode, if the signer is published
  throughout, its kid can only have been published for its key, since a kid has one
  key at a time. Hence `RotationIsSeen` and `AcceptedWasPublished`.
- **Tool aggregator** (`ToolAggregatorProofs`). Every manifest, in a fetch, in Redis or
  in an answer, is made of tools of the routes of its scope set, as of a version
  no older than its expiry allows. From it: types, `OnlyAccessible` and
  `BoundedStaleness`.
- **Executor** (`ExecutorProofs`). `ExecInv` has two parts. `ScheduleInv` says what
  was executed is closed under dependencies *and* contained in every set that is;
  the second half is what makes a deadlock exact: the names left out are those no
  order reaches. `ResultsInv` says the results are those of the executed groups, one
  each, a dependency before what depends on it, and still what the calls of the
  group are; the last needs `ScheduleInv`: the calls of an executed group have
  ended, so no step changes them (`DoneIsFinal`). A wave appends the results of its
  groups in the order of the plan, whose names are distinct (`PlansAssumption`: they are the keys
  of a dict). From it: `DependenciesRespected`, `DeadlockExact`, `RequiredFailures`,
  `ResultsComplete`, `ImplementsSchedule`.
- **Client** (`ExecutorProofs`). `ClientInv` ties what a call remembers (the
  token sent, the time before its fetch) to the attributes. From it:
  `PairConsistent`, `RetryIsFresh`, `AtMostOnce`, `SentInTime`.
- **Cognitive server** (`CognitiveServerProofs`). `VersionsContiguous` is not
  inductive: a build could write a version far past the table. `StoreInv` adds
  that all versions below the one a build is about to write are in the table,
  which survives any upsert of the others since upserts only add versions. Nor is
  `AnswersPersisted`: that a row is the model that was answered, or another
  build's, needs that a build is past every version it has written (`Behind`), so
  that it overwrites no model of its own. And there are models only of a PM with
  rows, which rows stay: an empty answer finds no model. From it: `VersionsContiguous`,
  `AnswersPersisted`, `EmptyMeansNoModel`.
- **Thesis validation and synthesiser** (`ThesisValidationProofs`), for any texts,
  desks, accounts, securities, books and libraries, and whatever fails. The
  invariant is `ValidationInv`, in two parts. `ReplyInv`: the calls of the plan are ones of a
  template for the desk asked for, and what is held of each is a reply its server
  may give; the templates are taken call by call (`TemplateAnswerable`). `RunInv`: the executor
  carries out the plan of the thesis in two waves, and a group counts as done only
  when each of its calls has its reply; without it nothing is known of the results a
  report is made from. `CallsAnswerable` and `DataOfDesksPermitted` follow from
  `ReplyInv`. The properties of reports go on from a finished plan in four stages:
  1. each call of the plan has one result, in the order of the plan (`ResultsOrigin`, a
     bijection);
  2. what a result leaves is of the server it came from, and is one neutral gap
     exactly when its call failed (`ItemsOfResult`, `GapOfFailure`), scorer by scorer;
  3. the evidence is that of the results one after the other (`ScoresExpand`), hence its order, its
     gaps and the origin of each item: `EvidenceInOrder`. What a desk without access
     leaves of market data and book is gaps: `DeskIsolated`;
  4. counts and sums of the evidence under a turn of one item, or without the gaps,
     and the arithmetic of the confidence over them (`ConfidenceIsShare`,
     `FavourableVerdict`, `NeutralNeverSupports`): `FavourableIsNoWorse`, `GapNeverSupports`.
     For `SupportNeedsMarketData`: the risk server's answers leave no items, since their
     numbers are under keys the scorers do not read (`RiskSilent`); research in favour has at most 55%,
     the last item of the report (`ResearchIsLast`), and beside a neutral one, a gap or
     a price, that supports nothing (`WeakEvidence`); so without market data in favour
     there is none at all, and then no call for it has failed (`SupportedByMarket`).
- **Learning** (`LearningProofs`), for any histories of calls, tools, windows and thresholds, and any
  number of requests, in three layers.
  1. *The divisor.* Euclid's recursion gives the greatest common divisor of every two
     naturals (`GcdCorrect`), and its fold that of a row (`GcdFold`). So a normalised row has no
     common divisor, and a multiple of it is normalised to it (`NormalisedMultiple`).
  2. *The operators.* A window of consecutive rows of a session happened
     (`WindowsHappened`), hence what is above 0 in a counted matrix (`CountedType`) or in
     a blend with a matrix of that kind (`TransitionsType`); a trigger is a call and the one before it in its
     session (`TriggersHappened`). What a suggestion or a profile takes from them happened
     (`SuggestionsHappened`, `ProfilesHappened`). A part of what was read of the table is as
     ordered and as free of repetitions as the table (`RecordedPart`). And a matrix blended with itself, or with
     none, is itself, since 3/10 and 7/10 of a row are a multiple of it (`TransitionsSame`).
  3. *The requests.* What they have read of the table is `Recorded` (`Tables`), and stays so:
     no step makes a table that has a call twice one that has not (`CallsKept`).
     `ShowsWhatHappened` and `LoneBuildSettles` are not inductive, as
     neither speaks of the model a request holds. `LearningInv` adds that each model, stored or held, is
     `Sound` (its transitions and triggers happened), and `LoneRun`: a build
     from nothing holds what its rows count, its accuracy and the one before are
     both accuracies of that matrix, and its version is at most its iteration and one.
     Where no two successors tie, a matrix has one accuracy (`UntiedAccuracy`), so the second
     iteration finds itself converged and the third is never begun.
- **Folds** (`FoldFacts`). `FlattenSeq` and `SumFunctionOnSet` are recursive in the
  community modules, and the induction theorems of the library take an operator as a parameter. The
  inductions here are stated for a *set*: a set of lengths or of finite sets that is not empty has a
  minimal element (`FS_StrictSubsetOrderingWellFounded`, `WFMin`), and
  a minimal counterexample is none. From it come the recursion equations of both folds
  (`SumStep`, `FlatMapAppend`), and what the proofs above
  cite: types, lengths, the element at a place, sums that differ in one
  element, the order and the origins of a flattened sequence. The models write a filter as a
  flattened sequence (`Extended`, `Successes`) rather than with `SelectSeq`, of
  which the provers know nothing.

Model-checked only: liveness (`Answered`, `ValidationEnds`, `Terminates`, `EveryCallEnds`,
`BatchDrains`, `RequestsEnd`, `AlwaysReports`), which needs ENABLED. Every other property of
a passing run is a theorem.

## 5. Not modelled

The fields of a thesis that are only echoed, and that a keyword occurs in a text;
the statistics of a profile that are only shown (hours, desks, durations);
floating point: the numerics of the risk engine are a choice among results of
the right size, those of ECEF are exact; the ranking of documents and the tools no
plan calls; the signature checks of the servers' shared auth; the demo, health,
request ids. `PROJECT.json` has the reason for each.

## 6. Plan

1. *done* - gateway and token exchange, the core: abstract decision, refinement, proofs.
2. *done* - aggregator, executor, client, cognitive server; proofs of the last three.
3. *done* - the validation of a thesis: planner, tool servers, synthesiser, composed
   with the executor; proofs of the calls, of isolation and of the verdict's arithmetic.
4. *done* - proofs for `ToolAggregator`; key rotation with the cached keys as state; the
   router and its theorem.
5. *done* - what the cognitive server learns, in exact arithmetic; the parser in front of
   the planner.
6. *left* - composition: the executor's calls as calls of `GatewayClient`, with the token
   they share.
7. *done* - the properties of whole reports and of the executor's results as theorems,
   with the inductions over sequences and sums they need.
8. *done* - what the cognitive server learns as theorems, with the divisor it is normalised by.
