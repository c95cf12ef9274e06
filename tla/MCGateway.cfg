\* Two requests through the whole pipeline: safety, liveness, refinement.
SPECIFICATION FairSpec
CONSTANTS
  r1 = r1  r2 = r2
  alice = alice  bob = bob
  tAlice = tAlice  tBob = tBob  tForged = tForged
  bloomberg = bloomberg  risk = risk
  None = None
  McpGateway = McpGateway
  Requests <- MCRequests
  Token <- MCToken
  Genuine <- MCGenuine
  Subject <- MCSubject
  SubOf <- MCSubOf
  ScopesOf <- MCScopesOf
  ExpOf <- MCExpOf
  Scope <- MCScope
  Route <- MCRoute
  Char <- MCChar
  Slash = "/"
  PathPrefix <- MCPathPrefix
  SortedRoutes <- MCSortedRoutes
  Paths <- MCPaths
  RouteScope <- MCRouteScope
  Audience <- MCAudience
  RouteAud <- MCRouteAud
  Lifespans <- MCLifespans
  CacheTTL = 2
  StoreDelay = 1
  MaxTime = 3
INVARIANTS
  PipelineInv
  SubjectPreserved
  CacheSound
  CacheStalenessBounded
  AuditMatchesOutcome
  RoutesByWholeSegments
PROPERTIES
  Answered
  ImplementsAccessDecision
\* Every request may have been answered and the clock be at its bound.
CHECK_DEADLOCK FALSE
