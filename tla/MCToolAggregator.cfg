\* Two concurrent aggregations over the shared manifest cache.
SPECIFICATION FairSpec
CONSTANTS
  r1 = r1  r2 = r2
  Pending = Pending
  None = None
  Requests <- MCRequests
  Route <- MCRoute
  RouteScope <- MCRouteScope
  ScopeSets <- MCScopeSets
  CacheTTL = 1
  FetchTime = 1
  MaxTime = 3
  MaxDeploys = 1
INVARIANTS
  OnlyAccessible
PROPERTIES
  BoundedStaleness
  Answered
\* Every request may have been answered and the clock be at its bound.
CHECK_DEADLOCK FALSE
