\* Every plan, strict or not, with every outcome of every call in every order.
SPECIFICATION FairSpec
CONSTANT Plans <- MCPlans
INVARIANTS
  ExecInv
  DependenciesRespected
  ResultsComplete
  DeadlockExact
  RequiredFailures
PROPERTIES
  Terminates
  ImplementsSchedule
\* The executor stops.
CHECK_DEADLOCK FALSE
