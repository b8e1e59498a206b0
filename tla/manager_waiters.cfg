\* resolveAsync and waitUntilInitialized race registrations and timers.
SPECIFICATION FairSpec
CONSTANTS
  Service <- Services
  Token <- Tokens
  Name <- Names
  TokenOf <- TokenTable
  NameOf <- NameTable
  Priority <- PriorityTable
  Position <- PositionTable
  Dependencies <- DependencyTable
  ModulesOf <- ModuleTable
  Enabled <- EnabledTable
  Profile <- ProfileServices
  Waiter <- Waiters
  WaitToken <- WaitTokenTable
  WaitNames <- WaitNamesTable
  InitWaiter <- InitWaiters
  MayThrow <- Failing
  Reentrant <- NoReentry
  MaxInstances = 4
  MaxDepth = 1
INVARIANTS
  NoLostWakeup
PROPERTIES
  WaitersSettle
