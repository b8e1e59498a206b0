\* Any callback may throw; none calls the manager back.
SPECIFICATION Spec
CONSTANTS
  Service <- Services
  Token <- Tokens
  Name <- Names
  TokenOf <- TokenTable
  NameOf <- NameTable
  Priority <- PriorityTable
  Position <- PositionTable
  Dependencies <- DependencyTable
  ModulesOf <- ModuleTable
  Enabled <- EnabledTable
  Profile <- ProfileServices
  Waiter <- NoWaiters
  WaitToken <- NoWaitTable
  WaitNames <- NoWaitTable
  InitWaiter <- NoWaiters
  MayThrow <- AnyHook
  Reentrant <- NoReentry
  MaxInstances = 4
  MaxDepth = 1
INVARIANTS
  DestroyedIsGone
  UniqueNames
  FailuresAreReported
PROPERTIES
  ModulesDestroyedFirst
