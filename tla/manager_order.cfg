\* Callbacks re-enter the manager, but initialize() neither registers, unregisters nor starts.
SPECIFICATION Spec
CONSTANTS
  Service <- Services
  Token <- Tokens
  Name <- Names
  TokenOf <- TokenTable
  NameOf <- NameTable
  Priority <- PriorityTable
  Position <- PositionTable
  Dependencies <- SiblingTable
  ModulesOf <- ModuleTable
  Enabled <- BothModulesTable
  Profile <- ProfileServices
  Waiter <- NoWaiters
  WaitToken <- NoWaitTable
  WaitNames <- NoWaitTable
  InitWaiter <- NoWaiters
  MayThrow <- NoHook
  Reentrant <- OrderlyReentry
  MaxInstances = 5
  MaxDepth = 1
PROPERTIES
  DependenciesInitializeFirst
  InitializeBeforeStart
