\* Every callback but the constructor may perform any operation of the manager, but
\* for initializing the profile again from initialize().
SPECIFICATION Spec
CONSTANTS
  Service <- Services
  Token <- Tokens
  Name <- Names
  TokenOf <- TokenTable
  NameOf <- NameTable
  Priority <- PriorityTable
  Position <- PositionTable
  Dependencies <- LooseTable
  ModulesOf <- ModuleTable
  Enabled <- EnabledTable
  Profile <- ProfileServices
  Waiter <- NoWaiters
  WaitToken <- NoWaitTable
  WaitNames <- NoWaitTable
  InitWaiter <- NoWaiters
  MayThrow <- NoHook
  Reentrant <- CallbackReentry
  MaxInstances = 4
  MaxDepth = 1
INVARIANTS
  CalledOnce
  NobodyLeftBehind
  DisposeIsComplete
  ModulesFollowParent
