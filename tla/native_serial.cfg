\* One request at a time, microtasks, a host that answers endSession, no disposal.
SPECIFICATION ObligingSpec
CONSTANTS
  Request <- ThreeRequests
  End <- OneEnd
  Mode <- Modes
  ModeOf <- ThreeModeOf
  None = None
  HostState <- EveryKind
  Override <- ForcedOn
  Concurrent = FALSE
  Nested = FALSE
  Disposes = FALSE
  Foreign = TRUE
  JobsFirst = TRUE
  MaxFrames = 0
INVARIANTS
  ImmersiveAgrees
PROPERTIES
  ContractKept
  EveryRequestSettles
