\* Requests overlap, listeners call back, jobs are late, the app disposes.
SPECIFICATION Spec
CONSTANTS
  Request <- TwoRequests
  End <- OneEnd
  Mode <- Modes
  ModeOf <- TwoModeOf
  None = None
  HostState <- EveryKind
  Override <- NoOverride
  Concurrent = TRUE
  Nested = TRUE
  Disposes = TRUE
  Foreign = TRUE
  JobsFirst = FALSE
  MaxFrames = 1
INVARIANTS
  NothingForgotten
PROPERTIES
  GrantedIsLive
