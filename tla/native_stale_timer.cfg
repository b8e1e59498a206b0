\* The state and immersive disagree when two switches overlap.
SPECIFICATION Spec
CONSTANTS
  Request <- ThreeRequests
  End <- NoEnd
  Mode <- Modes
  ModeOf <- ThreeModeOf
  None = None
  HostState <- PlainStates
  Override <- NoOverride
  Concurrent = TRUE
  Nested = FALSE
  Disposes = FALSE
  Foreign = FALSE
  JobsFirst = TRUE
  MaxFrames = 0
INVARIANTS
  ImmersiveAgrees
