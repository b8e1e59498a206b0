\* The comment in end() is violated: no signal, and the promise waits for ever.
SPECIFICATION Spec
CONSTANTS
  Request <- Requests
  End <- Ends
  Mode <- Modes
  ModeOf <- ModeTable
  None = None
  App = App
  Override <- ForcedOn
CHECK_DEADLOCK FALSE
INVARIANTS
  EndFallbackSettles
