\* The adapters of the browser engines and the mock, used calmly or not.
SPECIFICATION FairSpec
CONSTANTS
  Request <- Requests
  End <- Ends
  Mode <- Modes
  ModeOf <- ModeTable
  None = None
  App = App
  Override <- ForcedOn
CHECK_DEADLOCK FALSE
INVARIANTS
  CapabilitiesFollowSession
  EndsAreSettled
  PausedBySession
  TimersBelongToCalls
PROPERTIES
  ImplementsContract
  CallsAreAnswered
