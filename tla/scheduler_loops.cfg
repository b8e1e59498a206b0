\* Handlers subscribe, unsubscribe, emit, stop, start, dispose and throw.
SPECIFICATION Spec
CONSTANTS
  Channel <- Channels
  Handler <- Handlers
  ChannelOf <- ChannelTable
  None = None
  Performs <- Anything
  MayThrow <- AnyChannel
  HasFrames = TRUE
  CanCancel = TRUE
  ControlsInFrame = FALSE
  StopsInStartup = FALSE
  MaxDepth = 1
  MaxLoops = 2
INVARIANTS
  CacheIsCurrent
  OneRenderTickPerFrame
  StoppedIsSilent
  RunningIsDriven
