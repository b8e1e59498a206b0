\* A test is violated: a handler restarts the scheduler in a frame.
SPECIFICATION Spec
CONSTANTS
  Channel <- Channels
  Handler <- Handlers
  ChannelOf <- ChannelTable
  None = None
  Performs <- Restarts
  MayThrow <- NoChannel
  HasFrames = TRUE
  CanCancel = TRUE
  ControlsInFrame = TRUE
  StopsInStartup = FALSE
  MaxDepth = 1
  MaxLoops = 2
INVARIANTS
  OneRenderTickPerFrame
