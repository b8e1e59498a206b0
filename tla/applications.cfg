\* The chat client, the sensor gateway, the weather client, the bridges and the release scripts.
SPECIFICATION Spec
CONSTANTS
  Listener = {"a", "b", "c"}
  Once = {"b"}
  Send = {"s1", "s2"}
  DeviceOrder <- Devices
  MaxQueue = 3
  Stamps <- StampOrder
  Packages = {"core", "native"}
  Examination = {"contents", "declarations", "shape"}
CHECK_DEADLOCK FALSE
INVARIANTS
  ConversationIsWhole
  StatusesAgree
  RecordsAreAccountedFor
  GapsAreExplained
  DeltasAddUp
  LatestIsTold
  OnceIsNotReentered
  ReleaseIsWhole
  GatedIsReleased
  PassIsEarned
  PassIsWhole
  NothingSlipsThrough
PROPERTIES
  NothingAfterDispose
