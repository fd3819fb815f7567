SPECIFICATION Spec
CONSTANTS
  NUM_LANES = 2
  PoolSize = 9
  LocalFiles = {0}
  MaxFrames <- MCMaxFrames
CHECK_DEADLOCK FALSE
INVARIANTS
  RightImage
  OneOwner
PROPERTIES
  SnapshotsForward
