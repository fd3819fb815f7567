SPECIFICATION LiveSpec
CONSTANTS
  NUM_LANES = 1
  LocalFiles = {0}
CHECK_DEADLOCK FALSE
PROPERTIES
  StopIsBounded
