SPECIFICATION LiveSpec
CONSTANTS
  NUM_LANES = 4
  LocalFiles = {0, 1}
CHECK_DEADLOCK FALSE
INVARIANTS
  AllOrNone
  NothingLeft
PROPERTIES
  StartDecided
  StopCompletes
