SPECIFICATION LiveSpec
CONSTANTS
  MaxAttempts = 2
  MaxOperators = 1
  OperatorCommands = {"Stop"}
  kControlSocketCapacity = 2
CHECK_DEADLOCK FALSE
INVARIANTS
  StatusHonest
  DeliveredWasReceived
  StaleHelperAsksOnce
PROPERTIES
  StopCarriedOut
  HelperDecides
