SPECIFICATION LiveSpec
CONSTANTS
  Supervised = {"controller", "decision", "perception"}
  Period <- MCPeriod
  kHeartbeatCycleInterval <- MCInterval
  kHeartbeatMin <- MCHeartbeatMin
  kHeartbeatMax <- MCHeartbeatMax
  kInternalProcessingCycle <- MCCycle
  HEARTBEAT_FAILURE_TOLERANCE = 3
  MaxLateness <- MCMaxLateness
  MaxWork <- MCMaxWork
  MaxEvalDelay = 1
CHECK_DEADLOCK FALSE
INVARIANTS
  NoFalseAlarm
  NothingHeld
PROPERTIES
  HangReported
  WorkerFailureEnds
