SPECIFICATION EngineSpec
CONSTANTS
  TIMER_INTERVAL = 2
  kMinGreen = 2
  kMaxGreen = 1000
  kMinYellow = 2
  kMaxYellow = 20
  kMinAllRed = 1
  kMaxAllRed = 20
  kEmergencyLower = 6
  kEmergencyUpper = 30
  kEmergencyGreen = 40
  kUint32Max = 8589934
  kStartupGreen = 60
  kStartupYellow = 6
  kStartupAllRed = 2
  NoPlan = NoPlan
  minimumGreen = 20
  maximumGreen = 120
  maximumCycleLength = 200
  yellowTime = 6
  allRedTime = 2
  kInitialGreen = 60
  kGreenAdjustmentStep = 10
  targetGreens <- MCTargetGreens
  Snapshots <- MCSnapshots
  kIdRange = 2
  SettleCycles = 7
INVARIANTS
  ControllerAccepts
  Settles
PROPERTIES
  GradualChange
