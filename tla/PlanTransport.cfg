SPECIFICATION TransportLiveSpec
CONSTANTS
  TIMER_INTERVAL = 1
  kMinGreen = 1
  kMaxGreen = 500
  kMinYellow = 1
  kMaxYellow = 10
  kMinAllRed = 1
  kMaxAllRed = 10
  kEmergencyLower = 3
  kEmergencyUpper = 15
  kEmergencyGreen = 20
  kUint32Max = 4294967
  kStartupGreen = 30
  kStartupYellow = 3
  kStartupAllRed = 1
  NoPlan = NoPlan
  minimumGreen = 10
  maximumGreen = 60
  maximumCycleLength = 100
  yellowTime = 3
  allRedTime = 1
  kInitialGreen = 30
  kGreenAdjustmentStep = 20
  targetGreens <- MCTargetGreens
  Snapshots <- MCSnapshots
  kIdRange = 100
  SettleCycles = 1
  kMaximumMisses = 2
  kPlanQueueDepth = 2
  NoMessage = NoMessage
  MaxSequence = 2
  MaxInstances = 2
INVARIANTS
  NewestKept
PROPERTIES
  HandedInOrder
  PlansGetThrough
  GivesUp
  ReceiverStops
