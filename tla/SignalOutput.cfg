SPECIFICATION OutLiveSpec
CONSTANTS
  TIMER_INTERVAL = 1
  kMinGreen = 1
  kMaxGreen = 5
  kMinYellow = 1
  kMaxYellow = 2
  kMinAllRed = 1
  kMaxAllRed = 2
  kEmergencyLower = 1
  kEmergencyUpper = 4
  kEmergencyGreen = 5
  kUint32Max = 4294967
  kStartupGreen = 1
  kStartupYellow = 1
  kStartupAllRed = 1
  NoPlan = NoPlan
  LateTicks <- OutLateTicks
  TimingPlans <- OutTimingPlans
  kSequenceMask = 3
  kCountdownMask = 11
  NoDisplay = NoDisplay
  MaxAhead = 2
INVARIANTS
  NewestShown
PROPERTIES
  NewestEventuallyShown
