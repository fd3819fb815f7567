SPECIFICATION LiveSpec
CONSTANTS
  TIMER_INTERVAL = 2
  kMinGreen = 2
  kMaxGreen = 1000
  kMinYellow = 2
  kMaxYellow = 20
  kMinAllRed = 1
  kMaxAllRed = 20
  kEmergencyLower = 6
  kEmergencyUpper = 30
  kEmergencyGreen = 40
  kUint32Max = 8589934
  kStartupGreen = 60
  kStartupYellow = 6
  kStartupAllRed = 2
  NoPlan = NoPlan
  LateTicks <- MCLateTicks
  TimingPlans <- MCTimingPlans
INVARIANTS
  EmergencyOfThisGreen
  NewestPlanKept
  OnePlanPerGreen
PROPERTIES
  ShownLightsSpec
  CountdownHonest
  GreensAlternate
  EmergencyPrompt
  ShutdownCompletes
