--------------------------- MODULE DecisionEngine ---------------------------
(***************************************************************************)
(* DecisionEngine and ConstraintManager (decision_engine.cpp): one traffic *)
(* snapshot and the previous plan give the next plan.  SignalPlans gives   *)
(* the record of a plan and ValidatePlan, which the controller applies to  *)
(* what this engine sends it.                                              *)
(*                                                                         *)
(* Queue lengths and occupancies are whole percents, so that ten times the *)
(* score of the code is an integer (Score); the rounding of its floats is  *)
(* not modelled.  The unit of time is the instance's; the code divides in  *)
(* milliseconds.  Plan ids wrap: kIdRange stands for 2^64.                 *)
(***************************************************************************)
EXTENDS SignalPlans

CONSTANTS
  minimumGreen, maximumGreen, maximumCycleLength,
  yellowTime, allRedTime,
  kInitialGreen, kGreenAdjustmentStep,
  targetGreens,     (* the green of each demand level, 0 (low) to 3        *)
  Snapshots,        (* the snapshots the engine may be given               *)
  kIdRange,         (* plan ids are kept modulo this                       *)
  SettleCycles      (* a bound for the counter steady                      *)

Intergreen     == 2 * (yellowTime + allRedTime)
availableGreen == maximumCycleLength - Intergreen

Approaches == {"North", "South", "East", "West"}
Pair(group) == IF group = NORTH_SOUTH THEN {"North", "South"} ELSE {"East", "West"}

Snapshot ==
  [vehicles : [Approaches -> Nat], queue : [Approaches -> Nat],
   occupancy : [Approaches -> Nat], emergency : [Approaches -> BOOLEAN]]

ASSUME EngineAssumption ==
  /\ {minimumGreen, maximumGreen, maximumCycleLength, yellowTime, allRedTime,
      kGreenAdjustmentStep} \subseteq Nat \ {0}
  /\ minimumGreen <= maximumGreen
  /\ maximumCycleLength >= Intergreen + 2 * minimumGreen
  /\ kInitialGreen \in minimumGreen..maximumGreen
  /\ 2 * kInitialGreen <= availableGreen
  /\ targetGreens \in [0..3 -> Nat]
  /\ Snapshots \subseteq Snapshot
  /\ kIdRange \in Nat \ {0, 1} /\ SettleCycles \in Nat \ {0}

(* What lets the controller accept every plan of the engine: its ranges    *)
(* include the engine's.                                                   *)
ASSUME ContractAssumption ==
  /\ minimumGreen >= kMinGreen /\ maximumGreen <= kMaxGreen
  /\ yellowTime \in kMinYellow..kMaxYellow
  /\ allRedTime \in kMinAllRed..kMaxAllRed
  /\ maximumCycleLength <= kUint32Max

VARIABLES
  previousPlan,
  nextPlanId,
  (* history, read by the properties only *)
  snapshot,     (* the snapshot processed last                             *)
  steady        (* consecutive decisions on that snapshot, up to a bound   *)

engineVars == <<previousPlan, nextPlanId, snapshot, steady>>

-----------------------------------------------------------------------------
(* Demand and targets.                                                     *)

AtMost(x, limit) == IF x < limit THEN x ELSE limit
Clamp(x, low, high) == IF x < low THEN low ELSE IF x > high THEN high ELSE x

OfPair(metric, group) ==
  IF group = NORTH_SOUTH THEN metric["North"] + metric["South"]
                         ELSE metric["East"] + metric["West"]

(* Ten times the demand score of a direction.                              *)
Score(s, group) ==
  OfPair(s.queue, group) + 6 * AtMost(3 * OfPair(s.vehicles, group), 100)
    + OfPair(s.occupancy, group)

targetGreenTime(score) ==
  CASE score < 300 -> targetGreens[0]
    [] score >= 300 /\ score < 600 -> targetGreens[1]
    [] score >= 600 /\ score < 900 -> targetGreens[2]
    [] OTHER -> targetGreens[3]

(* Mutant: the step down is not limited.                                   *)
stepTowardMutant(current, target) ==
  IF current < target THEN AtMost(current + kGreenAdjustmentStep, target) ELSE target

(* Mutant: a step is always a whole one.                                   *)
stepTowardOvershootMutant(current, target) ==
  IF current < target THEN current + kGreenAdjustmentStep
  ELSE IF current > target THEN current - kGreenAdjustmentStep
  ELSE current

stepToward(current, target) ==
  IF current < target THEN AtMost(current + kGreenAdjustmentStep, target)
  ELSE current - AtMost(kGreenAdjustmentStep, current - target)

EmergencyFor(s, group) == \E approach \in Pair(group) : s.emergency[approach]
detectEmergency(s) == \E approach \in Approaches : s.emergency[approach]

-----------------------------------------------------------------------------
(* ConstraintManager.                                                      *)

(* Reached only when the greens exceed availableGreen; the branch for a    *)
(* cycle that the clearance times fill is excluded by EngineAssumption.    *)
scaleGreenTime(plan) ==
  LET total == plan.greenNorthSouth + plan.greenEastWest
      northSouth == Clamp((plan.greenNorthSouth * availableGreen) \div total,
                          minimumGreen, availableGreen - minimumGreen)
  IN [plan EXCEPT !.greenNorthSouth = northSouth,
                  !.greenEastWest   = availableGreen - northSouth]

applyTimingConstraints(draft) ==
  LET clamped == [draft EXCEPT
        !.yellow = yellowTime, !.allRed = allRedTime,
        !.greenNorthSouth = Clamp(@, minimumGreen, maximumGreen),
        !.greenEastWest   = Clamp(@, minimumGreen, maximumGreen)]
      scaled == IF CycleOf(clamped) <= maximumCycleLength
                THEN clamped ELSE scaleGreenTime(clamped)
  IN [scaled EXCEPT !.cycleLength = CycleOf(scaled)]

-----------------------------------------------------------------------------
(* DecisionEngine.                                                         *)

InitialPlan ==
  [planId |-> 0, greenNorthSouth |-> kInitialGreen, greenEastWest |-> kInitialGreen,
   yellow |-> yellowTime, allRed |-> allRedTime,
   cycleLength |-> 2 * kInitialGreen + Intergreen,
   emergencyNorthSouth |-> FALSE, emergencyEastWest |-> FALSE]

setEmergencyFlags(s) ==
  [previousPlan EXCEPT
     !.planId = nextPlanId,
     !.emergencyNorthSouth = EmergencyFor(s, NORTH_SOUTH),
     !.emergencyEastWest   = EmergencyFor(s, EAST_WEST)]

(* Mutant: the flags of the previous plan stay.                            *)
generateDraftTimingPlanMutant(s) ==
  [previousPlan EXCEPT
     !.planId = nextPlanId,
     !.greenNorthSouth = stepToward(@, targetGreenTime(Score(s, NORTH_SOUTH))),
     !.greenEastWest   = stepToward(@, targetGreenTime(Score(s, EAST_WEST)))]

generateDraftTimingPlan(s) ==
  [previousPlan EXCEPT
     !.planId = nextPlanId,
     !.greenNorthSouth = stepToward(@, targetGreenTime(Score(s, NORTH_SOUTH))),
     !.greenEastWest   = stepToward(@, targetGreenTime(Score(s, EAST_WEST))),
     !.emergencyNorthSouth = FALSE,
     !.emergencyEastWest   = FALSE]

NextPlan(s) ==
  applyTimingConstraints(
    IF detectEmergency(s) THEN setEmergencyFlags(s) ELSE generateDraftTimingPlan(s))

EngineInit ==
  /\ previousPlan = InitialPlan
  /\ nextPlanId = 1
  /\ snapshot \in Snapshots
  /\ steady = 0

processTrafficMetrics(s) ==
  /\ previousPlan' = NextPlan(s)
  /\ nextPlanId' = (nextPlanId + 1) % kIdRange
  /\ snapshot' = s
  /\ steady' = IF s = snapshot THEN AtMost(steady + 1, SettleCycles) ELSE 1

EngineNext == \E s \in Snapshots : processTrafficMetrics(s)

EngineSpec == EngineInit /\ [][EngineNext]_engineVars

-----------------------------------------------------------------------------
(* Every variable has its type. *)
EngineTypeOK ==
  /\ previousPlan \in TimingPlan
  /\ nextPlanId \in 0..(kIdRange - 1)
  /\ snapshot \in Snapshots
  /\ steady \in 0..SettleCycles

(* Whatever the demand, both directions keep their minimum green and stay  *)
(* below the maximum, the cycle keeps its maximum length, and the declared *)
(* length is the true one, through clamping, proportional reduction and    *)
(* integer division.                                                       *)
Limited(p) ==
  /\ p.greenNorthSouth \in minimumGreen..maximumGreen
  /\ p.greenEastWest \in minimumGreen..maximumGreen
  /\ p.yellow = yellowTime /\ p.allRed = allRedTime
  /\ p.cycleLength = CycleOf(p)
  /\ p.cycleLength <= maximumCycleLength

WithinLimits == Limited(previousPlan)

(* The controller accepts every plan the engine makes, except one with an  *)
(* emergency in both directions, which it always refuses.                  *)
ControllerAccepts ==
  previousPlan.planId # 0 =>
    (ValidatePlan(previousPlan) <=> ~( /\ EmergencyFor(snapshot, NORTH_SOUTH)
                                       /\ EmergencyFor(snapshot, EAST_WEST)))

(* From one plan to the next no green changes by more than one adjustment  *)
(* step, the proportional reduction of the cycle included.                 *)
Near(x, y) == x - y <= kGreenAdjustmentStep /\ y - x <= kGreenAdjustmentStep

GradualChange ==
  [][ /\ Near(previousPlan'.greenNorthSouth, previousPlan.greenNorthSouth)
      /\ Near(previousPlan'.greenEastWest, previousPlan.greenEastWest) ]_engineVars

(* An emergency leaves the greens as they are: the constraints, applied    *)
(* again, change nothing.                                                  *)
EmergencyKeepsGreens ==
  [][ detectEmergency(snapshot') =>
        /\ previousPlan'.greenNorthSouth = previousPlan.greenNorthSouth
        /\ previousPlan'.greenEastWest = previousPlan.greenEastWest ]_engineVars

(* Under a constant demand the greens reach their targets in SettleCycles  *)
(* decisions, or, when both targets do not fit in the cycle, share what    *)
(* there is in proportion to them; they do not oscillate.                  *)
TargetNS == targetGreenTime(Score(snapshot, NORTH_SOUTH))
TargetEW == targetGreenTime(Score(snapshot, EAST_WEST))

Settled ==
  IF TargetNS + TargetEW <= availableGreen
  THEN previousPlan.greenNorthSouth = TargetNS /\ previousPlan.greenEastWest = TargetEW
  ELSE /\ previousPlan.greenNorthSouth =
            (TargetNS * availableGreen) \div (TargetNS + TargetEW)
       /\ previousPlan.greenEastWest = availableGreen - previousPlan.greenNorthSouth

Settles == steady >= SettleCycles /\ ~detectEmergency(snapshot) => Settled

(* When SettleCycles decisions are enough: the greens and their targets    *)
(* stay between low and high, only the greatest targets do not fit, and    *)
(* after k decisions no green is further than distance[k] from its target, *)
(* where the reduction takes half of what does not fit.                    *)
Settling(low, high, distance) ==
  LET excess == 2 * high - availableGreen IN
  /\ low \in Nat /\ high \in Nat /\ low + high <= availableGreen
  /\ minimumGreen <= low /\ high <= maximumGreen /\ kInitialGreen \in low..high
  /\ \A i \in 0..3 : targetGreens[i] \in low..high
  /\ \A i, j \in 0..3 :
       targetGreens[i] + targetGreens[j] > availableGreen =>
         targetGreens[i] = high /\ targetGreens[j] = high
  /\ excess <= 2 * kGreenAdjustmentStep
  /\ distance \in [0..(SettleCycles - 1) -> Nat]
  /\ high - low <= distance[0]
  /\ distance[SettleCycles - 1] <= kGreenAdjustmentStep
  /\ \A k \in 1..(SettleCycles - 1) :
       LET left == IF distance[k - 1] <= kGreenAdjustmentStep THEN 0
                   ELSE distance[k - 1] - kGreenAdjustmentStep
       IN  left <= distance[k] /\ left + excess <= 2 * distance[k]

=============================================================================
