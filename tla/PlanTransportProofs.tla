------------------------- MODULE PlanTransportProofs -------------------------
(***************************************************************************)
(* Theorems about the timing decision: first DecisionEngine alone, for any *)
(* limits, any targets and any set of snapshots; then the DecisionService  *)
(* and the PlanTransport around it, for every depth of the queue, every    *)
(* number of restarts, any snapshots and any limits of the plans.          *)
(***************************************************************************)
EXTENDS PlanTransport, SequenceTheorems, TLAPS

(***************************************************************************)
(* The decision engine.                                                    *)
(***************************************************************************)
-----------------------------------------------------------------------------
(* Reducing two greens a and b to the g there is takes from both and gives *)
(* to neither; the rounding favours b.                                     *)
LEMMA Share ==
  ASSUME NEW a \in Nat \ {0}, NEW b \in Nat \ {0}, NEW g \in Nat, g < a + b,
         NEW q \in Nat, q = (a * g) \div (a + b)
  PROVE  q <= a /\ g - q <= b
<1> DEFINE t == a + b
<1>1. t \in Nat \ {0} /\ a * g \in Nat
  OBVIOUS
<1>2. q * t <= a * g /\ a * g < (q + 1) * t
  BY <1>1
<1>3. q <= a
  <2> SUFFICES ASSUME q >= a + 1 PROVE FALSE
    OBVIOUS
  <2>1. q * t >= (a + 1) * t
    BY <1>1
  <2>2. (a + 1) * t = a * t + t
    BY <1>1
  <2>3. a * g <= a * t
    BY <1>1
  <2>4. a * t \in Nat /\ q * t \in Nat /\ (a + 1) * t \in Nat
    BY <1>1
  <2>5. QED
    BY <1>1, <1>2, <2>1, <2>2, <2>3, <2>4
<1>4. g - q <= b
  <2> SUFFICES ASSUME q + 1 <= g - b PROVE FALSE
    OBVIOUS
  <2>1. (q + 1) * t <= (g - b) * t
    BY <1>1
  <2>2. (g - b) * t = g * t - b * t
    BY <1>1
  <2>3. a * g = t * g - b * g
    BY <1>1
  <2>4. b * g <= b * t
    BY <1>1
  <2>5. g * t = t * g
    BY <1>1
  <2>6. /\ g * t \in Nat /\ b * t \in Nat /\ b * g \in Nat
        /\ (q + 1) * t \in Nat /\ (g - b) * t \in Int
    BY <1>1
  <2>7. QED
    BY <1>1, <1>2, <2>1, <2>2, <2>3, <2>4, <2>5, <2>6
<1>5. QED
  BY <1>3, <1>4

-----------------------------------------------------------------------------
(* Clamping a green, and reducing the greens of a cycle that is too long.  *)

(* A clamped value lies within its limits, and is the value if that does.  *)
LEMMA ClampFacts ==
  ASSUME NEW x \in Int, NEW low \in Int, NEW high \in Int, low <= high
  PROVE  /\ Clamp(x, low, high) \in low..high
         /\ x \in low..high => Clamp(x, low, high) = x
         /\ x > low => Clamp(x, low, high) <= x
         /\ x <= low => Clamp(x, low, high) = low
BY DEF Clamp

(* What the assumption on the constants says of the room for the greens.   *)
LEMMA AvailableFacts ==
  /\ Intergreen \in Nat /\ availableGreen \in Nat
  /\ 2 * minimumGreen <= availableGreen
  /\ maximumCycleLength = availableGreen + Intergreen
  /\ minimumGreen \in Nat \ {0} /\ maximumGreen \in Nat \ {0}
  /\ minimumGreen <= maximumGreen
BY EngineAssumption DEF Intergreen, availableGreen

(* The reduced greens are between the minimum green and what they were,    *)
(* and use up what is available.                                           *)
LEMMA Reduced ==
  ASSUME NEW p \in TimingPlan,
         p.greenNorthSouth >= minimumGreen, p.greenEastWest >= minimumGreen,
         p.greenNorthSouth + p.greenEastWest > availableGreen
  PROVE  \E ns, ew \in Nat :
           /\ scaleGreenTime(p) =
                [p EXCEPT !.greenNorthSouth = ns, !.greenEastWest = ew]
           /\ ns \in minimumGreen..p.greenNorthSouth
           /\ ew \in minimumGreen..p.greenEastWest
           /\ ns + ew = availableGreen
<1> DEFINE a == p.greenNorthSouth
           b == p.greenEastWest
           q == (a * availableGreen) \div (a + b)
           ns == Clamp(q, minimumGreen, availableGreen - minimumGreen)
<1>1. a \in Nat \ {0} /\ b \in Nat \ {0}
  BY AvailableFacts DEF TimingPlan
<1>2. q \in Nat
  <2>1. a * availableGreen \in Nat /\ a + b \in Nat \ {0}
    BY <1>1, AvailableFacts
  <2>2. QED
    BY <2>1
<1>3. q <= a /\ availableGreen - q <= b
  BY <1>1, <1>2, AvailableFacts, Share
<1>4. scaleGreenTime(p) =
        [p EXCEPT !.greenNorthSouth = ns, !.greenEastWest = availableGreen - ns]
  BY DEF scaleGreenTime
<1> HIDE DEF q
<1>5. /\ ns \in minimumGreen..a
      /\ availableGreen - ns \in minimumGreen..b
  BY <1>1, <1>2, <1>3, AvailableFacts DEF Clamp
<1>6. ns \in Nat /\ availableGreen - ns \in Nat
  BY <1>1, <1>5, AvailableFacts
<1>7. ns + (availableGreen - ns) = availableGreen
  BY <1>6, AvailableFacts
<1> HIDE DEF ns
<1>8. QED
  BY <1>4, <1>5, <1>6, <1>7

(* What the constraints give for any draft.                                *)
ClampedNS(draft) == Clamp(draft.greenNorthSouth, minimumGreen, maximumGreen)
ClampedEW(draft) == Clamp(draft.greenEastWest, minimumGreen, maximumGreen)

(* The constraints give a plan within the limits and change nothing else.  *)
LEMMA Constrained ==
  ASSUME NEW draft \in TimingPlan
  PROVE  /\ applyTimingConstraints(draft) \in TimingPlan
         /\ Limited(applyTimingConstraints(draft))
         /\ \A f \in {"planId", "emergencyNorthSouth", "emergencyEastWest"} :
              applyTimingConstraints(draft)[f] = draft[f]
         /\ applyTimingConstraints(draft).greenNorthSouth <= ClampedNS(draft)
         /\ applyTimingConstraints(draft).greenEastWest <= ClampedEW(draft)
         /\ \/ /\ applyTimingConstraints(draft).greenNorthSouth = ClampedNS(draft)
               /\ applyTimingConstraints(draft).greenEastWest = ClampedEW(draft)
            \/ applyTimingConstraints(draft).greenNorthSouth
                 + applyTimingConstraints(draft).greenEastWest = availableGreen
<1> DEFINE clamped == [draft EXCEPT
             !.yellow = yellowTime, !.allRed = allRedTime,
             !.greenNorthSouth = Clamp(@, minimumGreen, maximumGreen),
             !.greenEastWest   = Clamp(@, minimumGreen, maximumGreen)]
           scaled == IF CycleOf(clamped) <= maximumCycleLength
                     THEN clamped ELSE scaleGreenTime(clamped)
<1>0. applyTimingConstraints(draft) = [scaled EXCEPT !.cycleLength = CycleOf(scaled)]
  BY DEF applyTimingConstraints
<1> USE AvailableFacts
<1>1. yellowTime \in Nat /\ allRedTime \in Nat
  BY EngineAssumption
<1>2. /\ Clamp(draft.greenNorthSouth, minimumGreen, maximumGreen)
           \in minimumGreen..maximumGreen
      /\ Clamp(draft.greenEastWest, minimumGreen, maximumGreen)
           \in minimumGreen..maximumGreen
  <2>1. /\ draft.greenNorthSouth \in Int /\ draft.greenEastWest \in Int
        /\ minimumGreen \in Int /\ maximumGreen \in Int
    BY DEF TimingPlan
  <2>2. QED
    BY <2>1, ClampFacts
<1>3. /\ clamped \in TimingPlan
      /\ clamped.greenNorthSouth \in minimumGreen..maximumGreen
      /\ clamped.greenEastWest \in minimumGreen..maximumGreen
      /\ clamped.greenNorthSouth = ClampedNS(draft)
      /\ clamped.greenEastWest = ClampedEW(draft)
      /\ clamped.yellow = yellowTime /\ clamped.allRed = allRedTime
      /\ clamped.planId = draft.planId
      /\ clamped.emergencyNorthSouth = draft.emergencyNorthSouth
      /\ clamped.emergencyEastWest = draft.emergencyEastWest
  <2> DEFINE ns == Clamp(draft.greenNorthSouth, minimumGreen, maximumGreen)
             ew == Clamp(draft.greenEastWest, minimumGreen, maximumGreen)
  <2>1. clamped = [draft EXCEPT !.yellow = yellowTime, !.allRed = allRedTime,
                                !.greenNorthSouth = ns, !.greenEastWest = ew]
    OBVIOUS
  <2>2. /\ ns \in minimumGreen..maximumGreen /\ ew \in minimumGreen..maximumGreen
        /\ ns = ClampedNS(draft) /\ ew = ClampedEW(draft)
    BY <1>2 DEF ClampedNS, ClampedEW
  <2> HIDE DEF ns, ew
  <2>3. ns \in Nat /\ ew \in Nat
    BY <2>2
  <2>4. QED
    BY <1>1, <2>1, <2>2, <2>3 DEF TimingPlan
<1> HIDE DEF clamped
<1>4. /\ scaled \in TimingPlan
      /\ scaled.greenNorthSouth \in minimumGreen..maximumGreen
      /\ scaled.greenEastWest \in minimumGreen..maximumGreen
      /\ scaled.yellow = yellowTime /\ scaled.allRed = allRedTime
      /\ scaled.planId = draft.planId
      /\ scaled.emergencyNorthSouth = draft.emergencyNorthSouth
      /\ scaled.emergencyEastWest = draft.emergencyEastWest
      /\ CycleOf(scaled) <= maximumCycleLength
      /\ scaled.greenNorthSouth <= ClampedNS(draft)
      /\ scaled.greenEastWest <= ClampedEW(draft)
      /\ \/ /\ scaled.greenNorthSouth = ClampedNS(draft)
            /\ scaled.greenEastWest = ClampedEW(draft)
         \/ scaled.greenNorthSouth + scaled.greenEastWest = availableGreen
  <2>1. CASE CycleOf(clamped) <= maximumCycleLength
    BY <1>3, <2>1
  <2>2. CASE ~(CycleOf(clamped) <= maximumCycleLength)
    <3>1. clamped.greenNorthSouth + clamped.greenEastWest > availableGreen
      BY <1>1, <1>3, <2>2, AvailableFacts DEF CycleOf, Intergreen, TimingPlan
    <3>2. PICK ns, ew \in Nat :
            /\ scaleGreenTime(clamped) =
                 [clamped EXCEPT !.greenNorthSouth = ns, !.greenEastWest = ew]
            /\ ns \in minimumGreen..clamped.greenNorthSouth
            /\ ew \in minimumGreen..clamped.greenEastWest
            /\ ns + ew = availableGreen
      <4>1. clamped.greenNorthSouth >= minimumGreen /\ clamped.greenEastWest >= minimumGreen
        BY <1>3
      <4>2. QED
        BY <1>3, <3>1, <4>1, Reduced
    <3>3. scaled = [clamped EXCEPT !.greenNorthSouth = ns, !.greenEastWest = ew]
      BY <2>2, <3>2
    <3>4. /\ ns \in minimumGreen..maximumGreen /\ ew \in minimumGreen..maximumGreen
      BY <1>3, <3>2, AvailableFacts
    <3>5. /\ scaled \in TimingPlan
          /\ scaled.greenNorthSouth = ns /\ scaled.greenEastWest = ew
          /\ scaled.yellow = yellowTime /\ scaled.allRed = allRedTime
          /\ scaled.planId = draft.planId
          /\ scaled.emergencyNorthSouth = draft.emergencyNorthSouth
          /\ scaled.emergencyEastWest = draft.emergencyEastWest
      BY <1>3, <3>3 DEF TimingPlan
    <3> HIDE DEF scaled
    <3>6. CycleOf(scaled) <= maximumCycleLength
      BY <1>1, <3>2, <3>5, AvailableFacts DEF CycleOf, Intergreen
    <3>7. ns <= ClampedNS(draft) /\ ew <= ClampedEW(draft)
      BY <1>3, <3>2
    <3>8. QED
      BY <3>2, <3>4, <3>5, <3>6, <3>7
  <2>3. QED
    BY <2>1, <2>2
<1> HIDE DEF scaled
<1>5. CycleOf(scaled) \in Nat
  BY <1>4 DEF CycleOf, TimingPlan
<1> DEFINE result == [scaled EXCEPT !.cycleLength = CycleOf(scaled)]
<1>6. /\ result \in TimingPlan
      /\ result.cycleLength = CycleOf(scaled)
      /\ result.greenNorthSouth = scaled.greenNorthSouth
      /\ result.greenEastWest = scaled.greenEastWest
      /\ result.yellow = scaled.yellow /\ result.allRed = scaled.allRed
      /\ result.planId = scaled.planId
      /\ result.emergencyNorthSouth = scaled.emergencyNorthSouth
      /\ result.emergencyEastWest = scaled.emergencyEastWest
  BY <1>4, <1>5 DEF TimingPlan
<1> HIDE DEF result
<1>7. CycleOf(result) = CycleOf(scaled)
  BY <1>6 DEF CycleOf
<1>8. result \in TimingPlan /\ Limited(result)
  BY <1>4, <1>6, <1>7 DEF Limited
<1>9. \A f \in {"planId", "emergencyNorthSouth", "emergencyEastWest"} :
        result[f] = draft[f]
  BY <1>4, <1>6
<1>10. QED
  <2>1. applyTimingConstraints(draft) = result
    BY <1>0 DEF result
  <2>2. QED
    BY <1>4, <1>6, <1>8, <1>9, <2>1

(* A plan within the limits is left alone.                                 *)
LEMMA Untouched ==
  ASSUME NEW p \in TimingPlan, Limited(p)
  PROVE  /\ applyTimingConstraints(p).greenNorthSouth = p.greenNorthSouth
         /\ applyTimingConstraints(p).greenEastWest = p.greenEastWest
<1>1. /\ p.greenNorthSouth \in Int /\ p.greenEastWest \in Int
      /\ minimumGreen \in Int /\ maximumGreen \in Int
  BY AvailableFacts DEF TimingPlan
<1>2. /\ Clamp(p.greenNorthSouth, minimumGreen, maximumGreen) = p.greenNorthSouth
      /\ Clamp(p.greenEastWest, minimumGreen, maximumGreen) = p.greenEastWest
  BY <1>1, AvailableFacts, ClampFacts DEF Limited
<1> DEFINE clamped == [p EXCEPT
             !.yellow = yellowTime, !.allRed = allRedTime,
             !.greenNorthSouth = Clamp(@, minimumGreen, maximumGreen),
             !.greenEastWest   = Clamp(@, minimumGreen, maximumGreen)]
<1>3. clamped = p
  BY <1>2 DEF Limited, TimingPlan
<1>4. CycleOf(clamped) <= maximumCycleLength
  BY <1>3 DEF Limited
<1>5. applyTimingConstraints(p) = [clamped EXCEPT !.cycleLength = CycleOf(clamped)]
  BY <1>4 DEF applyTimingConstraints
<1>6. QED
  BY <1>3, <1>5 DEF TimingPlan

(* A draft one step away from a plan within the limits stays one step away *)
(* when it is constrained: what the reduction takes from one green is at   *)
(* most what the other had gained.                                         *)
LEMMA StillNear ==
  ASSUME NEW p \in TimingPlan, Limited(p), NEW draft \in TimingPlan,
         Near(draft.greenNorthSouth, p.greenNorthSouth),
         Near(draft.greenEastWest, p.greenEastWest)
  PROVE  /\ Near(applyTimingConstraints(draft).greenNorthSouth, p.greenNorthSouth)
         /\ Near(applyTimingConstraints(draft).greenEastWest, p.greenEastWest)
<1> DEFINE result == applyTimingConstraints(draft)
<1>1. /\ result \in TimingPlan
      /\ result.greenNorthSouth <= ClampedNS(draft)
      /\ result.greenEastWest <= ClampedEW(draft)
      /\ \/ /\ result.greenNorthSouth = ClampedNS(draft)
            /\ result.greenEastWest = ClampedEW(draft)
         \/ result.greenNorthSouth + result.greenEastWest = availableGreen
  BY Constrained
<1> HIDE DEF result
<1>2. /\ result.greenNorthSouth \in Int /\ result.greenEastWest \in Int
      /\ draft.greenNorthSouth \in Int /\ draft.greenEastWest \in Int
      /\ kGreenAdjustmentStep \in Int
  BY <1>1, EngineAssumption DEF TimingPlan
<1>3. /\ p.greenNorthSouth \in minimumGreen..maximumGreen
      /\ p.greenEastWest \in minimumGreen..maximumGreen
  BY DEF Limited
<1>4. p.greenNorthSouth + p.greenEastWest <= availableGreen
  BY <1>3, EngineAssumption, AvailableFacts DEF Limited, CycleOf, Intergreen
<1>5. /\ ClampedNS(draft) \in Int /\ Near(ClampedNS(draft), p.greenNorthSouth)
      /\ ClampedEW(draft) \in Int /\ Near(ClampedEW(draft), p.greenEastWest)
  BY <1>2, <1>3, AvailableFacts DEF ClampedNS, ClampedEW, Clamp, Near
<1>6. QED
  BY <1>1, <1>2, <1>3, <1>4, <1>5, AvailableFacts DEF Near, result

-----------------------------------------------------------------------------
(* The plan made of a snapshot.                                            *)

(* The target of a score is a number of units of time.                     *)
LEMMA TargetIsNat == \A score : targetGreenTime(score) \in Nat
BY EngineAssumption DEF targetGreenTime

(* A step towards a target never goes below zero.                          *)
LEMMA StepIsNat ==
  ASSUME NEW current \in Nat, NEW target \in Nat
  PROVE  stepToward(current, target) \in Nat
BY EngineAssumption DEF stepToward, AtMost

(* An emergency for a direction is an emergency of the snapshot.           *)
LEMMA EmergencyDetected ==
  ASSUME NEW s \in Snapshot, NEW group \in Groups
  PROVE  /\ EmergencyFor(s, group) \in BOOLEAN
         /\ EmergencyFor(s, group) => detectEmergency(s)
BY DEF EmergencyFor, detectEmergency, Pair, Approaches, Groups

(* Both kinds of drafts are plans with the flags of the snapshot.          *)
LEMMA Drafts ==
  ASSUME NEW s \in Snapshot, previousPlan \in TimingPlan, nextPlanId \in Nat
  PROVE  /\ setEmergencyFlags(s) \in TimingPlan
         /\ generateDraftTimingPlan(s) \in TimingPlan
<1>1. /\ EmergencyFor(s, NORTH_SOUTH) \in BOOLEAN
      /\ EmergencyFor(s, EAST_WEST) \in BOOLEAN
  BY EmergencyDetected DEF Groups
<1>2. setEmergencyFlags(s) \in TimingPlan
  BY <1>1 DEF setEmergencyFlags, TimingPlan
<1> DEFINE ns == stepToward(previousPlan.greenNorthSouth,
                            targetGreenTime(Score(s, NORTH_SOUTH)))
           ew == stepToward(previousPlan.greenEastWest,
                            targetGreenTime(Score(s, EAST_WEST)))
<1>3. ns \in Nat /\ ew \in Nat
  BY TargetIsNat, StepIsNat DEF TimingPlan
<1>4. generateDraftTimingPlan(s) =
        [previousPlan EXCEPT !.planId = nextPlanId,
           !.greenNorthSouth = ns, !.greenEastWest = ew,
           !.emergencyNorthSouth = FALSE, !.emergencyEastWest = FALSE]
  BY DEF generateDraftTimingPlan
<1> HIDE DEF ns, ew
<1>5. generateDraftTimingPlan(s) \in TimingPlan
  BY <1>3, <1>4 DEF TimingPlan
<1>6. QED
  BY <1>2, <1>5

(* The next plan is within the limits and has the flags of the snapshot.   *)
LEMMA NextPlanFacts ==
  ASSUME NEW s \in Snapshot, previousPlan \in TimingPlan, nextPlanId \in Nat
  PROVE  /\ NextPlan(s) \in TimingPlan
         /\ Limited(NextPlan(s))
         /\ NextPlan(s).emergencyNorthSouth = EmergencyFor(s, NORTH_SOUTH)
         /\ NextPlan(s).emergencyEastWest = EmergencyFor(s, EAST_WEST)
<1> DEFINE draft == IF detectEmergency(s) THEN setEmergencyFlags(s)
                                          ELSE generateDraftTimingPlan(s)
<1>1. draft \in TimingPlan /\ NextPlan(s) = applyTimingConstraints(draft)
  BY Drafts DEF NextPlan
<1>2. /\ draft.emergencyNorthSouth = EmergencyFor(s, NORTH_SOUTH)
      /\ draft.emergencyEastWest = EmergencyFor(s, EAST_WEST)
  BY EmergencyDetected DEF setEmergencyFlags, generateDraftTimingPlan, TimingPlan, Groups
<1> HIDE DEF draft
<1>3. QED
  BY <1>1, <1>2, Constrained

-----------------------------------------------------------------------------
(* The inductive invariant: the types, the limits, and that the flags of a *)
(* plan are those of the snapshot it was made of.                          *)
FlagsOfSnapshot ==
  \/ previousPlan.planId = 0
  \/ /\ previousPlan.emergencyNorthSouth = EmergencyFor(snapshot, NORTH_SOUTH)
     /\ previousPlan.emergencyEastWest = EmergencyFor(snapshot, EAST_WEST)

EngineInv == EngineTypeOK /\ WithinLimits /\ FlagsOfSnapshot

(* The invariant of the engine holds at the start.                         *)
LEMMA InvInit == EngineInit => EngineInv
<1> SUFFICES ASSUME EngineInit PROVE EngineInv
  OBVIOUS
<1> USE EngineAssumption DEF EngineInit
<1>1. previousPlan \in TimingPlan /\ FlagsOfSnapshot
  BY AvailableFacts DEF InitialPlan, TimingPlan, FlagsOfSnapshot
<1>2. EngineTypeOK
  BY <1>1 DEF EngineTypeOK
<1>3. WithinLimits
  BY AvailableFacts DEF WithinLimits, Limited, InitialPlan, CycleOf, Intergreen
<1>4. QED
  BY <1>1, <1>2, <1>3 DEF EngineInv

(* Every step of the engine keeps its invariant.                           *)
LEMMA InvStep == EngineInv /\ [EngineNext]_engineVars => EngineInv'
<1> SUFFICES ASSUME EngineInv, [EngineNext]_engineVars PROVE EngineInv'
  OBVIOUS
<1>1. CASE UNCHANGED engineVars
  BY <1>1 DEF engineVars, EngineInv, EngineTypeOK, WithinLimits, FlagsOfSnapshot
<1>2. ASSUME NEW s \in Snapshots, processTrafficMetrics(s) PROVE EngineInv'
  <2>1. /\ s \in Snapshot /\ previousPlan \in TimingPlan /\ nextPlanId \in Nat
        /\ kIdRange \in Nat \ {0, 1} /\ SettleCycles \in Nat \ {0}
    BY EngineAssumption DEF EngineInv, EngineTypeOK
  <2>2. /\ previousPlan' = NextPlan(s) /\ snapshot' = s
        /\ nextPlanId' = (nextPlanId + 1) % kIdRange
        /\ steady' = IF s = snapshot THEN AtMost(steady + 1, SettleCycles) ELSE 1
    BY <1>2 DEF processTrafficMetrics
  <2>3. /\ previousPlan' \in TimingPlan /\ WithinLimits' /\ FlagsOfSnapshot'
    BY <2>1, <2>2, NextPlanFacts DEF WithinLimits, FlagsOfSnapshot
  <2>4. nextPlanId' \in 0..(kIdRange - 1)
    BY <2>1, <2>2
  <2>5. steady' \in 0..SettleCycles
    BY <2>1, <2>2 DEF AtMost, EngineInv, EngineTypeOK
  <2>6. QED
    BY <2>2, <2>3, <2>4, <2>5 DEF EngineInv, EngineTypeOK
<1>3. QED
  BY <1>1, <1>2 DEF EngineNext

(* What follows is about every behaviour of the engine.                    *)
THEOREM EngineInvariance == EngineSpec => []EngineInv
<1>1. QED
  BY InvInit, InvStep, PTL DEF EngineSpec

(* Every plan has greens between the limits, a cycle no longer than the    *)
(* maximum and the declared length of its parts (applyTimingConstraints).  *)
THEOREM PlansWithinLimits == EngineSpec => [](EngineTypeOK /\ WithinLimits)
<1>1. EngineInv => EngineTypeOK /\ WithinLimits
  BY DEF EngineInv
<1>2. QED
  BY <1>1, EngineInvariance, PTL

(* A plan within the engine's limits passes ValidatePlan, unless it asks   *)
(* for both emergencies.                                                   *)
LEMMA LimitedIsValid ==
  ASSUME NEW p \in TimingPlan, Limited(p), p.planId # 0
  PROVE  ValidatePlan(p) <=> ~(p.emergencyNorthSouth /\ p.emergencyEastWest)
<1>1. /\ p.greenNorthSouth \in kMinGreen..kMaxGreen
      /\ p.greenEastWest \in kMinGreen..kMaxGreen
  BY AvailableFacts, ContractAssumption, LimitsAssumption DEF Limited
<1>2. /\ p.yellow \in kMinYellow..kMaxYellow
      /\ p.allRed \in kMinAllRed..kMaxAllRed
  BY ContractAssumption DEF Limited
<1>3. CycleOf(p) \in Nat /\ CycleOf(p) <= maximumCycleLength
  BY DEF Limited, CycleOf, TimingPlan
<1>4. CycleOf(p) <= kUint32Max
  BY <1>3, AvailableFacts, ContractAssumption, LimitsAssumption
<1>5. p.cycleLength \in {0, CycleOf(p)}
  BY DEF Limited
<1>6. QED
  BY <1>1, <1>2, <1>4, <1>5, Zenon DEF ValidatePlan

(* ValidatePlan of the controller accepts a plan of the engine, unless it  *)
(* was made of a snapshot with an emergency in both directions.            *)
THEOREM AcceptedByController == EngineSpec => []ControllerAccepts
<1>1. EngineInv => ControllerAccepts
  BY LimitedIsValid
  DEF EngineInv, EngineTypeOK, WithinLimits, FlagsOfSnapshot, ControllerAccepts
<1>2. QED
  BY <1>1, EngineInvariance, PTL

(* Whatever the demand does, a green changes by at most one adjustment     *)
(* step from one plan to the next, even when the cycle has to be reduced   *)
(* (stepToward, then applyTimingConstraints).                              *)
THEOREM ChangesAreGradual == EngineSpec => GradualChange
<1> DEFINE Gradual ==
      /\ Near(previousPlan'.greenNorthSouth, previousPlan.greenNorthSouth)
      /\ Near(previousPlan'.greenEastWest, previousPlan.greenEastWest)
<1>1. EngineInv /\ [EngineNext]_engineVars => [Gradual]_engineVars
  <2> SUFFICES ASSUME EngineInv, NEW s \in Snapshots, processTrafficMetrics(s)
               PROVE  Gradual
    BY DEF EngineNext
  <2> DEFINE draft == IF detectEmergency(s) THEN setEmergencyFlags(s)
                                            ELSE generateDraftTimingPlan(s)
  <2>1. /\ previousPlan \in TimingPlan /\ Limited(previousPlan)
        /\ nextPlanId \in Nat /\ s \in Snapshot
        /\ kGreenAdjustmentStep \in Nat
    BY EngineAssumption DEF EngineInv, EngineTypeOK, WithinLimits
  <2>2. draft \in TimingPlan /\ previousPlan' = applyTimingConstraints(draft)
    BY <2>1, Drafts DEF processTrafficMetrics, NextPlan
  <2>3. /\ previousPlan.greenNorthSouth \in Nat
        /\ previousPlan.greenEastWest \in Nat
    BY <2>1 DEF TimingPlan
  <2>4. \A current, target \in Nat : Near(stepToward(current, target), current)
    BY <2>1 DEF Near, stepToward, AtMost
  <2>5. /\ Near(draft.greenNorthSouth, previousPlan.greenNorthSouth)
        /\ Near(draft.greenEastWest, previousPlan.greenEastWest)
    <3>1. CASE detectEmergency(s)
      <4>1. /\ draft.greenNorthSouth = previousPlan.greenNorthSouth
            /\ draft.greenEastWest = previousPlan.greenEastWest
        BY <2>1, <3>1 DEF setEmergencyFlags, TimingPlan
      <4>2. QED
        BY <2>1, <2>3, <4>1 DEF Near
    <3>2. CASE ~detectEmergency(s)
      <4>1. /\ draft.greenNorthSouth = stepToward(previousPlan.greenNorthSouth,
                                         targetGreenTime(Score(s, NORTH_SOUTH)))
            /\ draft.greenEastWest = stepToward(previousPlan.greenEastWest,
                                         targetGreenTime(Score(s, EAST_WEST)))
        BY <2>1, <3>2 DEF generateDraftTimingPlan, TimingPlan
      <4>2. QED
        BY <2>3, <2>4, <4>1, TargetIsNat
    <3>3. QED
      BY <3>1, <3>2
  <2> HIDE DEF draft
  <2>6. QED
    BY <2>1, <2>2, <2>5, StillNear
<1>2. QED
  BY <1>1, EngineInvariance, PTL DEF EngineSpec, GradualChange

(* An emergency snapshot gives a plan with the greens of the one before:   *)
(* setEmergencyFlags copies them and the constraints leave them alone.     *)
LEMMA EmergencyGreens ==
  ASSUME EngineInv, NEW s \in Snapshots, detectEmergency(s)
  PROVE  /\ NextPlan(s).greenNorthSouth = previousPlan.greenNorthSouth
         /\ NextPlan(s).greenEastWest = previousPlan.greenEastWest
<1>1. /\ previousPlan \in TimingPlan /\ Limited(previousPlan)
      /\ nextPlanId \in Nat /\ s \in Snapshot
  BY EngineAssumption DEF EngineInv, EngineTypeOK, WithinLimits
<1>2. NextPlan(s) = applyTimingConstraints(setEmergencyFlags(s))
  BY DEF NextPlan
<1>3. /\ setEmergencyFlags(s) \in TimingPlan
      /\ setEmergencyFlags(s).greenNorthSouth = previousPlan.greenNorthSouth
      /\ setEmergencyFlags(s).greenEastWest = previousPlan.greenEastWest
      /\ setEmergencyFlags(s).yellow = previousPlan.yellow
      /\ setEmergencyFlags(s).allRed = previousPlan.allRed
      /\ setEmergencyFlags(s).cycleLength = previousPlan.cycleLength
  BY <1>1, Drafts DEF setEmergencyFlags, TimingPlan
<1>4. Limited(setEmergencyFlags(s))
  BY <1>1, <1>3 DEF Limited, CycleOf
<1> QED
  BY <1>2, <1>3, <1>4, Untouched

(* So an emergency changes no green, whatever plans came before it.        *)
THEOREM EmergencyKeepsThem == EngineSpec => EmergencyKeepsGreens
<1> DEFINE Keeps ==
      detectEmergency(snapshot') =>
        /\ previousPlan'.greenNorthSouth = previousPlan.greenNorthSouth
        /\ previousPlan'.greenEastWest = previousPlan.greenEastWest
<1>1. EngineInv /\ [EngineNext]_engineVars => [Keeps]_engineVars
  BY EmergencyGreens DEF EngineNext, processTrafficMetrics
<1>2. QED
  BY <1>1, EngineInvariance, PTL DEF EngineSpec, EmergencyKeepsGreens

-----------------------------------------------------------------------------
(* A constant demand: the greens settle.                                   *)

(* A green is at most d away from its target.                              *)
Within(x, target, d) == x - target <= d /\ target - x <= d

(* The greens at which the engine rests.                                   *)
RestAt(x, y, a, b) ==
  IF a + b <= availableGreen THEN x = a /\ y = b
  ELSE x = (a * availableGreen) \div (a + b) /\ y = availableGreen - x

(* What is reduced is shared so that neither green ends up further from    *)
(* high than half of what does not fit and half of the larger of their     *)
(* distances before it.                                                    *)
LEMMA HalfOfExcess ==
  ASSUME NEW x \in Nat, NEW y \in Nat, NEW g \in Nat, NEW high \in Nat, NEW d \in Nat,
         x <= high, y <= high, high - x <= d, high - y <= d, x + y > g,
         NEW q \in Nat, q = (x * g) \div (x + y)
  PROVE  /\ 2 * (high - q) <= (2 * high - g) + d + 1
         /\ 2 * (high - (g - q)) <= (2 * high - g) + d
<1> DEFINE t == x + y
<1>0. t \in Nat \ {0} /\ x * g \in Nat
  OBVIOUS
<1>1. q * t <= x * g /\ x * g < (q + 1) * t
  <2>1. \A n \in Nat, m \in Nat \ {0} :
          (n \div m) * m <= n /\ n < ((n \div m) + 1) * m
    OBVIOUS
  <2> HIDE DEF t
  <2>2. q = (x * g) \div t
    BY DEF t
  <2> QED
    BY <1>0, <2>1, <2>2
<1>2. d * g \in Nat /\ d * t \in Nat /\ d * g <= d * t /\ t > g
  BY <1>0, <1>1
<1>3. /\ (y - x) * g <= d * g /\ (x - y) * g <= d * g
  <2>1. y - x <= d /\ x - y <= d
    OBVIOUS
  <2> QED
    BY <2>1
<1>4. /\ (y - x) * g = t * g - 2 * (x * g) /\ (x - y) * g = 2 * (x * g) - t * g
      /\ t * g \in Nat /\ t * g = g * t
  BY <1>0, <1>1
<1>5. 2 * q >= g - d - 1
  <2> SUFFICES ASSUME 2 * q <= g - d - 2 PROVE FALSE
    OBVIOUS
  <2>1. (2 * (q + 1)) * t <= (g - d) * t
    BY <1>0, <1>1
  <2>2. /\ (2 * (q + 1)) * t = 2 * ((q + 1) * t) /\ (g - d) * t = g * t - d * t
        /\ (q + 1) * t \in Nat
    BY <1>0, <1>1
  <2>3. 2 * (x * g) < g * t - d * t
    BY <1>0, <1>1, <1>2, <1>4, <2>1, <2>2
  <2> QED
    BY <1>0, <1>1, <1>2, <1>3, <1>4, <2>3
<1>6. 2 * q <= g + d
  <2> SUFFICES ASSUME 2 * q >= g + d + 1 PROVE FALSE
    OBVIOUS
  <2>1. (g + d + 1) * t <= (2 * q) * t
    BY <1>0, <1>1
  <2>2. /\ (2 * q) * t = 2 * (q * t) /\ (g + d + 1) * t = g * t + d * t + t
        /\ q * t \in Nat
    BY <1>0, <1>1
  <2>3. g * t + d * t + t <= 2 * (x * g)
    BY <1>0, <1>1, <1>2, <1>4, <2>1, <2>2
  <2> QED
    BY <1>0, <1>1, <1>2, <1>3, <1>4, <2>3
<1> QED
  BY <1>5, <1>6

(* Greens within their limits that fit are left as they are, and those     *)
(* that do not are reduced in proportion.                                  *)
LEMMA ConstrainedGreens ==
  ASSUME NEW draft \in TimingPlan, NEW low \in Nat, NEW high \in Nat,
         minimumGreen <= low, high <= maximumGreen, low + high <= availableGreen,
         draft.greenNorthSouth \in low..high, draft.greenEastWest \in low..high
  PROVE  LET x == draft.greenNorthSouth
             y == draft.greenEastWest
             q == (x * availableGreen) \div (x + y)
             result == applyTimingConstraints(draft)
         IN  IF x + y <= availableGreen
             THEN result.greenNorthSouth = x /\ result.greenEastWest = y
             ELSE /\ q \in low..x /\ availableGreen - q \in low..y
                  /\ result.greenNorthSouth = q
                  /\ result.greenEastWest = availableGreen - q
<1> DEFINE x == draft.greenNorthSouth
           y == draft.greenEastWest
           q == (x * availableGreen) \div (x + y)
           result == applyTimingConstraints(draft)
<1> USE AvailableFacts
<1>1. /\ x \in Nat /\ y \in Nat
      /\ x \in minimumGreen..maximumGreen /\ y \in minimumGreen..maximumGreen
  OBVIOUS
<1>2. ClampedNS(draft) = x /\ ClampedEW(draft) = y
  <2>1. minimumGreen \in Int /\ maximumGreen \in Int
    OBVIOUS
  <2>2. \A n \in minimumGreen..maximumGreen : Clamp(n, minimumGreen, maximumGreen) = n
    BY <2>1, ClampFacts
  <2> QED
    BY <1>1, <2>2 DEF ClampedNS, ClampedEW
<1>3. CASE x + y <= availableGreen
  <2>1. /\ result \in TimingPlan /\ result.greenNorthSouth <= x /\ result.greenEastWest <= y
        /\ \/ result.greenNorthSouth = x /\ result.greenEastWest = y
           \/ result.greenNorthSouth + result.greenEastWest = availableGreen
    BY <1>2, Constrained
  <2>2. result.greenNorthSouth \in Nat /\ result.greenEastWest \in Nat
    BY <2>1 DEF TimingPlan
  <2> HIDE DEF result
  <2>3. result.greenNorthSouth = x /\ result.greenEastWest = y
    BY <1>1, <1>3, <2>1, <2>2
  <2> QED
    BY <1>3, <2>3 DEF result
<1>4. CASE x + y > availableGreen
  <2> DEFINE clamped == [draft EXCEPT
               !.yellow = yellowTime, !.allRed = allRedTime,
               !.greenNorthSouth = Clamp(@, minimumGreen, maximumGreen),
               !.greenEastWest   = Clamp(@, minimumGreen, maximumGreen)]
             scaled == scaleGreenTime(clamped)
  <2>1. /\ Clamp(draft.greenNorthSouth, minimumGreen, maximumGreen) = x
        /\ Clamp(draft.greenEastWest, minimumGreen, maximumGreen) = y
    BY <1>2 DEF ClampedNS, ClampedEW
  <2>2. clamped = [draft EXCEPT !.yellow = yellowTime, !.allRed = allRedTime]
    BY <2>1 DEF TimingPlan
  <2>3. /\ clamped.greenNorthSouth = x /\ clamped.greenEastWest = y
        /\ clamped.yellow = yellowTime /\ clamped.allRed = allRedTime
        /\ clamped \in TimingPlan
    BY <2>2, EngineAssumption DEF TimingPlan
  <2> HIDE DEF clamped
  <2>4. ~(CycleOf(clamped) <= maximumCycleLength)
    BY <1>1, <1>4, <2>3, EngineAssumption DEF CycleOf, Intergreen
  <2>5. result = [scaled EXCEPT !.cycleLength = CycleOf(scaled)]
    BY <2>4 DEF applyTimingConstraints, clamped
  <2>6. q \in Nat /\ x \in Nat \ {0} /\ y \in Nat \ {0}
    <3>1. x \in Nat \ {0} /\ y \in Nat \ {0} /\ x * availableGreen \in Nat
      BY <1>1
    <3> QED
      BY <3>1
  <2>7. q <= x /\ availableGreen - q <= y
    BY <1>4, <2>6, Share
  <2>8. q \in low..x /\ availableGreen - q \in low..y
    BY <1>1, <2>6, <2>7
  <2>9. Clamp(q, minimumGreen, availableGreen - minimumGreen) = q
    <3>1. q \in minimumGreen..(availableGreen - minimumGreen)
      BY <1>1, <2>6, <2>8
    <3> QED
      BY <2>6, <3>1, ClampFacts
  <2>10. scaled = [clamped EXCEPT !.greenNorthSouth = q,
                                  !.greenEastWest = availableGreen - q]
    BY <2>3, <2>9 DEF scaleGreenTime
  <2> HIDE DEF q, scaled
  <2>11. result.greenNorthSouth = q /\ result.greenEastWest = availableGreen - q
    BY <2>3, <2>5, <2>10 DEF TimingPlan
  <2> QED
    BY <1>1, <1>4, <2>8, <2>11 DEF q
<1> QED
  BY <1>1, <1>3, <1>4

(* One decision of the engine on greens and targets between low and high.  *)
LEMMA OneDecision ==
  ASSUME NEW low, NEW high, NEW distance, Settling(low, high, distance),
         NEW x \in low..high, NEW y \in low..high, x + y <= availableGreen,
         NEW a \in low..high, NEW b \in low..high,
         a + b > availableGreen => a = high /\ b = high,
         NEW draft \in TimingPlan,
         draft.greenNorthSouth = stepToward(x, a), draft.greenEastWest = stepToward(y, b)
  PROVE  LET ns == applyTimingConstraints(draft).greenNorthSouth
             ew == applyTimingConstraints(draft).greenEastWest
             s  == kGreenAdjustmentStep
         IN  /\ ns \in low..high /\ ew \in low..high
             /\ Within(x, a, s) /\ Within(y, b, s) => RestAt(ns, ew, a, b)
             /\ \A k \in 1..(SettleCycles - 1) :
                  Within(x, a, distance[k - 1]) /\ Within(y, b, distance[k - 1]) =>
                    Within(ns, a, distance[k]) /\ Within(ew, b, distance[k])
<1> DEFINE G  == availableGreen
           s  == kGreenAdjustmentStep
           u  == stepToward(x, a)
           v  == stepToward(y, b)
           ns == applyTimingConstraints(draft).greenNorthSouth
           ew == applyTimingConstraints(draft).greenEastWest
           q  == (u * G) \div (u + v)
           excess == 2 * high - G
<1>1. /\ low \in Nat /\ high \in Nat /\ low + high <= G /\ G \in Nat
      /\ minimumGreen <= low /\ high <= maximumGreen /\ s \in Nat \ {0}
      /\ excess <= 2 * s
  BY AvailableFacts, EngineAssumption DEF Settling
<1>2. /\ x \in Nat /\ y \in Nat /\ a \in Nat /\ b \in Nat
      /\ x <= high /\ y <= high /\ a <= high /\ b <= high
      /\ low <= x /\ low <= y /\ low <= a /\ low <= b
  BY <1>1
<1>3. /\ u \in low..high /\ v \in low..high /\ u \in Nat /\ v \in Nat
  BY <1>1, <1>2 DEF stepToward, AtMost
<1>4. /\ x <= a => u = (IF x + s < a THEN x + s ELSE a)
      /\ x >= a => u = (IF s < x - a THEN x - s ELSE a)
      /\ y <= b => v = (IF y + s < b THEN y + s ELSE b)
      /\ y >= b => v = (IF s < y - b THEN y - s ELSE b)
  BY <1>1, <1>2 DEF stepToward, AtMost
<1>5. IF u + v <= G THEN ns = u /\ ew = v
      ELSE /\ q \in low..u /\ G - q \in low..v
           /\ ns = q /\ ew = G - q
  BY <1>1, <1>3, ConstrainedGreens
<1> HIDE DEF u, v, ns, ew
<1>6. ns \in low..high /\ ew \in low..high
  <2> HIDE DEF q, G
  <2> QED
    BY <1>1, <1>3, <1>5
<1>7. a + b <= G => u + v <= G
  <2> HIDE DEF G
  <2>1. x + y <= G
    BY DEF G
  <2> QED
    BY <1>1, <1>2, <1>4, <2>1
<1>8. Within(x, a, s) /\ Within(y, b, s) => RestAt(ns, ew, a, b)
  <2> SUFFICES ASSUME Within(x, a, s), Within(y, b, s) PROVE RestAt(ns, ew, a, b)
    OBVIOUS
  <2>1. u = a /\ v = b
    BY <1>1, <1>2, <1>4 DEF Within
  <2> QED
    BY <1>5, <2>1 DEF RestAt
<1>9. ASSUME NEW k \in 1..(SettleCycles - 1),
             Within(x, a, distance[k - 1]), Within(y, b, distance[k - 1])
      PROVE  Within(ns, a, distance[k]) /\ Within(ew, b, distance[k])
  <2> DEFINE before == distance[k - 1]
             after  == distance[k]
             left   == IF before <= s THEN 0 ELSE before - s
  <2>1. before \in Nat /\ after \in Nat
    <3>1. distance \in [0..(SettleCycles - 1) -> Nat] /\ SettleCycles \in Nat \ {0}
      BY EngineAssumption DEF Settling
    <3>2. k \in 0..(SettleCycles - 1) /\ k - 1 \in 0..(SettleCycles - 1)
      BY <3>1
    <3> QED
      BY <3>1, <3>2
  <2>2. left <= after /\ left + excess <= 2 * after
    BY DEF Settling
  <2> HIDE DEF before, after
  <2>3. left \in Nat
    BY <1>1, <2>1
  <2>4. Within(u, a, left) /\ Within(v, b, left)
    <3>1. Within(x, a, before) /\ Within(y, b, before)
      BY <1>9 DEF before
    <3> QED
      BY <1>1, <1>2, <1>4, <2>1, <3>1 DEF Within
  <2> HIDE DEF left
  <2>5. CASE u + v <= G
    <3>1. Within(ns, a, after) /\ Within(ew, b, after)
      BY <1>2, <1>3, <1>5, <2>1, <2>2, <2>3, <2>4, <2>5 DEF Within
    <3> QED
      BY <3>1 DEF after
  <2>6. CASE u + v > G
    <3>1. a = high /\ b = high
      <4> HIDE DEF G
      <4>1. a + b > G
        BY <1>1, <1>2, <1>3, <1>7, <2>6
      <4> QED
        BY <4>1 DEF G
    <3>2. q \in Nat /\ ns = q /\ ew = G - q /\ q <= high /\ G - q <= high
      <4> HIDE DEF q, G
      <4> QED
        BY <1>1, <1>3, <1>5, <2>6
    <3>3. high - u <= left /\ high - v <= left
      BY <2>4, <3>1 DEF Within
    <3>4. /\ 2 * (high - q) <= excess + left + 1
          /\ 2 * (high - (G - q)) <= excess + left
      <4>1. u <= high /\ v <= high
        BY <1>1, <1>3
      <4> HIDE DEF G
      <4> QED
        BY <1>1, <1>3, <2>3, <2>6, <3>2, <3>3, <4>1, HalfOfExcess DEF q
    <3> HIDE DEF q, G
    <3>5. high - q <= after /\ high - (G - q) <= after
      BY <1>1, <2>1, <2>2, <2>3, <3>2, <3>4
    <3>6. Within(ns, a, after) /\ Within(ew, b, after)
      BY <1>1, <2>1, <3>1, <3>2, <3>5 DEF Within
    <3> QED
      BY <3>6 DEF after
  <2> HIDE DEF G
  <2> QED
    BY <1>1, <1>3, <2>5, <2>6
<1> QED
  BY <1>6, <1>8, <1>9 DEF ns, ew

(* The greens at which the engine rests are one step from the targets, so  *)
(* it stays there.                                                         *)
LEMMA RestIsNear ==
  ASSUME NEW low, NEW high, NEW distance, Settling(low, high, distance),
         NEW x \in Nat, NEW y \in Nat, NEW a \in low..high, NEW b \in low..high,
         a + b > availableGreen => a = high /\ b = high, RestAt(x, y, a, b)
  PROVE  Within(x, a, kGreenAdjustmentStep) /\ Within(y, b, kGreenAdjustmentStep)
<1> DEFINE G == availableGreen
           s == kGreenAdjustmentStep
           q == (a * G) \div (a + b)
<1>1. /\ low \in Nat /\ high \in Nat /\ G \in Nat /\ s \in Nat
      /\ low + high <= G /\ 2 * high - G <= 2 * s
  BY AvailableFacts, EngineAssumption DEF Settling
<1>2. a \in Nat /\ b \in Nat
  BY <1>1
<1>3. CASE a + b <= G
  BY <1>1, <1>2, <1>3 DEF RestAt, Within
<1>4. CASE a + b > G
  <2>1. a = high /\ b = high /\ x = q /\ y = G - q
    BY <1>1, <1>2, <1>4 DEF RestAt
  <2>2. /\ 2 * (high - q) <= (2 * high - G) + 0 + 1
        /\ 2 * (high - (G - q)) <= (2 * high - G) + 0
    <3>1. q \in Nat /\ high - a <= 0 /\ high - b <= 0
      BY <2>1
    <3> HIDE DEF G
    <3> QED
      BY <1>1, <1>2, <1>4, <2>1, <3>1, HalfOfExcess DEF q
  <2>3. q \in Nat /\ q <= high /\ G - q <= high
    <3>1. q \in Nat
      BY <2>1
    <3>2. CASE high # 0
      <4>1. a \in Nat \ {0} /\ b \in Nat \ {0}
        BY <1>2, <2>1, <3>2
      <4> HIDE DEF G
      <4> QED
        BY <1>1, <1>4, <2>1, <3>1, <4>1, Share DEF q
    <3> QED
      BY <1>1, <1>2, <1>4, <2>1, <3>1, <3>2
  <2> HIDE DEF q, G
  <2> QED
    BY <1>1, <2>1, <2>2, <2>3 DEF Within
<1> HIDE DEF G
<1> QED
  BY <1>1, <1>2, <1>3, <1>4

(* The target of a direction is one of the four.                           *)
LEMMA TargetOf == \A score : \E i \in 0..3 : targetGreenTime(score) = targetGreens[i]
BY DEF targetGreenTime

(* After k decisions on one snapshot no green is further than distance[k]  *)
(* from its target, and after SettleCycles of them the greens rest.        *)
SettleInv(low, high, distance) ==
  /\ previousPlan.greenNorthSouth \in low..high
  /\ previousPlan.greenEastWest \in low..high
  /\ ~detectEmergency(snapshot) =>
       IF steady < SettleCycles
       THEN /\ Within(previousPlan.greenNorthSouth, TargetNS, distance[steady])
            /\ Within(previousPlan.greenEastWest, TargetEW, distance[steady])
       ELSE Settled

(* At the start the greens are between low and high, as the targets are.   *)
LEMMA SettleInit ==
  ASSUME NEW low, NEW high, NEW distance, Settling(low, high, distance), EngineInit
  PROVE  SettleInv(low, high, distance)
<1> DEFINE x == previousPlan.greenNorthSouth
           y == previousPlan.greenEastWest
<1>1. x \in low..high /\ y \in low..high /\ steady = 0
  BY DEF Settling, EngineInit, InitialPlan
<1>2. TargetNS \in low..high /\ TargetEW \in low..high
  BY TargetOf DEF Settling, TargetNS, TargetEW
<1>3. low \in Nat /\ high \in Nat /\ high - low <= distance[0] /\ distance[0] \in Nat
      /\ steady < SettleCycles
  BY <1>1, EngineAssumption DEF Settling
<1>4. Within(x, TargetNS, distance[steady]) /\ Within(y, TargetEW, distance[steady])
  <2> HIDE DEF x, y
  <2> QED
    BY <1>1, <1>2, <1>3 DEF Within
<1> QED
  BY <1>1, <1>3, <1>4 DEF SettleInv

(* A decision on a snapshot brings the greens closer to its targets.       *)
LEMMA SettleStep ==
  ASSUME NEW low, NEW high, NEW distance, Settling(low, high, distance),
         EngineInv, SettleInv(low, high, distance), [EngineNext]_engineVars
  PROVE  SettleInv(low, high, distance)'
<1>1. CASE UNCHANGED engineVars
  BY <1>1 DEF engineVars, SettleInv, Settled, TargetNS, TargetEW
<1>2. ASSUME NEW s \in Snapshots, processTrafficMetrics(s), detectEmergency(s)
      PROVE  SettleInv(low, high, distance)'
  <2>1. /\ previousPlan'.greenNorthSouth = previousPlan.greenNorthSouth
        /\ previousPlan'.greenEastWest = previousPlan.greenEastWest
        /\ snapshot' = s
    BY <1>2, EmergencyGreens DEF processTrafficMetrics
  <2> QED
    BY <1>2, <2>1 DEF SettleInv
<1>3. ASSUME NEW s \in Snapshots, processTrafficMetrics(s), ~detectEmergency(s)
      PROVE  SettleInv(low, high, distance)'
  <2> DEFINE x  == previousPlan.greenNorthSouth
             y  == previousPlan.greenEastWest
             a  == targetGreenTime(Score(s, NORTH_SOUTH))
             b  == targetGreenTime(Score(s, EAST_WEST))
             ns == previousPlan'.greenNorthSouth
             ew == previousPlan'.greenEastWest
             j  == IF s = snapshot THEN steady ELSE 0
             draft == generateDraftTimingPlan(s)
  <2>1. /\ previousPlan \in TimingPlan /\ nextPlanId \in Nat /\ s \in Snapshot
        /\ Limited(previousPlan) /\ steady \in 0..SettleCycles
        /\ SettleCycles \in Nat \ {0}
    BY EngineAssumption DEF EngineInv, EngineTypeOK, WithinLimits
  <2>2. /\ x \in low..high /\ y \in low..high /\ x \in Nat /\ y \in Nat
        /\ low \in Nat /\ high \in Nat
    BY <2>1 DEF SettleInv, Settling, TimingPlan
  <2>3. x + y <= availableGreen
    BY <2>1, <2>2, EngineAssumption, AvailableFacts DEF Limited, CycleOf, Intergreen
  <2>4. /\ a \in low..high /\ b \in low..high
        /\ a + b > availableGreen => a = high /\ b = high
    <3>1. PICK i \in 0..3 : a = targetGreens[i]
      BY TargetOf
    <3>2. PICK k \in 0..3 : b = targetGreens[k]
      BY TargetOf
    <3> HIDE DEF a, b
    <3> QED
      BY <3>1, <3>2 DEF Settling
  <2>5. /\ draft \in TimingPlan /\ previousPlan' = applyTimingConstraints(draft)
        /\ draft.greenNorthSouth = stepToward(x, a)
        /\ draft.greenEastWest = stepToward(y, b)
    <3>1. draft \in TimingPlan
      BY <2>1, Drafts
    <3>2. previousPlan' = applyTimingConstraints(draft)
      BY <1>3 DEF processTrafficMetrics, NextPlan
    <3>3. /\ draft.greenNorthSouth = stepToward(x, a)
          /\ draft.greenEastWest = stepToward(y, b)
      BY <2>1 DEF generateDraftTimingPlan, TimingPlan
    <3> QED
      BY <3>1, <3>2, <3>3
  <2> HIDE DEF a, b, draft
  <2>6. /\ ns \in low..high /\ ew \in low..high
        /\ Within(x, a, kGreenAdjustmentStep) /\ Within(y, b, kGreenAdjustmentStep)
             => RestAt(ns, ew, a, b)
        /\ \A k \in 1..(SettleCycles - 1) :
             Within(x, a, distance[k - 1]) /\ Within(y, b, distance[k - 1]) =>
               Within(ns, a, distance[k]) /\ Within(ew, b, distance[k])
    BY <2>2, <2>3, <2>4, <2>5, OneDecision
  <2>7. /\ snapshot' = s /\ TargetNS' = a /\ TargetEW' = b
        /\ steady' = AtMost(j + 1, SettleCycles) /\ j \in 0..SettleCycles
    <3>1. /\ snapshot' = s
          /\ steady' = IF s = snapshot THEN AtMost(steady + 1, SettleCycles) ELSE 1
      BY <1>3 DEF processTrafficMetrics
    <3>2. TargetNS' = a /\ TargetEW' = b
      BY <3>1 DEF TargetNS, TargetEW, a, b
    <3> QED
      BY <2>1, <3>1, <3>2 DEF AtMost
  <2>8. Settled' <=> RestAt(ns, ew, a, b)
    BY <2>7 DEF Settled, RestAt, availableGreen, Intergreen
  <2>9. /\ distance \in [0..(SettleCycles - 1) -> Nat]
        /\ high - low <= distance[0] /\ distance[SettleCycles - 1] <= kGreenAdjustmentStep
        /\ kGreenAdjustmentStep \in Nat
    BY EngineAssumption DEF Settling
  <2>10. IF j < SettleCycles THEN Within(x, a, distance[j]) /\ Within(y, b, distance[j])
                             ELSE RestAt(x, y, a, b)
    <3>1. CASE s = snapshot
      <4>1. a = TargetNS /\ b = TargetEW /\ j = steady /\ ~detectEmergency(snapshot)
        BY <1>3, <3>1 DEF TargetNS, TargetEW, a, b
      <4> QED
        BY <4>1 DEF SettleInv, Settled, RestAt
    <3>2. CASE s # snapshot
      <4>1. j = 0 /\ j < SettleCycles /\ distance[0] \in Nat
        BY <2>1, <2>9, <3>2
      <4>2. Within(x, a, distance[0]) /\ Within(y, b, distance[0])
        <5> HIDE DEF x, y
        <5> QED
          BY <2>2, <2>4, <2>9, <4>1 DEF Within
      <4> QED
        BY <4>1, <4>2
    <3> QED
      BY <3>1, <3>2
  <2> HIDE DEF j, x, y, ns, ew
  <2>11. CASE j < SettleCycles - 1
    <3>1. /\ j + 1 \in 1..(SettleCycles - 1) /\ (j + 1) - 1 = j /\ j < SettleCycles
          /\ steady' = j + 1 /\ steady' < SettleCycles
      BY <2>1, <2>7, <2>11 DEF AtMost
    <3>2. Within(ns, a, distance[j + 1]) /\ Within(ew, b, distance[j + 1])
      BY <2>6, <2>10, <3>1
    <3> QED
      BY <2>6, <2>7, <3>1, <3>2 DEF SettleInv, ns, ew
  <2>12. CASE j >= SettleCycles - 1
    <3>1. steady' = SettleCycles /\ ~(steady' < SettleCycles)
      BY <2>1, <2>7, <2>12 DEF AtMost
    <3>2. Within(x, a, kGreenAdjustmentStep) /\ Within(y, b, kGreenAdjustmentStep)
      <4>1. CASE j = SettleCycles - 1
        <5>1. /\ Within(x, a, distance[j]) /\ Within(y, b, distance[j])
              /\ distance[j] \in Nat /\ distance[j] <= kGreenAdjustmentStep
          BY <2>1, <2>7, <2>9, <2>10, <4>1
        <5> QED
          BY <2>2, <2>4, <2>9, <5>1 DEF Within
      <4>2. CASE j = SettleCycles
        <5>1. RestAt(x, y, a, b)
          BY <2>1, <2>10, <4>2
        <5> QED
          BY <2>2, <2>4, <5>1, RestIsNear
      <4> QED
        BY <2>1, <2>7, <2>12, <4>1, <4>2
    <3>3. Settled'
      BY <2>6, <2>8, <3>2
    <3> QED
      BY <2>6, <3>1, <3>3 DEF SettleInv, ns, ew
  <2> QED
    BY <2>1, <2>7, <2>11, <2>12
<1> QED
  BY <1>1, <1>2, <1>3 DEF EngineNext

(* Under a constant demand the greens reach their targets in SettleCycles  *)
(* decisions, or share what there is, from wherever they were when it      *)
(* began, and stay there (stepToward against scaleGreenTime).              *)
THEOREM GreensSettle ==
  ASSUME NEW low, NEW high, NEW distance, Settling(low, high, distance)
  PROVE  EngineSpec => []Settles
<1>1. EngineInit => SettleInv(low, high, distance)
  BY SettleInit
<1>2. EngineInv /\ SettleInv(low, high, distance) /\ [EngineNext]_engineVars
        => SettleInv(low, high, distance)'
  BY SettleStep
<1>3. EngineInv /\ SettleInv(low, high, distance) => Settles
  BY EngineAssumption DEF EngineInv, EngineTypeOK, SettleInv, Settles
<1> QED
  BY <1>1, <1>2, <1>3, EngineInvariance, PTL DEF EngineSpec

(***************************************************************************)
(* The publisher, the queue and the receiver.                              *)
(***************************************************************************)

(* Sequences of messages that rise, and what Append and Tail do to them.   *)

Stamped(m)      == m.instance \in Nat /\ m.sequence \in Nat
Rising(q)       == \A i, j \in 1..Len(q) : j < i => Newer(q[i], q[j])
AllAfter(q, m)  == \A i \in 1..Len(q) : Newer(q[i], m)
AllBefore(q, m) == \A i \in 1..Len(q) : Newer(m, q[i])
LastIs(q, m)    == q # <<>> => q[Len(q)] = m
AllLimited(q)   == \A i \in 1..Len(q) : Limited(q[i].plan)

(* Newer is transitive.                                                    *)
LEMMA NewerTransitive ==
  ASSUME NEW a, NEW b, NEW c, Stamped(a), Stamped(b), Stamped(c),
         Newer(a, b), Newer(b, c)
  PROVE  Newer(a, c)
BY DEF Stamped, Newer

(* Every message has a stamp and a plan.                                   *)
LEMMA MessageStamped == \A m \in Message : Stamped(m) /\ m.plan \in TimingPlan
BY DEF Message, Stamped

(* What is before a message is before every later one.                     *)
LEMMA BeforeLater ==
  ASSUME NEW q \in Seq(Message), NEW a, NEW b, Stamped(a), Stamped(b),
         AllBefore(q, a), Newer(b, a)
  PROVE  AllBefore(q, b)
<1>1. \A i \in 1..Len(q) : q[i] \in Message
  BY ElementOfSeq
<1>2. QED
  BY <1>1, MessageStamped, NewerTransitive DEF AllBefore

(* Sending a message that comes after those queued.                        *)
LEMMA AppendMessage ==
  ASSUME NEW q \in Seq(Message), NEW v \in Message
  PROVE  /\ Append(q, v) \in Seq(Message)
         /\ Len(Append(q, v)) = Len(q) + 1
         /\ Append(q, v) # <<>>
         /\ Rising(q) /\ AllBefore(q, v) => Rising(Append(q, v))
         /\ LastIs(Append(q, v), v)
         /\ \A m : AllAfter(q, m) /\ Newer(v, m) => AllAfter(Append(q, v), m)
         /\ \A m : AllBefore(q, m) /\ Newer(m, v) => AllBefore(Append(q, v), m)
         /\ AllLimited(q) /\ Limited(v.plan) => AllLimited(Append(q, v))
<1> DEFINE a == Append(q, v)
<1>1. /\ a \in Seq(Message) /\ Len(a) = Len(q) + 1 /\ Len(q) \in Nat
      /\ \A i \in 1..Len(q) : a[i] = q[i]
      /\ a[Len(q) + 1] = v
  BY AppendProperties, LenProperties
<1> HIDE DEF a
<1>2. a # <<>> /\ LastIs(a, v)
  BY <1>1, EmptySeq DEF LastIs
<1>3. Rising(q) /\ AllBefore(q, v) => Rising(a)
  BY <1>1 DEF Rising, AllBefore
<1>4. \A m : AllAfter(q, m) /\ Newer(v, m) => AllAfter(a, m)
  BY <1>1 DEF AllAfter
<1>5. \A m : AllBefore(q, m) /\ Newer(m, v) => AllBefore(a, m)
  BY <1>1 DEF AllBefore
<1>6. AllLimited(q) /\ Limited(v.plan) => AllLimited(a)
  BY <1>1 DEF AllLimited
<1>7. QED
  BY <1>1, <1>2, <1>3, <1>4, <1>5, <1>6 DEF a

(* Receiving the oldest message.                                           *)
LEMMA TailMessage ==
  ASSUME NEW q \in Seq(Message), q # <<>>, NEW n, Rising(q), LastIs(q, n)
  PROVE  /\ Tail(q) \in Seq(Message) /\ Head(q) \in Message
         /\ Len(Tail(q)) <= Len(q)
         /\ Rising(Tail(q))
         /\ AllAfter(Tail(q), Head(q))
         /\ LastIs(Tail(q), n)
         /\ Tail(q) = <<>> => Head(q) = n
         /\ \A m : AllAfter(q, m) => Newer(Head(q), m) /\ AllAfter(Tail(q), m)
         /\ \A m : AllBefore(q, m) => Newer(m, Head(q)) /\ AllBefore(Tail(q), m)
         /\ AllLimited(q) => Limited(Head(q).plan) /\ AllLimited(Tail(q))
<1> DEFINE t == Tail(q)
<1>1. /\ t \in Seq(Message) /\ Len(t) = Len(q) - 1 /\ Len(q) \in Nat \ {0}
      /\ \A i \in 1..Len(t) : t[i] = q[i + 1]
      /\ Head(q) = q[1] /\ Head(q) \in Message
  BY HeadTailProperties, EmptySeq, ElementOfSeq
<1> HIDE DEF t
<1>2. \A i \in 1..Len(t) : i + 1 \in 1..Len(q)
  BY <1>1
<1>3. 1 \in 1..Len(q)
  BY <1>1
<1>4. Rising(t)
  <2> SUFFICES ASSUME NEW i \in 1..Len(t), NEW j \in 1..Len(t), j < i
               PROVE  Newer(t[i], t[j])
    BY DEF Rising
  <2>1. i + 1 \in 1..Len(q) /\ j + 1 \in 1..Len(q) /\ j + 1 < i + 1
    BY <1>1
  <2>2. QED
    BY <1>1, <2>1 DEF Rising
<1>5. AllAfter(t, Head(q))
  <2> SUFFICES ASSUME NEW i \in 1..Len(t) PROVE Newer(t[i], q[1])
    BY <1>1 DEF AllAfter
  <2>1. i + 1 \in 1..Len(q) /\ 1 < i + 1
    BY <1>1
  <2>2. QED
    BY <1>1, <1>3, <2>1 DEF Rising
<1>6. LastIs(t, n) /\ (t = <<>> => Head(q) = n)
  BY <1>1, EmptySeq DEF LastIs
<1>7. \A m : AllAfter(q, m) => Newer(Head(q), m) /\ AllAfter(t, m)
  BY <1>1, <1>2, <1>3 DEF AllAfter
<1>8. \A m : AllBefore(q, m) => Newer(m, Head(q)) /\ AllBefore(t, m)
  BY <1>1, <1>2, <1>3 DEF AllBefore
<1>9. AllLimited(q) => Limited(Head(q).plan) /\ AllLimited(t)
  BY <1>1, <1>2, <1>3 DEF AllLimited
<1>10. QED
  BY <1>1, <1>4, <1>5, <1>6, <1>7, <1>8, <1>9 DEF t

(* Of an empty queue everything is true.                                   *)
LEMMA EmptyQueue ==
  /\ <<>> \in Seq(Message) /\ Len(<<>>) = 0
  /\ Rising(<<>>) /\ AllLimited(<<>>)
  /\ \A m : AllAfter(<<>>, m) /\ AllBefore(<<>>, m) /\ LastIs(<<>>, m)
BY DEF Rising, AllLimited, AllAfter, AllBefore, LastIs

-----------------------------------------------------------------------------
(* The inductive invariant.                                                *)

(* What the receiver has had, its remembered position included.            *)
Past == Received \cup (IF lastInstance # 0 THEN {Position} ELSE {})

(* The stamp of the next message the publisher will make.                  *)
NextStamp == [instance |-> publisherInstance, sequence |-> sequenceNumber + 1]

QueueInv ==
  /\ Rising(planQueue)
  /\ LastIs(planQueue, newestSent)
  /\ \A m \in Past : AllAfter(planQueue, m)

PendingInv ==
  /\ pendingLatest # NoMessage =>
       /\ AllBefore(planQueue, pendingLatest)
       /\ \A m \in Past : Newer(pendingLatest, m)
       /\ pendingLatest.instance = publisherInstance
       /\ pendingLatest.sequence = sequenceNumber
  /\ servicePc = "down" => pendingLatest = NoMessage
  /\ servicePc # "down" => publisherInstance # 0

NumberInv ==
  /\ AllBefore(planQueue, NextStamp)
  /\ \A m \in Past : Newer(NextStamp, m)

CandidateInv ==
  /\ candidate # NoMessage /\ handed # NoMessage => Newer(candidate, handed)
  /\ receiverPc = "hand" => candidate # NoMessage
  /\ candidate # NoMessage /\ planQueue = <<>> => candidate = newestSent

PlansInv ==
  /\ AllLimited(planQueue)
  /\ \A m \in Received : Limited(m.plan)
  /\ pendingLatest # NoMessage => Limited(pendingLatest.plan)

TransportInv ==
  /\ TransportTypeOK /\ EngineInv
  /\ QueueInv /\ PendingInv /\ NumberInv /\ CandidateInv /\ PlansInv
  /\ NewestKept /\ EngineInStep

(* Everything the receiver has had is stamped.                             *)
LEMMA PastStamped == TransportTypeOK => \A m \in Past : Stamped(m)
BY MessageStamped DEF TransportTypeOK, MaybeMessage, Past, Received, Position, Stamped

(* The invariant holds at the start.                                       *)
LEMMA TransportInvInit == TransportInit => TransportInv
<1> SUFFICES ASSUME TransportInit PROVE TransportInv
  OBVIOUS
<1> USE DEF TransportInit, ServiceInit
<1>1. EngineInv
  BY InvInit
<1>2. Received = {} /\ Past = {}
  BY DEF Received, Past
<1>3. TransportTypeOK
  <2>1. planQueue \in Seq(Message) /\ Len(planQueue) <= kPlanQueueDepth
    BY EmptyQueue, ServiceAssumption
  <2>2. QED
    BY <2>1 DEF TransportTypeOK, MaybeMessage
<1>4. QueueInv /\ PendingInv /\ NumberInv /\ CandidateInv /\ PlansInv
  BY <1>2, EmptyQueue DEF QueueInv, PendingInv, NumberInv, CandidateInv, PlansInv
<1>5. QED
  BY <1>1, <1>3, <1>4 DEF TransportInv, NewestKept, EngineInStep

-----------------------------------------------------------------------------
(* The steps of the decision process.                                      *)

(* What the decision process does is not the receiver's past.              *)
LEMMA ServiceKeepsPast ==
  UNCHANGED receiverVars => Past' = Past /\ Received' = Received
BY DEF receiverVars, Past, Received, Position

(* A start of the decision process: a new instance, newer than all.        *)
LEMMA StartServiceStep ==
  TransportInv /\ StartService /\ UNCHANGED receiverVars => TransportInv'
<1> SUFFICES ASSUME TransportInv, StartService, UNCHANGED receiverVars
             PROVE  TransportInv'
  OBVIOUS
<1> USE DEF StartService, initialize
<1>1. Past' = Past /\ Received' = Received
  BY ServiceKeepsPast
<1>2. EngineInv'
  <2>1. /\ previousPlan' = InitialPlan /\ nextPlanId' = 1 /\ steady' = 0
        /\ snapshot' = snapshot /\ snapshot \in Snapshots
    BY DEF TransportInv, EngineInv, EngineTypeOK
  <2>2. InitialPlan \in TimingPlan
    BY AvailableFacts, EngineAssumption DEF InitialPlan, TimingPlan
  <2>3. Limited(InitialPlan)
    BY AvailableFacts, EngineAssumption DEF Limited, InitialPlan, CycleOf, Intergreen
  <2>4. InitialPlan.planId = 0
    BY DEF InitialPlan
  <2>5. QED
    BY <2>1, <2>2, <2>3, <2>4, EngineAssumption
    DEF EngineInv, EngineTypeOK, WithinLimits, FlagsOfSnapshot
<1>3. TransportTypeOK'
  BY DEF TransportInv, TransportTypeOK, receiverVars, MaybeMessage
<1>4. pendingLatest' = NoMessage /\ planQueue' = planQueue /\ newestSent' = newestSent
  BY DEF TransportInv, PendingInv
<1>5. /\ QueueInv' /\ PendingInv' /\ CandidateInv' /\ PlansInv'
  <2>1. QueueInv' /\ PlansInv'
    BY <1>1, <1>4 DEF TransportInv, QueueInv, PlansInv
  <2>2. PendingInv'
    BY <1>4 DEF TransportInv, TransportTypeOK, PendingInv
  <2>3. CandidateInv'
    BY <1>4 DEF TransportInv, CandidateInv, receiverVars
  <2>4. QED
    BY <2>1, <2>2, <2>3
<1>6. NumberInv'
  <2>1. Stamped(NextStamp) /\ Stamped(NextStamp') /\ Newer(NextStamp', NextStamp)
    BY DEF TransportInv, TransportTypeOK, NextStamp, Stamped, Newer
  <2>2. AllBefore(planQueue, NextStamp')
    BY <2>1, BeforeLater DEF TransportInv, TransportTypeOK, NumberInv
  <2>3. \A m \in Past : Newer(NextStamp', m)
    BY <2>1, PastStamped, NewerTransitive DEF TransportInv, NumberInv
  <2>4. QED
    BY <1>1, <1>4, <2>2, <2>3 DEF NumberInv
<1>7. NewestKept' /\ EngineInStep'
  BY <1>1, <1>4 DEF TransportInv, NewestKept, EngineInStep
<1>8. QED
  BY <1>2, <1>3, <1>5, <1>6, <1>7 DEF TransportInv

(* The invariant of the engine depends on nothing else.                    *)
LEMMA EngineUnchanged ==
  EngineInv /\ UNCHANGED engineVars => EngineInv'
BY InvStep

(* The end of the decision process, ordered or not.                        *)
LEMMA StopServiceStep ==
  TransportInv /\ StopService /\ UNCHANGED receiverVars => TransportInv'
<1> SUFFICES ASSUME TransportInv, StopService, UNCHANGED receiverVars
             PROVE  TransportInv'
  OBVIOUS
<1> USE DEF StopService, planQueueVars
<1>1. Past' = Past /\ Received' = Received
  BY ServiceKeepsPast
<1>2. EngineInv'
  BY EngineUnchanged DEF TransportInv
<1>3. TransportTypeOK'
  BY DEF TransportInv, TransportTypeOK, receiverVars, MaybeMessage
<1>4. QueueInv' /\ PendingInv' /\ NumberInv' /\ CandidateInv' /\ PlansInv'
  BY <1>1 DEF TransportInv, QueueInv, PendingInv, NumberInv, NextStamp,
              CandidateInv, PlansInv, receiverVars
<1>5. NewestKept' /\ EngineInStep'
  BY <1>1 DEF TransportInv, NewestKept, EngineInStep
<1>6. QED
  BY <1>2, <1>3, <1>4, <1>5 DEF TransportInv

(* A cycle without input.                                                  *)
LEMMA SkipCycleStep ==
  TransportInv /\ SkipCycle /\ UNCHANGED receiverVars => TransportInv'
<1> SUFFICES ASSUME TransportInv, SkipCycle, UNCHANGED receiverVars
             PROVE  TransportInv'
  OBVIOUS
<1> USE DEF SkipCycle, planQueueVars, publisherVars
<1>1. Past' = Past /\ Received' = Received
  BY ServiceKeepsPast
<1>2. EngineInv'
  BY EngineUnchanged DEF TransportInv
<1>3. TransportTypeOK'
  BY DEF TransportInv, TransportTypeOK, receiverVars, MaybeMessage
<1>4. QueueInv' /\ PendingInv' /\ NumberInv' /\ CandidateInv' /\ PlansInv'
  BY <1>1 DEF TransportInv, QueueInv, PendingInv, NumberInv, NextStamp,
              CandidateInv, PlansInv, receiverVars
<1>5. NewestKept' /\ EngineInStep'
  BY <1>1 DEF TransportInv, NewestKept, EngineInStep, engineVars
<1>6. QED
  BY <1>2, <1>3, <1>4, <1>5 DEF TransportInv

(* A cycle with input: the next plan replaces the one that waits.          *)
LEMMA DecideStep ==
  ASSUME NEW s \in Snapshots
  PROVE  TransportInv /\ Decide(s) /\ UNCHANGED receiverVars => TransportInv'
<1> SUFFICES ASSUME TransportInv, Decide(s), UNCHANGED receiverVars
             PROVE  TransportInv'
  OBVIOUS
<1> USE DEF Decide, planQueueVars
<1>1. Past' = Past /\ Received' = Received
  BY ServiceKeepsPast
<1>2. EngineInv'
  BY InvStep DEF TransportInv, EngineNext
<1>3. previousPlan' \in TimingPlan /\ Limited(previousPlan')
  BY <1>2 DEF EngineInv, EngineTypeOK, WithinLimits
<1>4. publisherInstance \in Nat /\ sequenceNumber \in Nat
  BY DEF TransportInv, TransportTypeOK
<1>5. /\ pendingLatest' = [instance |-> publisherInstance,
                           sequence |-> sequenceNumber + 1, plan |-> previousPlan']
      /\ sequenceNumber' = sequenceNumber + 1
      /\ UNCHANGED <<publisherInstance, planQueue, queueExists, newestSent>>
  BY DEF makeMessage
<1>6. pendingLatest' \in Message /\ Stamped(pendingLatest')
  BY <1>3, <1>4, <1>5 DEF TransportInv, PendingInv, Message, Stamped
<1>7. TransportTypeOK'
  BY <1>4, <1>5, <1>6 DEF TransportInv, TransportTypeOK, MaybeMessage, receiverVars
<1>8. \A m : Newer(pendingLatest', m) <=> Newer(NextStamp, m)
  BY <1>5 DEF Newer, NextStamp
<1>9. QueueInv'
  BY <1>1, <1>5 DEF TransportInv, QueueInv
<1>10. PendingInv'
  BY <1>1, <1>5, <1>8 DEF TransportInv, PendingInv, NumberInv, AllBefore
<1>11. NumberInv'
  <2>1. Stamped(NextStamp) /\ Stamped(NextStamp') /\ Newer(NextStamp', NextStamp)
    BY <1>4, <1>5 DEF NextStamp, Stamped, Newer
  <2>2. AllBefore(planQueue, NextStamp')
    BY <2>1, BeforeLater DEF TransportInv, TransportTypeOK, NumberInv
  <2>3. \A m \in Past : Newer(NextStamp', m)
    BY <2>1, PastStamped, NewerTransitive DEF TransportInv, NumberInv
  <2>4. QED
    BY <1>1, <1>5, <2>2, <2>3 DEF NumberInv
<1>12. CandidateInv' /\ PlansInv' /\ NewestKept'
  BY <1>1, <1>3, <1>5
  DEF TransportInv, CandidateInv, PlansInv, NewestKept, receiverVars
<1>13. EngineInStep'
  BY <1>5, <1>6, ServiceAssumption DEF EngineInStep
<1>14. QED
  BY <1>2, <1>7, <1>9, <1>10, <1>11, <1>12, <1>13 DEF TransportInv

(* The send at the end of a cycle.                                         *)
LEMMA FinishCycleStep ==
  TransportInv /\ FinishCycle /\ UNCHANGED receiverVars => TransportInv'
<1> SUFFICES ASSUME TransportInv, FinishCycle, UNCHANGED receiverVars
             PROVE  TransportInv'
  OBVIOUS
<1> USE DEF FinishCycle
<1>1. Past' = Past /\ Received' = Received
  BY ServiceKeepsPast
<1>2. EngineInv'
  BY EngineUnchanged DEF TransportInv
<1>3. CASE UNCHANGED <<planQueue, newestSent, pendingLatest>>
  <2>1. TransportTypeOK'
    BY <1>3 DEF TransportInv, TransportTypeOK, receiverVars
  <2>2. QueueInv' /\ PendingInv' /\ NumberInv' /\ CandidateInv' /\ PlansInv'
    BY <1>1, <1>3 DEF TransportInv, QueueInv, PendingInv, NumberInv, NextStamp,
                      CandidateInv, PlansInv, receiverVars
  <2>3. NewestKept' /\ EngineInStep'
    BY <1>1, <1>3 DEF TransportInv, NewestKept, EngineInStep, engineVars
  <2>4. QED
    BY <1>2, <2>1, <2>2, <2>3 DEF TransportInv
<1>4. CASE /\ pendingLatest # NoMessage /\ Len(planQueue) < kPlanQueueDepth
           /\ planQueue' = Append(planQueue, pendingLatest)
           /\ newestSent' = pendingLatest
           /\ pendingLatest' = NoMessage
  <2> DEFINE v == pendingLatest
  <2>1. planQueue \in Seq(Message) /\ v \in Message
    BY <1>4 DEF TransportInv, TransportTypeOK, MaybeMessage
  <2>2. /\ planQueue' \in Seq(Message) /\ Len(planQueue') = Len(planQueue) + 1
        /\ planQueue' # <<>> /\ Rising(planQueue') /\ LastIs(planQueue', v)
        /\ \A m : AllAfter(planQueue, m) /\ Newer(v, m) => AllAfter(planQueue', m)
        /\ \A m : AllBefore(planQueue, m) /\ Newer(m, v) => AllBefore(planQueue', m)
        /\ AllLimited(planQueue')
    BY <1>4, <2>1, AppendMessage DEF TransportInv, QueueInv, PendingInv, PlansInv
  <2>3. TransportTypeOK'
    BY <1>4, <2>1, <2>2, LenProperties, ServiceAssumption
    DEF TransportInv, TransportTypeOK, MaybeMessage, receiverVars
  <2>4. QueueInv'
    BY <1>1, <1>4, <2>2 DEF TransportInv, QueueInv, PendingInv
  <2>5. PendingInv'
    BY <1>4 DEF TransportInv, PendingInv
  <2>6. NumberInv'
    <3>1. Newer(NextStamp, v) /\ NextStamp' = NextStamp
      BY <1>4 DEF TransportInv, TransportTypeOK, PendingInv, NextStamp, Newer
    <3>2. QED
      BY <1>1, <2>2, <3>1 DEF TransportInv, NumberInv
  <2>7. CandidateInv' /\ PlansInv'
    BY <1>1, <1>4, <2>2 DEF TransportInv, CandidateInv, PlansInv, receiverVars
  <2>8. NewestKept'
    BY <1>4, <2>2 DEF NewestKept, LastIs
  <2>9. EngineInStep'
    BY <1>4 DEF TransportInv, EngineInStep, engineVars
  <2>10. QED
    BY <1>2, <2>3, <2>4, <2>5, <2>6, <2>7, <2>8, <2>9 DEF TransportInv
<1>5. QED
  BY <1>3, <1>4 DEF trySendPending

-----------------------------------------------------------------------------
(* The steps of the controller.                                            *)

(* A step that only moves the receiver, or forgets its position.           *)
LEMMA ReceiverMoves ==
  ASSUME TransportInv,
         UNCHANGED <<serviceVars, candidate, handed, givenUp>>,
         receiverPc' \in {"gone", "closed", "loop", "receive", "hand", "done", "failed"},
         running' \in BOOLEAN,
         receiverPc' = "hand" => candidate # NoMessage,
         \/ UNCHANGED <<lastInstance, lastSequence>>
         \/ lastInstance' = 0 /\ lastSequence' = 0
  PROVE  TransportInv'
<1> USE DEF serviceVars, publisherVars, planQueueVars
<1>1. Received' = Received /\ Past' \subseteq Past
  BY DEF Received, Past, Position
<1>2. EngineInv'
  BY EngineUnchanged DEF TransportInv
<1>3. TransportTypeOK'
  BY DEF TransportInv, TransportTypeOK
<1>4. QueueInv' /\ PendingInv' /\ NumberInv'
  BY <1>1 DEF TransportInv, QueueInv, PendingInv, NumberInv, NextStamp
<1>5. CandidateInv' /\ PlansInv'
  BY <1>1 DEF TransportInv, CandidateInv, PlansInv
<1>6. NewestKept' /\ EngineInStep'
  BY <1>1 DEF TransportInv, NewestKept, EngineInStep, engineVars
<1>7. QED
  BY <1>2, <1>3, <1>4, <1>5, <1>6 DEF TransportInv

(* A step that gives the candidate up, or hands it over.                   *)
LEMMA CandidateGoes ==
  ASSUME TransportInv,
         UNCHANGED <<serviceVars, lastInstance, lastSequence>>,
         receiverPc' \in {"gone", "closed", "loop"}, running' \in BOOLEAN,
         candidate' = NoMessage,
         \/ candidate = NoMessage /\ UNCHANGED <<handed, givenUp>>
         \/ candidate # NoMessage /\ givenUp' = candidate /\ UNCHANGED handed
         \/ candidate # NoMessage /\ handed' = candidate /\ UNCHANGED givenUp
  PROVE  TransportInv'
<1> USE DEF serviceVars, publisherVars, planQueueVars
<1>1. Received' \subseteq Received /\ Past' \subseteq Past
  BY DEF Received, Past, Position
<1>2. EngineInv'
  BY EngineUnchanged DEF TransportInv
<1>3. TransportTypeOK'
  BY DEF TransportInv, TransportTypeOK, MaybeMessage
<1>4. QueueInv' /\ PendingInv' /\ NumberInv'
  BY <1>1 DEF TransportInv, QueueInv, PendingInv, NumberInv, NextStamp
<1>5. CandidateInv' /\ PlansInv'
  BY <1>1 DEF TransportInv, CandidateInv, PlansInv
<1>6. EngineInStep'
  BY DEF TransportInv, EngineInStep, engineVars
<1>7. NewestKept'
  <2>1. planQueue' = planQueue /\ newestSent' = newestSent
    OBVIOUS
  <2>2. CASE planQueue = <<>> /\ newestSent # NoMessage
    <3>1. candidate = NoMessage \/ candidate = newestSent
      BY <2>2 DEF TransportInv, CandidateInv
    <3>2. newestSent \in {candidate, handed, givenUp} \ {NoMessage}
      BY <2>2 DEF TransportInv, NewestKept, Received
    <3>3. newestSent \in {candidate', handed', givenUp'} \ {NoMessage}
      BY <3>1, <3>2
    <3>4. QED
      BY <2>1, <2>2, <3>3 DEF NewestKept, Received
  <2>3. CASE planQueue # <<>> \/ newestSent = NoMessage
    BY <2>1, <2>3 DEF TransportInv, NewestKept
  <2>4. QED
    BY <2>2, <2>3
<1>8. QED
  BY <1>2, <1>3, <1>4, <1>5, <1>6, <1>7 DEF TransportInv

(* A message received: newer than all before it, so never stale.           *)
LEMMA ReceiveMessageStep ==
  TransportInv /\ ReceiveMessage => TransportInv'
<1> SUFFICES ASSUME TransportInv, ReceiveMessage PROVE TransportInv'
  OBVIOUS
<1> USE DEF ReceiveMessage, publisherVars
<1> DEFINE m == Head(planQueue)
<1>1. /\ planQueue \in Seq(Message) /\ planQueue # <<>> /\ Len(planQueue) <= kPlanQueueDepth
      /\ Rising(planQueue) /\ LastIs(planQueue, newestSent)
      /\ planQueue' = Tail(planQueue)
  BY DEF TransportInv, TransportTypeOK, QueueInv
<1>2. /\ planQueue' \in Seq(Message) /\ m \in Message
      /\ Len(planQueue') <= Len(planQueue)
      /\ Rising(planQueue') /\ AllAfter(planQueue', m) /\ LastIs(planQueue', newestSent)
      /\ planQueue' = <<>> => m = newestSent
      /\ \A n : AllAfter(planQueue, n) => Newer(m, n) /\ AllAfter(planQueue', n)
      /\ \A n : AllBefore(planQueue, n) => Newer(n, m) /\ AllBefore(planQueue', n)
      /\ AllLimited(planQueue) => Limited(m.plan) /\ AllLimited(planQueue')
  BY <1>1, TailMessage
<1> HIDE DEF m
<1>3. m.instance \in Nat \ {0} /\ m.sequence \in Nat \ {0} /\ m # NoMessage
  BY <1>2, ServiceAssumption DEF Message
<1>4. \A n \in Past : Newer(m, n)
  BY <1>2 DEF TransportInv, QueueInv
<1>5. IsNewerTransportMessage(m)
  <2>1. CASE lastInstance = 0
    BY <2>1 DEF IsNewerTransportMessage
  <2>2. CASE lastInstance # 0
    <3>1. Newer(m, Position)
      BY <1>4, <2>2 DEF Past
    <3>2. lastInstance \in Nat
      BY DEF TransportInv, TransportTypeOK
    <3>3. QED
      BY <1>3, <3>1, <3>2 DEF Newer, Position, IsNewerTransportMessage
  <2>3. QED
    BY <2>1, <2>2
<1>6. /\ candidate' = m /\ lastInstance' = m.instance /\ lastSequence' = m.sequence
      /\ handed' = handed /\ givenUp' = givenUp /\ receiverPc' = "loop"
  BY <1>5 DEF m
<1>7. \A n : /\ Newer(n, Position') <=> Newer(n, m)
             /\ Newer(Position', n) <=> Newer(m, n)
  BY <1>6 DEF Position, Newer
<1>8. /\ \A n \in Past' : n \in Past \/ n = m \/ n = Position'
      /\ \A n \in Received' : n \in Received \/ n = m
  BY <1>6 DEF Past, Received
<1>9. EngineInv'
  BY EngineUnchanged DEF TransportInv
<1>10. TransportTypeOK'
  BY <1>1, <1>2, <1>3, <1>6, LenProperties, ServiceAssumption
  DEF TransportInv, TransportTypeOK, MaybeMessage
<1>11. QueueInv'
  <2>1. \A n \in Past' : AllAfter(planQueue', n)
    <3>1. AllAfter(planQueue', Position')
      BY <1>2, <1>7 DEF AllAfter
    <3>2. QED
      BY <1>2, <1>8, <3>1 DEF TransportInv, QueueInv
  <2>2. QED
    BY <1>2, <2>1 DEF QueueInv
<1>12. PendingInv'
  BY <1>2, <1>7, <1>8 DEF TransportInv, PendingInv
<1>13. NumberInv'
  <2>1. NextStamp' = NextStamp
    BY DEF NextStamp
  <2>2. QED
    BY <1>2, <1>7, <1>8, <2>1 DEF TransportInv, NumberInv
<1>14. CandidateInv'
  BY <1>2, <1>4, <1>6 DEF CandidateInv, Past, Received
<1>15. PlansInv'
  BY <1>2, <1>8 DEF TransportInv, PlansInv
<1>16. NewestKept'
  BY <1>2, <1>3, <1>6 DEF NewestKept, LastIs, Received
<1>17. EngineInStep'
  BY DEF TransportInv, EngineInStep, engineVars
<1>18. QED
  BY <1>9, <1>10, <1>11, <1>12, <1>13, <1>14, <1>15, <1>16, <1>17 DEF TransportInv

(* Every step of either process keeps the invariant.                       *)
LEMMA TransportInvStep ==
  TransportInv /\ [TransportNext]_transportVars => TransportInv'
<1> SUFFICES ASSUME TransportInv, [TransportNext]_transportVars PROVE TransportInv'
  OBVIOUS
<1>0. /\ receiverPc \in {"gone", "closed", "loop", "receive", "hand", "done", "failed"}
      /\ running \in BOOLEAN
      /\ receiverPc = "hand" => candidate # NoMessage
  BY DEF TransportInv, TransportTypeOK, CandidateInv
<1>1. CASE UNCHANGED transportVars
  BY <1>0, <1>1, ReceiverMoves DEF transportVars, receiverVars
<1>2. CASE ServiceStep /\ UNCHANGED receiverVars
  BY <1>2, StartServiceStep, StopServiceStep, SkipCycleStep, DecideStep, FinishCycleStep
  DEF ServiceStep, CycleInput
<1>3. CASE StartReceiver
  BY <1>3, ReceiverMoves DEF StartReceiver
<1>4. CASE StopReceiver
  BY <1>0, <1>4, ReceiverMoves DEF StopReceiver
<1>5. CASE ControllerDies
  BY <1>5, CandidateGoes DEF ControllerDies
<1>6. CASE OpenQueue
  BY <1>0, <1>6, ReceiverMoves DEF OpenQueue
<1>7. CASE OpenFails
  BY <1>0, <1>7, ReceiverMoves DEF OpenFails
<1>8. CASE TestRunning
  BY <1>0, <1>8, ReceiverMoves DEF TestRunning
<1>9. CASE ReceiveMessage
  BY <1>9, ReceiveMessageStep
<1>10. CASE ReceiveNothing
  BY <1>0, <1>10, ReceiverMoves DEF ReceiveNothing
<1>11. CASE ReceiveFails
  BY <1>0, <1>11, CandidateGoes DEF ReceiveFails
<1>12. CASE Hand
  BY <1>0, <1>12, CandidateGoes DEF Hand
<1>13. QED
  BY <1>1, <1>2, <1>3, <1>4, <1>5, <1>6, <1>7, <1>8, <1>9, <1>10, <1>11, <1>12
  DEF TransportNext, ReceiverStep, ControllerStep

(* The invariant holds throughout, whatever starts and stops there are.    *)
THEOREM TransportInvariance == TransportSpec => []TransportInv
<1>1. QED
  BY TransportInvInit, TransportInvStep, PTL DEF TransportSpec

-----------------------------------------------------------------------------
(* Type correctness of both ends and the queue between them.               *)
THEOREM TransportTypes == TransportSpec => []TransportTypeOK
<1>1. TransportInv => TransportTypeOK
  BY DEF TransportInv
<1>2. QED
  BY <1>1, TransportInvariance, PTL

(* However often either process restarts and however often sending is      *)
(* deferred, messages are queued in order and the receiver has had only    *)
(* older ones (trySendPending, IsNewerTransportMessage).                   *)
THEOREM MessagesInOrder == TransportSpec => []QueueInOrder
<1>1. TransportInv => QueueInOrder
  <2> SUFFICES ASSUME TransportInv PROVE QueueInOrder
    OBVIOUS
  <2>1. planQueue \in Seq(Message)
    BY DEF TransportInv, TransportTypeOK
  <2>2. Rising(OnTheWay) /\ \A m \in Past : AllAfter(OnTheWay, m)
    <3>1. CASE pendingLatest = NoMessage
      BY <3>1 DEF OnTheWay, TransportInv, QueueInv
    <3>2. CASE pendingLatest # NoMessage
      <4>1. pendingLatest \in Message
        BY <3>2 DEF TransportInv, TransportTypeOK, MaybeMessage
      <4>2. QED
        BY <2>1, <3>2, <4>1, AppendMessage
        DEF OnTheWay, TransportInv, QueueInv, PendingInv
    <3>3. QED
      BY <3>1, <3>2
  <2>3. Len(OnTheWay) \in Nat
    <3>1. OnTheWay \in Seq(Message)
      BY <2>1, AppendMessage DEF OnTheWay, TransportInv, TransportTypeOK, MaybeMessage
    <3>2. QED
      BY <3>1, LenProperties
  <2>4. \A i \in 1..Len(OnTheWay), j \in 1..Len(OnTheWay) :
          j < i => Newer(OnTheWay[i], OnTheWay[j])
    BY <2>2 DEF Rising
  <2>5. \A i \in 1..Len(OnTheWay), m \in Past : Newer(OnTheWay[i], m)
    BY <2>2 DEF AllAfter
  <2>6. Received \subseteq Past /\ (lastInstance # 0 => Position \in Past)
    BY DEF Past
  <2> SUFFICES ASSUME NEW i \in 1..Len(OnTheWay)
               PROVE  /\ \A j \in 1..(i - 1) : Newer(OnTheWay[i], OnTheWay[j])
                      /\ \A m \in Received : Newer(OnTheWay[i], m)
                      /\ lastInstance # 0 => Newer(OnTheWay[i], Position)
    BY DEF QueueInOrder
  <2>7. \A j \in 1..(i - 1) : j \in 1..Len(OnTheWay) /\ j < i
    BY <2>3
  <2>8. \A j \in 1..(i - 1) : Newer(OnTheWay[i], OnTheWay[j])
    BY <2>4, <2>7
  <2>9. QED
    BY <2>5, <2>6, <2>8
<1>2. QED
  BY <1>1, TransportInvariance, PTL

(* The newest message sent is queued, held, handed over or lost in a       *)
(* failure: no drain drops it (ReceiveAndProcessNewest).                   *)
THEOREM NewestIsKept == TransportSpec => []NewestKept
<1>1. TransportInv => NewestKept
  BY DEF TransportInv
<1>2. QED
  BY <1>1, TransportInvariance, PTL

(* The engine steps from the plan that waits or was sent last              *)
(* (publishTimingPlan replaces the pending message).                       *)
THEOREM EngineStaysInStep == TransportSpec => []EngineInStep
<1>1. TransportInv => EngineInStep
  BY DEF TransportInv
<1>2. QED
  BY <1>1, TransportInvariance, PTL

(* The controller refuses what it is handed for an emergency in both       *)
(* directions only, whatever engine, restarts and deferred sends made it.  *)
HandedAccepted ==
  handed # NoMessage /\ handed.plan.planId # 0 =>
    (ValidatePlan(handed.plan)
       <=> ~(handed.plan.emergencyNorthSouth /\ handed.plan.emergencyEastWest))

(* From snapshot to ReceivePlan: ValidatePlan of the controller accepts    *)
(* every plan handed over without an emergency in both directions.         *)
THEOREM HandedPlansAccepted == TransportSpec => []HandedAccepted
<1>1. TransportInv => HandedAccepted
  <2> SUFFICES ASSUME TransportInv, handed # NoMessage, handed.plan.planId # 0
               PROVE  ValidatePlan(handed.plan)
                        <=> ~(/\ handed.plan.emergencyNorthSouth
                              /\ handed.plan.emergencyEastWest)
    BY DEF HandedAccepted
  <2>1. handed.plan \in TimingPlan /\ Limited(handed.plan)
    BY MessageStamped
    DEF TransportInv, TransportTypeOK, MaybeMessage, PlansInv, Received
  <2>2. QED
    BY <2>1, LimitedIsValid
<1>2. QED
  BY <1>1, TransportInvariance, PTL

(* No message is handed over after a newer one, even by a controller that  *)
(* has been restarted.                                                     *)
THEOREM PlansHandedInOrder == TransportSpec => HandedInOrder
<1>1. TransportInv /\ [TransportNext]_transportVars =>
        [handed' # handed /\ handed # NoMessage => Newer(handed', handed)]_transportVars
  <2> SUFFICES ASSUME TransportInv, TransportNext, handed' # handed, handed # NoMessage
               PROVE  Newer(handed', handed)
    OBVIOUS
  <2>1. handed' = candidate /\ candidate # NoMessage
    BY DEF TransportNext, ReceiverStep, ControllerStep, receiverVars, OpenQueue,
           OpenFails, TestRunning, ReceiveMessage, ReceiveNothing, ReceiveFails,
           Hand, StartReceiver, StopReceiver, ControllerDies,
           TransportInv, CandidateInv
  <2>2. QED
    BY <2>1 DEF TransportInv, CandidateInv
<1>2. QED
  BY <1>1, TransportInvariance, PTL DEF TransportSpec, HandedInOrder

=============================================================================
