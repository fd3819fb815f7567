---------------------- MODULE SignalControllerProofs -----------------------
(***************************************************************************)
(* Proofs about SignalController, for every choice of its constants, and   *)
(* about SignalOutput, the controller with its output worker.              *)
(*                                                                         *)
(* The inductive invariant IInv of the core adds to the properties what    *)
(* ties the FSM's program counter to its phase, its countdown and the      *)
(* phase it has announced to the channel.                                  *)
(***************************************************************************)
EXTENDS SignalOutput, TLAPS

(* The phase the FSM announced before the one at index i.                  *)
PhaseBefore(i) ==
  CASE i \in {0, 3} -> ALL_RED
    [] i = 1 -> NS_GREEN
    [] i = 4 -> EW_GREEN
    [] OTHER -> YELLOW

(* The program counter and the FSM's fields agree.                         *)
PcAgrees ==
  /\ fsmPc \in {"load", "advance"} => remainingTime = 0
  /\ fsmPc \notin {"load", "advance"} => remainingTime # 0
  /\ fsmPc \in {"wait", "blocked"} => currentPhaseIndex \in {0, 3}
  /\ fsmPc = "sleep" => currentPhaseIndex \notin {0, 3}
  /\ fsmPc = "load" => currentPhaseIndex \in {2, 5}
  /\ fsmPc = "blocked" <=> waiter # "none"

(* The channel knows the FSM's phase, but for the announcing window.       *)
PhaseAnnounced ==
  currentPhase = IF fsmPc = "announce" THEN PhaseBefore(currentPhaseIndex)
                                       ELSE CurrentPhaseId

GroupAgrees == activeGroup = IF currentPhaseIndex \in {0, 1, 2}
                             THEN NORTH_SOUTH ELSE EAST_WEST

(* The plan may differ from that of the last green only on the way out of  *)
(* an all-red.                                                             *)
PlanOfGreen ==
  ~(fsmPc = "advance" /\ currentPhaseIndex \in {2, 5}) => currentPlan = greenPlan

EmergencySlot ==
  pendingEmergencyPlan # NoPlan => IsGreenPhase(bornIn) /\ bornIn = currentPhase

IInv ==
  /\ TypeOK
  /\ PlansLegal
  /\ PcAgrees
  /\ PhaseAnnounced
  /\ GroupAgrees
  /\ PlanOfGreen
  /\ EmergencySlot
  /\ NewestPlanKept

-----------------------------------------------------------------------------
(* Facts about the operators.                                              *)

(* A legal plan has its six phases in order, none of them empty. *)
LEMMA LegalOrder ==
  ASSUME NEW plan \in PlanData, LegalPhases(plan)
  PROVE  /\ plan.phases[0].phaseId = NS_GREEN
         /\ plan.phases[1].phaseId = YELLOW
         /\ plan.phases[2].phaseId = ALL_RED
         /\ plan.phases[3].phaseId = EW_GREEN
         /\ plan.phases[4].phaseId = YELLOW
         /\ plan.phases[5].phaseId = ALL_RED
         /\ \A i \in Index : plan.phases[i].duration \in Nat \ {0}
BY LimitsAssumption
   DEF LegalPhases, PlanData, Phase, Index, NS_GREEN, EW_GREEN, YELLOW, ALL_RED

(* The plan made from durations within the limits is legal: MakeDefaultPlan *)
(* and, after ValidatePlan, TranslatePlan.                                 *)
LEMMA SixPhasesLegal ==
  ASSUME NEW a \in kMinGreen..kMaxGreen, NEW b \in kMinGreen..kMaxGreen,
         NEW y \in kMinYellow..kMaxYellow, NEW r \in kMinAllRed..kMaxAllRed
  PROVE  /\ SixPhases(a, b, y, r) \in [Index -> Phase]
         /\ \A i \in Index : LET phase == SixPhases(a, b, y, r)[i] IN
              \/ /\ phase.phaseId = (IF i = 0 THEN NS_GREEN ELSE EW_GREEN)
                 /\ i \in {0, 3} /\ phase.duration \in kMinGreen..kMaxGreen
              \/ /\ phase.phaseId = YELLOW
                 /\ i \in {1, 4} /\ phase.duration \in kMinYellow..kMaxYellow
              \/ /\ phase.phaseId = ALL_RED
                 /\ i \in {2, 5} /\ phase.duration \in kMinAllRed..kMaxAllRed
<1>1. a \in Nat /\ b \in Nat /\ y \in Nat /\ r \in Nat
  BY LimitsAssumption
<1>2. ASSUME NEW i \in Index
      PROVE  SixPhases(a, b, y, r)[i] =
               CASE i = 0 -> [phaseId |-> NS_GREEN, duration |-> a]
                 [] i = 3 -> [phaseId |-> EW_GREEN, duration |-> b]
                 [] i \in {1, 4} -> [phaseId |-> YELLOW, duration |-> y]
                 [] OTHER -> [phaseId |-> ALL_RED, duration |-> r]
  BY DEF SixPhases
<1>3. ASSUME NEW i \in Index PROVE SixPhases(a, b, y, r)[i] \in Phase
  BY <1>1, <1>2 DEF Index, Phase, PhaseIds
<1>4. SixPhases(a, b, y, r) \in [Index -> Phase]
  BY <1>3 DEF SixPhases
<1>5. QED
  BY <1>2, <1>4 DEF Index

(* The plan of the start-up is legal.                                      *)
LEMMA DefaultPlanLegal ==
  MakeDefaultPlan \in PlanData /\ LegalPhases(MakeDefaultPlan)
BY SixPhasesLegal, StartupAssumption
   DEF MakeDefaultPlan, PlanData, LegalPhases

(* ReceivePlan publishes only legal plans, and no emergency with both      *)
(* directions.                                                             *)
LEMMA TranslatedPlanLegal ==
  ASSUME NEW p \in TimingPlan, ValidatePlan(p)
  PROVE  /\ TranslatePlan(p) \in PlanData
         /\ LegalPhases(TranslatePlan(p))
         /\ IsEmergencyPlan(TranslatePlan(p)) =>
              TranslatePlan(p).isEmergencyNS # TranslatePlan(p).isEmergencyEW
<1>1. /\ p.greenNorthSouth \in kMinGreen..kMaxGreen
      /\ p.greenEastWest \in kMinGreen..kMaxGreen
      /\ p.yellow \in kMinYellow..kMaxYellow
      /\ p.allRed \in kMinAllRed..kMaxAllRed
  BY DEF ValidatePlan
<1>2. /\ p.planId \in Nat
      /\ p.emergencyNorthSouth \in BOOLEAN
      /\ p.emergencyEastWest \in BOOLEAN
  BY DEF TimingPlan
<1>3. TranslatePlan(p) \in PlanData /\ LegalPhases(TranslatePlan(p))
  BY <1>1, <1>2, SixPhasesLegal DEF TranslatePlan, PlanData, LegalPhases
<1>4. QED
  BY <1>2, <1>3 DEF TranslatePlan, IsEmergencyPlan, ValidatePlan

(* A countdown is a natural number. *)
LEMMA CountdownType ==
  ASSUME NEW plan \in PlanData, NEW index \in Index, NEW remaining \in Nat,
         NEW group \in Groups, NEW g \in Groups
  PROVE  remainingForSignalGroup(plan, index, remaining, group, g) \in Nat
<1>1. ASSUME NEW k \in 1..5 PROVE PhaseAhead(plan, index, k).duration \in Nat
  <2>1. (index + k) % 6 \in Index
    BY DEF Index
  <2>2. QED
    BY <2>1 DEF PhaseAhead, PlanData, Phase
<1>2. QED
  BY <1>1 DEF remainingForSignalGroup

(* What is displayed is a lamp and a countdown for each direction.         *)
LEMMA DisplayType ==
  ASSUME TypeOK
  PROVE  DisplayNow \in SignalDisplay
<1>1. CurrentPhaseId \in PhaseIds
  BY DEF TypeOK, CurrentPhaseId, PhaseIdOf, PlanData, Phase
<1>2. ASSUME NEW g \in Groups
      PROVE  remainingForSignalGroup(currentPlan, currentPhaseIndex,
                                     remainingTime, activeGroup, g) \in Nat
  BY CountdownType DEF TypeOK
<1>3. QED
  BY <1>1, <1>2 DEF TypeOK, DisplayNow, SignalDisplay

(* The phase the FSM is in, from its index. *)
LEMMA PhaseOfIndex ==
  ASSUME TypeOK, PlansLegal
  PROVE  /\ currentPhaseIndex = 0 => CurrentPhaseId = NS_GREEN
         /\ currentPhaseIndex = 3 => CurrentPhaseId = EW_GREEN
         /\ currentPhaseIndex \in {1, 4} => CurrentPhaseId = YELLOW
         /\ currentPhaseIndex \in {2, 5} => CurrentPhaseId = ALL_RED
BY LegalOrder DEF TypeOK, PlansLegal, CurrentPhaseId, PhaseIdOf

-----------------------------------------------------------------------------
(* The invariant.                                                          *)

(* The invariant holds at the start.                                       *)
LEMMA InitIInv == Init => IInv
<1> SUFFICES ASSUME Init PROVE IInv
  OBVIOUS
<1> USE DEF Init, ChannelInit
<1>1. MakeDefaultPlan \in PlanData /\ LegalPhases(MakeDefaultPlan)
  BY DefaultPlanLegal
<1>2. /\ MakeDefaultPlan.phases[0].phaseId = NS_GREEN
      /\ MakeDefaultPlan.phases[0].duration \in Nat \ {0}
  BY <1>1, LegalOrder DEF Index
<1>3. TypeOK
  <2>1. currentPlan \in PlanData /\ currentPhaseIndex \in Index
        /\ remainingTime \in Nat /\ activeGroup \in Groups
    BY <1>1, <1>2 DEF Index, Groups
  <2>2. CurrentPhaseId \in PhaseIds
    BY <1>2 DEF CurrentPhaseId, PhaseIdOf, PhaseIds
  <2>3. DisplayNow \in SignalDisplay
    BY <2>1, <2>2, CountdownType DEF DisplayNow, SignalDisplay
  <2>4. QED
    BY <1>1, <2>1, <2>3 DEF TypeOK, ChannelTypeOK, PhaseIds
<1>4. PlansLegal
  BY <1>1 DEF PlansLegal
<1>5. PcAgrees
  BY <1>2 DEF PcAgrees
<1>6. PhaseAnnounced
  BY <1>2 DEF PhaseAnnounced, CurrentPhaseId, PhaseIdOf
<1>7. GroupAgrees /\ PlanOfGreen /\ EmergencySlot /\ NewestPlanKept
  BY DEF GroupAgrees, PlanOfGreen, EmergencySlot, NewestPlanKept
<1>8. QED
  BY <1>3, <1>4, <1>5, <1>6, <1>7 DEF IInv

(* The threads other than the FSM's, apart from the channel's operations,  *)
(* touch nothing the invariant speaks of but their own flags.              *)
LEMMA ElsewhereIInv ==
  ASSUME IInv, UNCHANGED <<channelVars, fsmVars, fsmPc, bornIn, greenPlan, newestNormal>>,
         display' \in SignalDisplay, disturbed' \in BOOLEAN,
         receiverPc' \in {"receiving", "failed", "done"},
         fsmRunning' \in BOOLEAN, planReceiverRunning' \in BOOLEAN,
         appPc' \in {"running", "joinReceiver", "requestShutdown", "joinFsm", "stopped"}
  PROVE  IInv'
<1> USE DEF channelVars, fsmVars
<1>1. TypeOK'
  BY DEF IInv, TypeOK, ChannelTypeOK
<1>2. PlansLegal' /\ PcAgrees'
  BY DEF IInv, PlansLegal, PcAgrees
<1>3. PhaseAnnounced' /\ GroupAgrees' /\ PlanOfGreen'
  BY DEF IInv, PhaseAnnounced, GroupAgrees, PlanOfGreen, CurrentPhaseId, PhaseIdOf
<1>4. EmergencySlot' /\ NewestPlanKept'
  BY DEF IInv, EmergencySlot, NewestPlanKept
<1>5. QED
  BY <1>1, <1>2, <1>3, <1>4 DEF IInv

(* Every step keeps the invariant, one step per action.                    *)
LEMMA StepIInv == IInv /\ [Next]_vars => IInv'
<1> SUFFICES ASSUME IInv, [Next]_vars PROVE IInv'
  OBVIOUS
<1> USE DEF IInv
<1>p. /\ currentPhaseIndex = 0 => CurrentPhaseId = NS_GREEN
      /\ currentPhaseIndex = 3 => CurrentPhaseId = EW_GREEN
      /\ currentPhaseIndex \in {1, 4} => CurrentPhaseId = YELLOW
      /\ currentPhaseIndex \in {2, 5} => CurrentPhaseId = ALL_RED
  BY PhaseOfIndex
<1>i. currentPhaseIndex \in {0, 1, 2, 3, 4, 5}
  BY DEF TypeOK, Index
<1> USE DEF TypeOK, ChannelTypeOK, PlansLegal, PcAgrees, PhaseAnnounced,
            GroupAgrees, PlanOfGreen, EmergencySlot, NewestPlanKept,
            channelVars, fsmVars, threadVars, historyVars, CurrentPhaseId, PhaseIdOf,
            NS_GREEN, EW_GREEN, YELLOW, ALL_RED, PhaseIds
<1>1. CASE FsmLoop
  BY <1>1
     DEF FsmLoop
<1>2. CASE FsmStartTick
  BY <1>2, <1>p, <1>i
     DEF FsmStartTick, SetCurrentPhase, IsGreenPhase
<1>3. CASE FsmBlock
  BY <1>3, <1>i
     DEF FsmBlock, BlockOnCondition
<1>4. CASE FsmWake
  BY <1>4, <1>i
     DEF FsmWake, LeaveCondition
<1>5. CASE FsmSpuriousWake
  BY <1>5, <1>i
     DEF FsmSpuriousWake, LeaveCondition
<1>6. CASE FsmTimeout
  BY <1>6, <1>i, <1>p, LimitsAssumption, InputAssumption
     DEF FsmTimeout, LeaveCondition, DecrementBy, AfterWait
<1>7. CASE FsmWaitAborted
  BY <1>7, <1>i, <1>p
     DEF FsmWaitAborted, AfterWait
<1>8. CASE FsmTakeEmergency
  <2>1. fsmPc = "wait" /\ remainingTime \in Nat \ {0} /\ kEmergencyGreen \in Nat \ {0}
    BY <1>8, LimitsAssumption DEF FsmTakeEmergency
  <2>2. fsmPc' = "wait" /\ remainingTime' \in Nat \ {0} /\ disturbed' \in BOOLEAN
    BY <1>8, <2>1 DEF FsmTakeEmergency
  <2>3. pendingEmergencyPlan' = NoPlan
    BY <1>8 DEF FsmTakeEmergency, ConsumeEmergency
  <2>4. UNCHANGED <<currentPhase, pendingNormalPlan, shutdownRequested, waiter, currentPlan,
                    currentPhaseIndex, activeGroup, display, threadVars, bornIn, greenPlan,
                    newestNormal>>
    BY <1>8 DEF FsmTakeEmergency, ConsumeEmergency
  <2>5. TypeOK'
    BY <2>2, <2>3, <2>4
  <2>6. PlansLegal' /\ GroupAgrees' /\ NewestPlanKept' /\ EmergencySlot'
    BY <2>3, <2>4
  <2>7. PcAgrees' /\ PhaseAnnounced' /\ PlanOfGreen'
    BY <2>1, <2>2, <2>4
  <2>8. QED
    BY <2>5, <2>6, <2>7
<1>9. CASE FsmSleep
  BY <1>9, <1>i, <1>p, LimitsAssumption, InputAssumption
     DEF FsmSleep, DecrementBy, AfterWait
<1>10. CASE FsmLoadPendingPlan
  <2>1. currentPlan' \in PlanData /\ LegalPhases(currentPlan')
    BY <1>10 DEF FsmLoadPendingPlan, ConsumePendingPlan
  <2>a. ChannelTypeOK'
    BY <1>10 DEF FsmLoadPendingPlan, ConsumePendingPlan
  <2>b. TypeOK'
    BY <1>10, <2>1, <2>a DEF FsmLoadPendingPlan
  <2>c. PlansLegal'
    BY <1>10, <2>1 DEF FsmLoadPendingPlan, ConsumePendingPlan
  <2>2. CurrentPhaseId = ALL_RED /\ CurrentPhaseId' = ALL_RED
    <3>1. currentPhaseIndex \in {2, 5} /\ currentPhaseIndex' = currentPhaseIndex
      BY <1>10 DEF FsmLoadPendingPlan
    <3>2. QED
      BY <1>p, <2>1, <3>1, LegalOrder
  <2>3. PcAgrees' /\ PhaseAnnounced' /\ GroupAgrees'
    BY <1>10, <2>2 DEF FsmLoadPendingPlan, ConsumePendingPlan
  <2>4. PlanOfGreen' /\ EmergencySlot' /\ NewestPlanKept'
    BY <1>10, <2>2 DEF FsmLoadPendingPlan, ConsumePendingPlan
  <2>5. QED
    BY <2>b, <2>c, <2>3, <2>4
<1>11. CASE FsmAdvancePhase
  <2>1. /\ currentPlan' = currentPlan
        /\ currentPhaseIndex' = (IF currentPhaseIndex = 5 THEN 0 ELSE currentPhaseIndex + 1)
        /\ remainingTime' = currentPlan.phases[currentPhaseIndex'].duration
        /\ fsmPc' = "announce"
    BY <1>11, <1>i DEF FsmAdvancePhase
  <2>2. /\ currentPlan.phases[0].phaseId = NS_GREEN
        /\ currentPlan.phases[1].phaseId = YELLOW
        /\ currentPlan.phases[2].phaseId = ALL_RED
        /\ currentPlan.phases[3].phaseId = EW_GREEN
        /\ currentPlan.phases[4].phaseId = YELLOW
        /\ currentPlan.phases[5].phaseId = ALL_RED
        /\ \A i \in Index : currentPlan.phases[i].duration \in Nat \ {0}
    BY LegalOrder
  <2>3. remainingTime' \in Nat \ {0} /\ currentPhaseIndex' \in Index
    BY <1>i, <2>1, <2>2 DEF Index
  <2>4. activeGroup' = (IF currentPhaseIndex' \in {0, 1, 2} THEN NORTH_SOUTH ELSE EAST_WEST)
    BY <1>11, <1>i, <2>1, <2>2 DEF FsmAdvancePhase, groupAfter
  <2>5. greenPlan' = (IF currentPhaseIndex' \in {0, 3} THEN currentPlan ELSE greenPlan)
    BY <1>11, <1>i, <2>1, <2>2 DEF FsmAdvancePhase, IsGreenPhase
  <2>6. TypeOK'
    BY <1>11, <2>1, <2>3, <2>4, <2>5 DEF FsmAdvancePhase, Groups
  <2>7. PlansLegal' /\ PcAgrees' /\ GroupAgrees'
    BY <1>11, <2>1, <2>3, <2>4 DEF FsmAdvancePhase
  <2>8. PhaseAnnounced'
    BY <1>11, <1>i, <1>p, <2>1 DEF FsmAdvancePhase, PhaseBefore
  <2>9. PlanOfGreen' /\ EmergencySlot' /\ NewestPlanKept'
    BY <1>11, <1>i, <2>1, <2>5 DEF FsmAdvancePhase
  <2>10. QED
    BY <2>6, <2>7, <2>8, <2>9
<1>12. CASE FsmAnnouncePhase
  BY <1>12, <1>i, <1>p
     DEF FsmAnnouncePhase, SetCurrentPhase, IsGreenPhase, PhaseBefore
<1>13. CASE FsmSubmit
  <2>1. display' \in SignalDisplay
    BY <1>13, DisplayType DEF FsmSubmit
  <2>a. ChannelTypeOK' /\ PlansLegal' /\ PcAgrees'
    BY <1>13 DEF FsmSubmit
  <2>2. TypeOK'
    BY <1>13, <2>1, <2>a DEF FsmSubmit
  <2>3. PhaseAnnounced' /\ GroupAgrees' /\ PlanOfGreen' /\ EmergencySlot' /\ NewestPlanKept'
    BY <1>13 DEF FsmSubmit
  <2>4. QED
    BY <2>a, <2>2, <2>3
<1>14. CASE \E p \in TimingPlans : ReceivePlan(p)
  BY <1>14, TranslatedPlanLegal, InputAssumption, NoPlanAssumption
     DEF ReceivePlan, PublishPlan, AcceptsEmergency, IsGreenPhase, Notified
<1>15. CASE ReceiverExit
  BY <1>15, ElsewhereIInv DEF ReceiverExit
<1>16. CASE ReceiverFail
  BY <1>16, ElsewhereIInv DEF ReceiverFail
<1>17. CASE StopPlanReceiver
  BY <1>17, ElsewhereIInv DEF StopPlanReceiver
<1>18. CASE JoinReceiverStopFsm
  BY <1>18, ElsewhereIInv DEF JoinReceiverStopFsm
<1>19. CASE AppRequestShutdown
  BY <1>19 DEF AppRequestShutdown, RequestShutdown, Notified
<1>20. CASE JoinFsm
  BY <1>20, ElsewhereIInv DEF JoinFsm
<1>21. CASE UNCHANGED vars
  BY <1>21, ElsewhereIInv DEF vars
<1>22. QED
  BY <1>1, <1>2, <1>3, <1>4, <1>5, <1>6, <1>7, <1>8, <1>9, <1>10, <1>11, <1>12,
     <1>13, <1>14, <1>15, <1>16, <1>17, <1>18, <1>19, <1>20, <1>21
     DEF Next, FsmThread, ReceiverThread, LifecycleThread, RejectPlan, Stopped
(* In every reachable state IInv holds. *)
THEOREM Invariance == Spec => []IInv
<1>1. Init => IInv
  BY InitIInv
<1>2. IInv /\ [Next]_vars => IInv'
  BY StepIInv
<1>3. QED
  BY <1>1, <1>2, PTL DEF Spec

-----------------------------------------------------------------------------
(* The theorems on safety.                                                 *)

(* Every variable keeps its type; in particular the countdown never goes   *)
(* below zero, however late a wake-up is.                                  *)
THEOREM TypeCorrect == Spec => []TypeOK
<1>1. IInv => TypeOK
  BY DEF IInv
<1>2. QED
  BY <1>1, Invariance, PTL

(* Whatever plans the transport delivers, the plan in force and the plans  *)
(* that wait run in order and within the limits of config.h.               *)
THEOREM PlansStayLegal == Spec => []PlansLegal
<1>1. IInv => PlansLegal
  BY DEF IInv
<1>2. QED
  BY <1>1, Invariance, PTL

(* An emergency the FSM may still act on belongs to the green that runs.   *)
THEOREM EmergencyBelongs == Spec => []EmergencyOfThisGreen
<1>1. IInv => EmergencyOfThisGreen
  BY DEF IInv, EmergencySlot, EmergencyOfThisGreen, PhaseAnnounced
<1>2. QED
  BY <1>1, Invariance, PTL

(* No accepted normal plan is lost but to a newer one.                     *)
THEOREM NewestPlanIsKept == Spec => []NewestPlanKept
<1>1. IInv => NewestPlanKept
  BY DEF IInv
<1>2. QED
  BY <1>1, Invariance, PTL

(* A green, its yellow and its all-red are timed by one plan.              *)
THEOREM OnePlanTimesAGreen == Spec => []OnePlanPerGreen
<1>1. IInv => OnePlanPerGreen
  BY DEF IInv, PlanOfGreen, OnePlanPerGreen
<1>2. QED
  BY <1>1, Invariance, PTL

(* Time is added to a running phase only by an emergency of its direction, *)
(* inside the window.                                                      *)
THEOREM OnlyEmergencyExtends == Spec => ExtendedOnlyByEmergency
<1> DEFINE Extends ==
      remainingTime' > remainingTime /\ currentPhaseIndex' = currentPhaseIndex =>
        /\ \/ CurrentPhaseId = NS_GREEN /\ pendingEmergencyPlan.isEmergencyNS
           \/ CurrentPhaseId = EW_GREEN /\ pendingEmergencyPlan.isEmergencyEW
        /\ kEmergencyLower < remainingTime /\ remainingTime < kEmergencyUpper
        /\ remainingTime' = kEmergencyGreen
<1>1. IInv /\ [Next]_vars => Extends
  <2> SUFFICES ASSUME IInv, [Next]_vars PROVE Extends
    OBVIOUS
  <2>1. remainingTime \in Nat /\ currentPhaseIndex \in Index
    BY DEF IInv, TypeOK
  <2>2. CASE FsmTakeEmergency
    BY <2>1, <2>2 DEF FsmTakeEmergency, EmergencyAcceptable
  <2>3. CASE FsmTimeout \/ FsmSleep
    <3>1. PICK late \in LateTicks : DecrementBy(late)
      BY <2>3 DEF FsmTimeout, FsmSleep
    <3>2. late \in Nat /\ TIMER_INTERVAL \in Nat
      BY InputAssumption, LimitsAssumption
    <3>3. (late + 1) * TIMER_INTERVAL \in Nat
      BY <3>2
    <3>4. QED
      BY <2>1, <3>1, <3>3 DEF DecrementBy
  <2>4. CASE FsmAdvancePhase
    BY <2>1, <2>4 DEF FsmAdvancePhase, Index
  <2>5. CASE UNCHANGED remainingTime
    BY <2>1, <2>5
  <2>6. QED
    BY <2>2, <2>3, <2>4, <2>5
       DEF Next, FsmThread, ReceiverThread, LifecycleThread, Stopped, vars, fsmVars,
           FsmLoop, FsmStartTick, FsmBlock, FsmWake, FsmSpuriousWake,
           FsmWaitAborted, FsmLoadPendingPlan, FsmAnnouncePhase, FsmSubmit,
           ReceivePlan, RejectPlan, ReceiverExit, ReceiverFail, StopPlanReceiver,
           JoinReceiverStopFsm, AppRequestShutdown, JoinFsm
<1>2. QED
  BY <1>1, Invariance, PTL DEF Spec, ExtendedOnlyByEmergency

-----------------------------------------------------------------------------
(* The lamps refine TrafficLights.                                         *)

LampsFor(phaseId, group) ==
  [g \in Groups |-> lampForPhase(phaseId, group, g)]

(* The phase and the moving group at an index, and those before it.        *)
PhaseAt(i) ==
  IF i = 0 THEN NS_GREEN ELSE IF i = 3 THEN EW_GREEN
  ELSE IF i \in {1, 4} THEN YELLOW ELSE ALL_RED
GroupAt(i)     == IF i \in {0, 1, 2} THEN NORTH_SOUTH ELSE EAST_WEST
GroupBefore(i) == IF i \in {1, 2, 3} THEN NORTH_SOUTH ELSE EAST_WEST

(* From the phase before an index to the phase at it, the lamps take a     *)
(* step of TrafficLights.                                                  *)
LEMMA LampStep ==
  ASSUME NEW i \in Index, NEW before, NEW after,
         before = LampsFor(PhaseBefore(i), GroupBefore(i)),
         after = LampsFor(PhaseAt(i), GroupAt(i))
  PROVE  LET g == GroupAt(i) IN
         \/ /\ before[g] = "GREEN"
            /\ after = [before EXCEPT ![g] = "YELLOW"] /\ GroupBefore(i) = g
         \/ /\ before[g] = "YELLOW"
            /\ after = [before EXCEPT ![g] = "RED"] /\ GroupBefore(i) = g
         \/ /\ \A h \in Groups : before[h] = "RED"
            /\ after = [before EXCEPT ![g] = "GREEN"] /\ GroupBefore(i) # g
<1> USE DEF LampsFor, lampForPhase, Groups, NORTH_SOUTH, EAST_WEST,
            NS_GREEN, EW_GREEN, YELLOW, ALL_RED,
            GroupBefore, PhaseBefore, PhaseAt, GroupAt
<1>0. i \in {0, 1, 2, 3, 4, 5}
  BY DEF Index
<1>1. CASE i = 0
  BY <1>1
<1>2. CASE i = 1
  BY <1>2
<1>3. CASE i = 2
  BY <1>3
<1>4. CASE i = 3
  BY <1>4
<1>5. CASE i = 4
  BY <1>5
<1>6. CASE i = 5
  BY <1>6
<1>7. QED
  BY <1>0, <1>1, <1>2, <1>3, <1>4, <1>5, <1>6

(* A legal plan has its phases in the order of the FSM.                    *)
LEMMA PhaseOrder ==
  ASSUME NEW plan \in PlanData, LegalPhases(plan), NEW i \in Index
  PROVE  PhaseIdOf(plan, i) = PhaseAt(i)
<1>1. i \in {0, 1, 2, 3, 4, 5}
  BY DEF Index
<1>2. QED
  BY <1>1, LegalOrder DEF PhaseIdOf, PhaseAt

(* Lights and ShownLights look at the same state through two windows.      *)
LEMMA LightsStart == Init => Lights!Init /\ ShownLights!Init
<1> SUFFICES ASSUME Init PROVE Lights!Init /\ ShownLights!Init
  OBVIOUS
<1>1. activeGroup = NORTH_SOUTH /\ CurrentPhaseId = NS_GREEN
  BY DefaultPlanLegal, LegalOrder DEF Init, CurrentPhaseId, PhaseIdOf
<1>2. display.activeGroup = NORTH_SOUTH /\ display.phaseId = NS_GREEN
  BY <1>1 DEF Init, DisplayNow
<1>3. NORTH_SOUTH \in Groups
  BY DEF Groups
<1>4. [g \in Groups |-> lampForPhase(NS_GREEN, NORTH_SOUTH, g)]
        = [h \in Groups |-> IF h = NORTH_SOUTH THEN "GREEN" ELSE "RED"]
  BY DEF lampForPhase, Groups, NORTH_SOUTH, EAST_WEST, NS_GREEN, YELLOW, ALL_RED, EW_GREEN
<1>5. QED
  BY <1>1, <1>2, <1>3, <1>4 DEF Lights!Init, ShownLights!Init

(* A step either leaves phase and group alone or goes on to the next ones. *)
LEMMA PhaseSteps ==
  ASSUME IInv, IInv', [Next]_vars
  PROVE  \/ UNCHANGED <<CurrentPhaseId, activeGroup>>
         \/ /\ fsmPc = "advance" /\ fsmPc' = "announce"
            /\ UNCHANGED display
            /\ CurrentPhaseId = PhaseBefore(currentPhaseIndex')
            /\ activeGroup = GroupBefore(currentPhaseIndex')
<1>1. /\ currentPhaseIndex \in Index /\ currentPhaseIndex' \in Index
      /\ CurrentPhaseId = PhaseAt(currentPhaseIndex)
      /\ CurrentPhaseId' = PhaseAt(currentPhaseIndex')
      /\ activeGroup = GroupAt(currentPhaseIndex)
      /\ activeGroup' = GroupAt(currentPhaseIndex')
  BY PhaseOrder DEF IInv, TypeOK, PlansLegal, GroupAgrees, GroupAt, CurrentPhaseId
<1>2. CASE FsmAdvancePhase
  <2>1. /\ currentPhaseIndex' = (currentPhaseIndex + 1) % 6
        /\ fsmPc = "advance" /\ fsmPc' = "announce" /\ UNCHANGED display
    BY <1>2 DEF FsmAdvancePhase
  <2>2. currentPhaseIndex \in {0, 1, 2, 3, 4, 5}
    BY <1>1 DEF Index
  <2>3. /\ PhaseAt(currentPhaseIndex) = PhaseBefore(currentPhaseIndex')
        /\ GroupAt(currentPhaseIndex) = GroupBefore(currentPhaseIndex')
    BY <2>1, <2>2 DEF PhaseBefore, GroupBefore, PhaseAt, GroupAt
  <2>4. QED
    BY <1>1, <2>1, <2>3
<1>3. CASE UNCHANGED currentPhaseIndex
  BY <1>1, <1>3
<1>4. QED
  BY <1>2, <1>3
     DEF Next, FsmThread, ReceiverThread, LifecycleThread, Stopped, vars, fsmVars,
         FsmLoop, FsmStartTick, FsmBlock, FsmWake, FsmSpuriousWake, FsmTimeout,
         FsmWaitAborted, FsmTakeEmergency, FsmSleep, FsmLoadPendingPlan,
         FsmAnnouncePhase, FsmSubmit, ReceivePlan, RejectPlan, ReceiverExit,
         ReceiverFail, StopPlanReceiver, JoinReceiverStopFsm, AppRequestShutdown, JoinFsm

(* The lamps of the FSM follow TrafficLights: never two greens, an all-red *)
(* between them, a yellow after each, and strictly in turn.                *)
THEOREM LightsRefine == Spec => LightsSpec
<1>1. IInv /\ IInv' /\ [Next]_vars
        => [Lights!Next]_<<[g \in Groups |-> lampForPhase(CurrentPhaseId, activeGroup, g)],
                           activeGroup>>
  <2> SUFFICES ASSUME IInv, IInv', [Next]_vars
               PROVE  [Lights!Next]_<<LampsFor(CurrentPhaseId, activeGroup), activeGroup>>
    BY DEF LampsFor
  <2>1. CASE UNCHANGED <<CurrentPhaseId, activeGroup>>
    BY <2>1 DEF LampsFor
  <2>2. CASE /\ CurrentPhaseId = PhaseBefore(currentPhaseIndex')
             /\ activeGroup = GroupBefore(currentPhaseIndex')
    <3>1. /\ currentPhaseIndex' \in Index
          /\ CurrentPhaseId' = PhaseAt(currentPhaseIndex')
          /\ activeGroup' = GroupAt(currentPhaseIndex')
      BY PhaseOrder DEF IInv, TypeOK, PlansLegal, GroupAgrees, GroupAt, CurrentPhaseId
    <3>2. activeGroup' \in Groups
      BY DEF IInv, TypeOK
    <3>3. LET g == activeGroup'
              before == LampsFor(CurrentPhaseId, activeGroup)
              after == LampsFor(CurrentPhaseId', activeGroup') IN
          \/ before[g] = "GREEN" /\ after = [before EXCEPT ![g] = "YELLOW"] /\ activeGroup = g
          \/ before[g] = "YELLOW" /\ after = [before EXCEPT ![g] = "RED"] /\ activeGroup = g
          \/ /\ \A h \in Groups : before[h] = "RED"
             /\ after = [before EXCEPT ![g] = "GREEN"] /\ activeGroup # g
      BY <2>2, <3>1, LampStep
    <3>4. QED
      BY <3>2, <3>3
         DEF LampsFor, Lights!Next, Lights!ToYellow, Lights!ToRed, Lights!ToGreen
  <2>3. QED
    BY <2>1, <2>2, PhaseSteps
<1>2. Init => Lights!Init
  BY LightsStart
<1>3. QED
  BY <1>1, <1>2, Invariance, PTL DEF Spec, LightsSpec, Lights!Spec

(* What was last shown is the FSM's phase or, from advancePhase to the     *)
(* next submit, the phase before it: the queue of displays skips nothing.  *)
ShownAgrees ==
  \/ display.phaseId = CurrentPhaseId /\ display.activeGroup = activeGroup
  \/ /\ fsmPc \in {"announce", "submit", "done"}
     /\ display.phaseId = PhaseBefore(currentPhaseIndex)
     /\ display.activeGroup = GroupBefore(currentPhaseIndex)

(* Before the first tick the display agrees with the FSM.                  *)
LEMMA ShownInit == Init => ShownAgrees
BY DEF Init, ShownAgrees, DisplayNow

(* Each step keeps the displays submitted in agreement with the FSM.       *)
LEMMA ShownStep == IInv /\ IInv' /\ ShownAgrees /\ [Next]_vars => ShownAgrees'
<1> SUFFICES ASSUME IInv, IInv', ShownAgrees, [Next]_vars PROVE ShownAgrees'
  OBVIOUS
<1>1. CASE FsmAdvancePhase
  <2>1. fsmPc = "advance" /\ fsmPc' = "announce" /\ UNCHANGED display
    BY <1>1 DEF FsmAdvancePhase
  <2>2. display.phaseId = CurrentPhaseId /\ display.activeGroup = activeGroup
    BY <2>1 DEF ShownAgrees
  <2>3. QED
    BY <2>1, <2>2, PhaseSteps DEF ShownAgrees
<1>2. CASE FsmAnnouncePhase \/ FsmSubmit
  <2>1. UNCHANGED <<currentPhaseIndex, currentPlan, activeGroup>>
    BY <1>2 DEF FsmAnnouncePhase, FsmSubmit, fsmVars
  <2>2. UNCHANGED CurrentPhaseId
    BY <2>1 DEF CurrentPhaseId, PhaseIdOf
  <2>3. CASE FsmAnnouncePhase
    BY <2>1, <2>2, <2>3 DEF FsmAnnouncePhase, ShownAgrees
  <2>4. CASE FsmSubmit
    BY <2>1, <2>2, <2>4 DEF FsmSubmit, ShownAgrees, DisplayNow
  <2>5. QED
    BY <1>2, <2>3, <2>4
<1>3. CASE UNCHANGED <<display, currentPhaseIndex>> /\ (fsmPc = fsmPc' \/ fsmPc \notin {"announce", "submit", "done"})
  <2>1. UNCHANGED <<CurrentPhaseId, activeGroup>>
    BY <1>3, PhaseOrder DEF IInv, TypeOK, PlansLegal, GroupAgrees, CurrentPhaseId
  <2>2. QED
    BY <1>3, <2>1 DEF ShownAgrees
<1>4. QED
  BY <1>1, <1>2, <1>3
     DEF Next, FsmThread, ReceiverThread, LifecycleThread, Stopped, vars, fsmVars,
         FsmLoop, FsmStartTick, FsmBlock, FsmWake, FsmSpuriousWake, FsmTimeout,
         FsmWaitAborted, FsmTakeEmergency, FsmSleep, FsmLoadPendingPlan,
         ReceivePlan, RejectPlan, ReceiverExit,
         ReceiverFail, StopPlanReceiver, JoinReceiverStopFsm, AppRequestShutdown, JoinFsm

(* The lamps of the displays submitted follow TrafficLights too: one phase *)
(* a submit at most, so none is missed between two of them.                *)
THEOREM ShownLightsRefine == Spec => ShownLightsSpec
<1>1. IInv /\ IInv' /\ ShownAgrees /\ [Next]_vars
        => [ShownLights!Next]_<<[g \in Groups |->
              lampForPhase(display.phaseId, display.activeGroup, g)], display.activeGroup>>
  <2> SUFFICES ASSUME IInv, IInv', ShownAgrees, [Next]_vars
               PROVE  [ShownLights!Next]_<<LampsFor(display.phaseId, display.activeGroup),
                                           display.activeGroup>>
    BY DEF LampsFor
  <2>1. CASE UNCHANGED <<display.phaseId, display.activeGroup>>
    BY <2>1 DEF LampsFor
  <2>2. CASE FsmSubmit /\ display' = DisplayNow
    <3>1. /\ currentPhaseIndex \in Index
          /\ CurrentPhaseId = PhaseAt(currentPhaseIndex)
          /\ activeGroup = GroupAt(currentPhaseIndex) /\ activeGroup \in Groups
      BY PhaseOrder DEF IInv, TypeOK, PlansLegal, GroupAgrees, GroupAt, CurrentPhaseId
    <3>2. display'.phaseId = CurrentPhaseId /\ display'.activeGroup = activeGroup
      BY <2>2 DEF DisplayNow
    <3>3. CASE /\ display.phaseId = PhaseBefore(currentPhaseIndex)
               /\ display.activeGroup = GroupBefore(currentPhaseIndex)
      <4>1. LET g == activeGroup
                before == LampsFor(display.phaseId, display.activeGroup)
                after == LampsFor(CurrentPhaseId, activeGroup) IN
            \/ /\ before[g] = "GREEN" /\ after = [before EXCEPT ![g] = "YELLOW"]
               /\ display.activeGroup = g
            \/ /\ before[g] = "YELLOW" /\ after = [before EXCEPT ![g] = "RED"]
               /\ display.activeGroup = g
            \/ /\ \A h \in Groups : before[h] = "RED"
               /\ after = [before EXCEPT ![g] = "GREEN"] /\ display.activeGroup # g
        BY <3>1, <3>3, LampStep
      <4>2. QED
        BY <3>1, <3>2, <4>1
           DEF LampsFor, ShownLights!Next, ShownLights!ToYellow, ShownLights!ToRed,
               ShownLights!ToGreen
    <3>4. QED
      BY <2>1, <3>2, <3>3 DEF ShownAgrees
  <2>3. QED
    BY <2>1, <2>2
       DEF Next, FsmThread, ReceiverThread, LifecycleThread, Stopped, vars,
           FsmLoop, FsmStartTick, FsmBlock, FsmWake, FsmSpuriousWake, FsmTimeout,
           FsmWaitAborted, FsmTakeEmergency, FsmSleep, FsmLoadPendingPlan,
           FsmAdvancePhase, FsmAnnouncePhase, FsmSubmit, ReceivePlan, RejectPlan,
           ReceiverExit, ReceiverFail, StopPlanReceiver, JoinReceiverStopFsm,
           AppRequestShutdown, JoinFsm
<1>2. Init => ShownLights!Init
  BY LightsStart
<1>3. Spec => []ShownAgrees
  BY ShownInit, ShownStep, Invariance, PTL DEF Spec
<1>4. QED
  BY <1>1, <1>2, <1>3, Invariance, PTL DEF Spec, ShownLightsSpec, ShownLights!Spec

(* The two directions are never both off red, neither in the FSM nor in    *)
(* what it shows (lampForPhase, groupAfter).                               *)
THEOREM NeverBothOpen == Spec => [](Lights!NoConflict /\ ShownLights!NoConflict)
<1>1. ASSUME NEW phase \in PhaseIds, NEW active,
             NEW g \in Groups, NEW h \in Groups, g # h
      PROVE  lampForPhase(phase, active, g) = "RED" \/ lampForPhase(phase, active, h) = "RED"
  BY <1>1 DEF lampForPhase, Groups, PhaseIds, NS_GREEN, EW_GREEN, YELLOW, ALL_RED,
              NORTH_SOUTH, EAST_WEST
<1>2. IInv => Lights!NoConflict /\ ShownLights!NoConflict
  <2> SUFFICES ASSUME IInv PROVE Lights!NoConflict /\ ShownLights!NoConflict
    OBVIOUS
  <2>1. CurrentPhaseId \in PhaseIds
    BY PhaseOrder DEF IInv, TypeOK, PlansLegal, CurrentPhaseId, PhaseAt, PhaseIds
  <2>2. display.phaseId \in PhaseIds
    BY DEF IInv, TypeOK, SignalDisplay
  <2>3. QED
    BY <1>1, <2>1, <2>2 DEF Lights!NoConflict, ShownLights!NoConflict
<1>3. QED
  BY <1>2, Invariance, PTL

-----------------------------------------------------------------------------
(***************************************************************************)
(* The output: the word in the mailbox stands for the whole display, for   *)
(* every legal plan.                                                       *)
(***************************************************************************)
(* The moving group k phases ahead. *)
LEMMA GroupAheadAt ==
  ASSUME NEW plan \in PlanData, LegalPhases(plan), NEW i \in Index, NEW k \in 0..5
  PROVE  GroupAhead(plan, i, GroupAt(i), k) = GroupAt((i + k) % 6)
<1> DEFINE At(j) == (i + j) % 6
           greens == {j \in 1..k : At(j) \in {0, 3}}
<1>1. ASSUME NEW j \in 0..5
      PROVE  At(j) \in Index /\ PhaseAhead(plan, i, j).phaseId = PhaseAt(At(j))
  <2>1. At(j) \in Index
    BY DEF Index
  <2>2. QED
    BY <2>1, PhaseOrder DEF PhaseAhead, PhaseIdOf
<1>2. {j \in 1..k : IsGreenPhase(PhaseAhead(plan, i, j).phaseId)} = greens
  <2>1. ASSUME NEW j \in 1..k
        PROVE  IsGreenPhase(PhaseAhead(plan, i, j).phaseId) <=> At(j) \in {0, 3}
    BY <1>1 DEF IsGreenPhase, PhaseAt, NS_GREEN, EW_GREEN, YELLOW, ALL_RED
  <2>2. QED
    BY <2>1
<1>3. CASE greens = {}
  <2>1. \A j \in 1..k : At(j) \notin {0, 3}
    BY <1>3
  <2>2. GroupAt(i) = GroupAt(At(k))
    BY <2>1 DEF GroupAt, Index
  <2>3. QED
    BY <1>2, <1>3, <2>2 DEF GroupAhead
<1>4. CASE greens # {}
  <2> DEFINE last == CHOOSE j \in greens : \A n \in greens : n <= j
  <2>1. \E j \in greens : \A n \in greens : n <= j
    BY <1>4
  <2>2. last \in greens /\ \A n \in greens : n <= last
    BY <2>1
  <2>3. groupAfter(PhaseAhead(plan, i, last).phaseId, GroupAt(i)) = GroupAt(At(last))
    BY <1>1, <2>2 DEF groupAfter, PhaseAt, GroupAt, NS_GREEN, EW_GREEN, YELLOW, ALL_RED
  <2>4. \A j \in 1..k : j > last => At(j) \notin {0, 3}
    BY <2>2
  <2> HIDE DEF last
  <2>5. GroupAt(At(last)) = GroupAt(At(k))
    BY <2>2, <2>4 DEF GroupAt, Index
  <2>6. QED
    BY <1>2, <1>4, <2>3, <2>5 DEF GroupAhead, last
<1>5. QED
  BY <1>3, <1>4

LampAt(i, g) == lampForPhase(PhaseAt(i), GroupAt(i), g)

(* The lamp so many phases ahead is the one at that position.              *)
LEMMA LampAheadAt ==
  ASSUME NEW plan \in PlanData, LegalPhases(plan), NEW i \in Index, NEW k \in 0..5,
         NEW g \in Groups
  PROVE  LampAhead(plan, i, GroupAt(i), g, k) = LampAt((i + k) % 6, g)
<1>1. (i + k) % 6 \in Index
  BY DEF Index
<1>2. PhaseAhead(plan, i, k).phaseId = PhaseAt((i + k) % 6)
  BY <1>1, PhaseOrder DEF PhaseAhead, PhaseIdOf
<1>3. QED
  BY <1>2, GroupAheadAt DEF LampAhead, LampAt

(* The countdown of each direction in each phase: what is left of the      *)
(* phase, and the phases in which its red goes on.                         *)
Countdown(plan, i, remaining, g) ==
  LET d(j) == plan.phases[j].duration IN
  remaining +
    (IF g = NORTH_SOUTH
     THEN IF i = 2 THEN d(3) + d(4) + d(5) ELSE IF i = 3 THEN d(4) + d(5)
          ELSE IF i = 4 THEN d(5) ELSE 0
     ELSE IF i = 5 THEN d(0) + d(1) + d(2) ELSE IF i = 0 THEN d(1) + d(2)
          ELSE IF i = 1 THEN d(2) ELSE 0)

(* The countdown the code sums up is the one of the table.                 *)
LEMMA CountdownTable ==
  ASSUME NEW plan \in PlanData, LegalPhases(plan), NEW i \in Index,
         NEW remaining \in Nat, NEW g \in Groups
  PROVE  remainingForSignalGroup(plan, i, remaining, GroupAt(i), g)
           = Countdown(plan, i, remaining, g)
<1> DEFINE lamp(k) == LampAhead(plan, i, GroupAt(i), g, k)
           at(k) == LampAt((i + k) % 6, g)
           part(k) == IF \A j \in 1..k : lamp(j) = lamp(0)
                      THEN PhaseAhead(plan, i, k).duration ELSE 0
           d(j) == plan.phases[j].duration
<1>1. \A k \in 0..5 : lamp(k) = at(k)
  BY LampAheadAt
<1>2. \A j \in Index : d(j) \in Nat
  BY LegalOrder
<1>3. /\ part(1) = IF at(1) = at(0) THEN d((i + 1) % 6) ELSE 0
      /\ part(2) = IF at(1) = at(0) /\ at(2) = at(0) THEN d((i + 2) % 6) ELSE 0
      /\ part(3) = IF at(1) = at(0) /\ at(2) = at(0) /\ at(3) = at(0)
                   THEN d((i + 3) % 6) ELSE 0
      /\ part(4) = IF at(1) = at(0) /\ at(2) = at(0) /\ at(3) = at(0) /\ at(4) = at(0)
                   THEN d((i + 4) % 6) ELSE 0
      /\ part(5) = IF /\ at(1) = at(0) /\ at(2) = at(0) /\ at(3) = at(0)
                      /\ at(4) = at(0) /\ at(5) = at(0)
                   THEN d((i + 5) % 6) ELSE 0
  <2>1. /\ part(1) = IF lamp(1) = lamp(0) THEN d((i + 1) % 6) ELSE 0
        /\ part(2) = IF lamp(1) = lamp(0) /\ lamp(2) = lamp(0) THEN d((i + 2) % 6) ELSE 0
        /\ part(3) = IF /\ lamp(1) = lamp(0) /\ lamp(2) = lamp(0) /\ lamp(3) = lamp(0)
                     THEN d((i + 3) % 6) ELSE 0
    <3> HIDE DEF lamp
    <3>1. \A k \in {1, 2, 3} :
            part(k) = IF \A j \in 1..k : lamp(j) = lamp(0) THEN d((i + k) % 6) ELSE 0
      BY DEF PhaseAhead
    <3>2. /\ 1..1 = {1} /\ 1..2 = {1, 2} /\ 1..3 = {1, 2, 3}
      OBVIOUS
    <3>3. QED
      BY <3>1, <3>2
  <2>2. /\ part(4) = IF /\ lamp(1) = lamp(0) /\ lamp(2) = lamp(0)
                        /\ lamp(3) = lamp(0) /\ lamp(4) = lamp(0)
                     THEN d((i + 4) % 6) ELSE 0
        /\ part(5) = IF /\ lamp(1) = lamp(0) /\ lamp(2) = lamp(0) /\ lamp(3) = lamp(0)
                        /\ lamp(4) = lamp(0) /\ lamp(5) = lamp(0)
                     THEN d((i + 5) % 6) ELSE 0
    <3> HIDE DEF lamp
    <3>1. \A k \in {4, 5} :
            part(k) = IF \A j \in 1..k : lamp(j) = lamp(0) THEN d((i + k) % 6) ELSE 0
      BY DEF PhaseAhead
    <3>2. /\ 1..4 = {1, 2, 3, 4} /\ 1..5 = {1, 2, 3, 4, 5}
      OBVIOUS
    <3>3. QED
      BY <3>1, <3>2
  <2> HIDE DEF part, lamp, at
  <2>3. QED
    BY <1>1, <2>1, <2>2
<1>4. remainingForSignalGroup(plan, i, remaining, GroupAt(i), g)
        = remaining + part(1) + part(2) + part(3) + part(4) + part(5)
  BY DEF remainingForSignalGroup
<1> HIDE DEF part, lamp
<1> USE DEF LampAt, lampForPhase, PhaseAt, GroupAt, Countdown, Groups, NORTH_SOUTH,
            EAST_WEST, NS_GREEN, EW_GREEN, YELLOW, ALL_RED
<1>5. i \in {0, 1, 2, 3, 4, 5}
  BY DEF Index
<1>6. d(0) \in Nat /\ d(1) \in Nat /\ d(2) \in Nat /\ d(3) \in Nat /\ d(4) \in Nat /\ d(5) \in Nat
  BY <1>2 DEF Index
<1>7. CASE i = 0
  <2>1. /\ (i + 1) % 6 = 1 /\ (i + 2) % 6 = 2 /\ (i + 3) % 6 = 3
        /\ (i + 4) % 6 = 4 /\ (i + 5) % 6 = 5 /\ (i + 0) % 6 = 0
    BY <1>7
  <2>2. /\ at(0) = LampAt(0, g) /\ at(1) = LampAt(1, g) /\ at(2) = LampAt(2, g)
        /\ at(3) = LampAt(3, g)
    BY <2>1
  <2> HIDE DEF at
  <2>3. CASE g = NORTH_SOUTH
    BY <1>3, <1>4, <1>6, <1>7, <2>1, <2>2, <2>3
  <2>4. CASE g = EAST_WEST
    BY <1>3, <1>4, <1>6, <1>7, <2>1, <2>2, <2>4
  <2>5. QED
    BY <2>3, <2>4
<1>8. CASE i = 1
  BY <1>3, <1>4, <1>6, <1>8
<1>9. CASE i = 2
  BY <1>3, <1>4, <1>6, <1>9
<1>10. CASE i = 3
  <2>1. /\ (i + 1) % 6 = 4 /\ (i + 2) % 6 = 5 /\ (i + 3) % 6 = 0
        /\ (i + 4) % 6 = 1 /\ (i + 5) % 6 = 2 /\ (i + 0) % 6 = 3
    BY <1>10
  <2>2. /\ at(0) = LampAt(3, g) /\ at(1) = LampAt(4, g) /\ at(2) = LampAt(5, g)
        /\ at(3) = LampAt(0, g)
    BY <2>1
  <2> HIDE DEF at
  <2>3. CASE g = NORTH_SOUTH
    BY <1>3, <1>4, <1>6, <1>10, <2>1, <2>2, <2>3
  <2>4. CASE g = EAST_WEST
    BY <1>3, <1>4, <1>6, <1>10, <2>1, <2>2, <2>4
  <2>5. QED
    BY <2>3, <2>4
<1>11. CASE i = 4
  BY <1>3, <1>4, <1>6, <1>11
<1>12. CASE i = 5
  BY <1>3, <1>4, <1>6, <1>12
<1>13. QED
  BY <1>5, <1>7, <1>8, <1>9, <1>10, <1>11, <1>12

-----------------------------------------------------------------------------
(* The countdown shown is the truth.                                       *)

(* The phase before the one at index i.                                    *)
IndexBefore(i) == IF i = 0 THEN 5 ELSE i - 1

(* The most that a tick takes from the countdown.                          *)
MaxElapsed == LargestElapsed * TIMER_INTERVAL

(* The display was made r before the end of the phase at index i.          *)
Shows(i, r) ==
  /\ display.phaseId = PhaseAt(i) /\ display.activeGroup = GroupAt(i)
  /\ \A g \in Groups : display.groupRemaining[g] = Countdown(currentPlan, i, r, g)

(* The phase of the display has ended, and the next one has all its time.  *)
Advanced ==
  /\ \E r \in 1..MaxElapsed : Shows(IndexBefore(currentPhaseIndex), r)
  /\ remainingTime = currentPlan.phases[currentPhaseIndex].duration

(* Where the tick is, and what it has taken from the countdown.            *)
CountdownTold ==
  /\ fsmPc \in {"loop", "tick", "wait", "blocked", "sleep"} =>
       Shows(currentPhaseIndex, remainingTime)
  /\ fsmPc \in {"load", "advance"} =>
       \E r \in 1..MaxElapsed : Shows(currentPhaseIndex, r)
  /\ fsmPc = "announce" => Advanced
  /\ fsmPc = "submit" =>
       \/ Advanced
       \/ \E r \in Nat : r > remainingTime /\ Shows(currentPhaseIndex, r)

(* A shutdown is requested only once the FSM has been told to end.         *)
EndsBeforeShutdown ==
  /\ fsmRunning => appPc \in {"running", "joinReceiver"}
  /\ shutdownRequested => ~fsmRunning

(* What the display told the road is still true, unless a plan or an       *)
(* emergency changed it.                                                   *)
HonestInv ==
  /\ EndsBeforeShutdown
  /\ ~disturbed /\ fsmRunning => CountdownTold

(* What a tick takes: something, and no more than MaxElapsed.              *)
LEMMA ElapsedBounded ==
  ASSUME LatenessBounded, NEW late \in LateTicks
  PROVE  MaxElapsed \in Nat /\ (late + 1) * TIMER_INTERVAL \in 1..MaxElapsed
<1>1. PICK n \in LateTicks : LargestElapsed = n + 1 /\ late <= n
  <2> DEFINE n == CHOOSE n \in LateTicks : \A m \in LateTicks : m <= n
  <2>1. n \in LateTicks /\ \A m \in LateTicks : m <= n
    BY DEF LatenessBounded
  <2>2. LargestElapsed = n + 1
    BY DEF LargestElapsed
  <2> HIDE DEF n
  <2> QED
    BY <2>1, <2>2
<1>2. late \in Nat /\ n \in Nat /\ TIMER_INTERVAL \in Nat \ {0}
  BY <1>1, InputAssumption, LimitsAssumption
<1>3. LargestElapsed \in Nat
  BY <1>1, <1>2
<1>4. /\ (late + 1) * TIMER_INTERVAL \in Nat /\ LargestElapsed * TIMER_INTERVAL \in Nat
      /\ (late + 1) * TIMER_INTERVAL <= LargestElapsed * TIMER_INTERVAL
      /\ (late + 1) * TIMER_INTERVAL >= 1
  BY <1>1, <1>2, <1>3
<1> QED
  BY <1>4 DEF MaxElapsed

(* What the FSM would show now.                                            *)
LEMMA DisplayIs ==
  ASSUME IInv
  PROVE  /\ DisplayNow.phaseId = PhaseAt(currentPhaseIndex)
         /\ DisplayNow.activeGroup = GroupAt(currentPhaseIndex)
         /\ \A g \in Groups : DisplayNow.groupRemaining[g]
              = Countdown(currentPlan, currentPhaseIndex, remainingTime, g)
<1>1. /\ currentPlan \in PlanData /\ LegalPhases(currentPlan) /\ currentPhaseIndex \in Index
      /\ remainingTime \in Nat /\ activeGroup = GroupAt(currentPhaseIndex)
  BY DEF IInv, TypeOK, PlansLegal, GroupAgrees, GroupAt
<1>2. CurrentPhaseId = PhaseAt(currentPhaseIndex)
  BY <1>1, PhaseOrder DEF CurrentPhaseId
<1> QED
  BY <1>1, <1>2, CountdownTable DEF DisplayNow

(* From the end of one phase to the begin of the next: a lamp that stays   *)
(* has the same countdown but for what was left of the phase, and one that *)
(* changes had only that.                                                  *)
LEMMA CountdownAcross ==
  ASSUME NEW plan \in PlanData, LegalPhases(plan), NEW i \in Index, NEW r \in Nat,
         NEW g \in Groups
  PROVE  LET p == IndexBefore(i)
             before == Countdown(plan, p, r, g)
             after == Countdown(plan, i, plan.phases[i].duration, g)
         IN  IF LampAt(i, g) = LampAt(p, g) THEN after = before - r ELSE before = r
<1> USE DEF LampAt, lampForPhase, PhaseAt, GroupAt, Countdown, Groups, NORTH_SOUTH,
            EAST_WEST, NS_GREEN, EW_GREEN, YELLOW, ALL_RED, IndexBefore
<1>1. /\ plan.phases[0].duration \in Nat /\ plan.phases[1].duration \in Nat
      /\ plan.phases[2].duration \in Nat /\ plan.phases[3].duration \in Nat
      /\ plan.phases[4].duration \in Nat /\ plan.phases[5].duration \in Nat
  BY LegalOrder DEF Index
<1>2. CASE i = 0
  BY <1>1, <1>2
<1>3. CASE i = 1
  BY <1>1, <1>3
<1>4. CASE i = 2
  BY <1>1, <1>4
<1>5. CASE i = 3
  BY <1>1, <1>5
<1>6. CASE i = 4
  BY <1>1, <1>6
<1>7. CASE i = 5
  BY <1>1, <1>7
<1> QED
  BY <1>2, <1>3, <1>4, <1>5, <1>6, <1>7 DEF Index

(* A countdown is what is left of the phase, and more.                     *)
LEMMA CountdownLinear ==
  ASSUME NEW plan \in PlanData, LegalPhases(plan), NEW i \in Index,
         NEW q \in Nat, NEW r \in Nat, q < r, NEW g \in Groups
  PROVE  Countdown(plan, i, q, g) < Countdown(plan, i, r, g)
<1>1. /\ plan.phases[0].duration \in Nat /\ plan.phases[1].duration \in Nat
      /\ plan.phases[2].duration \in Nat /\ plan.phases[3].duration \in Nat
      /\ plan.phases[4].duration \in Nat /\ plan.phases[5].duration \in Nat
  BY LegalOrder DEF Index
<1> QED
  BY <1>1 DEF Countdown

(* What is submitted falls while the lamp stays, and a lamp changes only   *)
(* when its countdown had run down.                                        *)
LEMMA SubmitHonest ==
  ASSUME IInv, HonestInv, LatenessBounded, fsmPc = "submit", fsmRunning, ~disturbed,
         NEW g \in Groups
  PROVE  IF LampShown(DisplayNow, g) = LampShown(display, g)
         THEN DisplayNow.groupRemaining[g] < display.groupRemaining[g]
         ELSE display.groupRemaining[g] <= LargestElapsed * TIMER_INTERVAL
<1> DEFINE i == currentPhaseIndex
           now == Countdown(currentPlan, i, remainingTime, g)
<1>1. /\ currentPlan \in PlanData /\ LegalPhases(currentPlan) /\ i \in Index
      /\ remainingTime \in Nat
  BY DEF IInv, TypeOK, PlansLegal
<1>2. DisplayNow.groupRemaining[g] = now /\ LampShown(DisplayNow, g) = LampAt(i, g)
  BY DisplayIs DEF LampShown, LampAt
<1>3. CASE \E r \in Nat : r > remainingTime /\ Shows(i, r)
  <2>1. PICK r \in Nat : r > remainingTime /\ Shows(i, r)
    BY <1>3
  <2>2. /\ display.groupRemaining[g] = Countdown(currentPlan, i, r, g)
        /\ LampShown(display, g) = LampAt(i, g)
    BY <2>1 DEF Shows, LampShown, LampAt
  <2>3. now < display.groupRemaining[g]
    BY <1>1, <2>1, <2>2, CountdownLinear
  <2> QED
    BY <1>2, <2>2, <2>3
<1>4. CASE Advanced
  <2>1. PICK r \in 1..MaxElapsed : Shows(IndexBefore(i), r)
    BY <1>4 DEF Advanced
  <2>2. MaxElapsed \in Nat
    BY ElapsedBounded DEF LatenessBounded
  <2>3. r \in Nat /\ r >= 1 /\ r <= MaxElapsed
    BY <2>1, <2>2
  <2>4. /\ display.groupRemaining[g] = Countdown(currentPlan, IndexBefore(i), r, g)
        /\ LampShown(display, g) = LampAt(IndexBefore(i), g)
    BY <2>1 DEF Shows, LampShown, LampAt
  <2>5. IF LampAt(i, g) = LampAt(IndexBefore(i), g)
        THEN now = display.groupRemaining[g] - r ELSE display.groupRemaining[g] = r
    BY <1>1, <1>4, <2>3, <2>4, CountdownAcross DEF Advanced
  <2>6. display.groupRemaining[g] \in Nat
    BY DEF IInv, TypeOK, SignalDisplay
  <2> HIDE DEF now
  <2> QED
    BY <1>2, <2>3, <2>4, <2>5, <2>6 DEF MaxElapsed
<1> QED
  BY <1>3, <1>4 DEF HonestInv, CountdownTold

(* At the start the display is that of the first phase.                    *)
LEMMA HonestInvInit == Init => HonestInv
<1> SUFFICES ASSUME Init PROVE HonestInv
  OBVIOUS
<1>1. IInv /\ display = DisplayNow /\ fsmPc = "loop"
  BY InitIInv DEF Init
<1>2. Shows(currentPhaseIndex, remainingTime)
  BY <1>1, DisplayIs DEF Shows
<1>3. CountdownTold
  BY <1>1, <1>2 DEF CountdownTold
<1>4. EndsBeforeShutdown
  BY DEF Init, ChannelInit, EndsBeforeShutdown
<1> QED
  BY <1>3, <1>4 DEF HonestInv

(* A shutdown is requested only after the FSM's flag is cleared.           *)
LEMMA EndsBeforeShutdownStep ==
  EndsBeforeShutdown /\ [Next]_vars => EndsBeforeShutdown'
<1> SUFFICES ASSUME EndsBeforeShutdown, [Next]_vars PROVE EndsBeforeShutdown'
  OBVIOUS
<1> USE DEF EndsBeforeShutdown
<1>1. CASE StopPlanReceiver
  BY <1>1 DEF StopPlanReceiver, channelVars
<1>2. CASE JoinReceiverStopFsm
  BY <1>2 DEF JoinReceiverStopFsm
<1>3. CASE AppRequestShutdown
  BY <1>3 DEF AppRequestShutdown
<1>4. CASE JoinFsm
  BY <1>4 DEF JoinFsm, channelVars
<1>5. CASE UNCHANGED <<fsmRunning, appPc, shutdownRequested>>
  BY <1>5
<1> QED
  BY <1>1, <1>2, <1>3, <1>4, <1>5
     DEF Next, FsmThread, ReceiverThread, LifecycleThread, Stopped, vars, fsmVars,
         channelVars, threadVars, FsmLoop, FsmStartTick, FsmBlock, FsmWake,
         FsmSpuriousWake, FsmTimeout, FsmWaitAborted, FsmTakeEmergency, FsmSleep,
         FsmLoadPendingPlan, FsmAdvancePhase, FsmAnnouncePhase, FsmSubmit,
         ReceivePlan, RejectPlan, ReceiverExit, ReceiverFail, SetCurrentPhase,
         BlockOnCondition, LeaveCondition, ConsumeEmergency, ConsumePendingPlan,
         PublishPlan

(* A tick takes something from the countdown, and all of it only when no   *)
(* more was left than a tick may take.                                     *)
LEMMA TickTold ==
  ASSUME LatenessBounded, IInv, CountdownTold, fsmPc \in {"blocked", "sleep"},
         NEW late \in LateTicks, DecrementBy(late), fsmPc' = AfterWait(remainingTime'),
         UNCHANGED <<currentPlan, currentPhaseIndex, display>>
  PROVE  CountdownTold'
<1> DEFINE elapsed == (late + 1) * TIMER_INTERVAL
<1>1. MaxElapsed \in Nat /\ elapsed \in 1..MaxElapsed
  BY ElapsedBounded
<1>2. /\ remainingTime \in Nat /\ remainingTime # 0
      /\ Shows(currentPhaseIndex, remainingTime)
  BY DEF IInv, TypeOK, PcAgrees, CountdownTold
<1>3. remainingTime' = IF remainingTime <= elapsed THEN 0 ELSE remainingTime - elapsed
  BY DEF DecrementBy
<1> HIDE DEF elapsed
<1>4. CASE remainingTime <= elapsed
  <2>1. remainingTime' = 0 /\ remainingTime \in 1..MaxElapsed
    BY <1>1, <1>2, <1>3, <1>4
  <2>2. fsmPc' \in {"load", "advance"}
    BY <2>1 DEF AfterWait
  <2>3. \E r \in 1..MaxElapsed : Shows(currentPhaseIndex, r)
    BY <1>2, <2>1
  <2>4. (\E r \in 1..MaxElapsed : Shows(currentPhaseIndex, r))'
    BY <2>3 DEF Shows, MaxElapsed, LargestElapsed
  <2> QED
    BY <2>2, <2>4 DEF CountdownTold
<1>5. CASE remainingTime > elapsed
  <2>1. remainingTime' # 0 /\ remainingTime > remainingTime'
    BY <1>1, <1>2, <1>3, <1>5
  <2>2. fsmPc' = "submit"
    BY <2>1 DEF AfterWait
  <2>3. (\E r \in Nat : r > remainingTime /\ Shows(currentPhaseIndex, r))'
    BY <1>2, <2>1 DEF Shows
  <2> QED
    BY <2>2, <2>3 DEF CountdownTold
<1> QED
  BY <1>1, <1>2, <1>4, <1>5

(* Every step keeps what the display told, one step per action.            *)
LEMMA HonestInvStep ==
  ASSUME LatenessBounded, IInv, HonestInv, [Next]_vars
  PROVE  HonestInv'
<1>1. EndsBeforeShutdown'
  BY EndsBeforeShutdownStep DEF HonestInv
<1> SUFFICES ASSUME ~disturbed', fsmRunning' PROVE CountdownTold'
  BY <1>1 DEF HonestInv
<1>2. fsmRunning
  BY DEF Next, FsmThread, ReceiverThread, LifecycleThread, Stopped, vars, threadVars,
         FsmLoop, FsmStartTick, FsmBlock, FsmWake, FsmSpuriousWake, FsmTimeout,
         FsmWaitAborted, FsmTakeEmergency, FsmSleep, FsmLoadPendingPlan, FsmAdvancePhase,
         FsmAnnouncePhase, FsmSubmit, ReceivePlan, RejectPlan, ReceiverExit, ReceiverFail,
         StopPlanReceiver, JoinReceiverStopFsm, AppRequestShutdown, JoinFsm
<1>3. ~shutdownRequested
  BY <1>2 DEF HonestInv, EndsBeforeShutdown
<1>4. ~disturbed => CountdownTold
  BY <1>2 DEF HonestInv
<1>5. CASE FsmSubmit
  <2>1. display' = DisplayNow /\ fsmPc' = "loop" /\ UNCHANGED fsmVars
    BY <1>2, <1>5 DEF FsmSubmit
  <2>2. Shows(currentPhaseIndex, remainingTime)'
    BY <2>1, DisplayIs DEF Shows, fsmVars
  <2> QED
    BY <2>1, <2>2 DEF CountdownTold
<1>6. CASE FsmTimeout \/ FsmSleep
  <2>1. /\ ~disturbed /\ fsmPc \in {"blocked", "sleep"}
        /\ fsmPc' = AfterWait(remainingTime')
        /\ UNCHANGED <<currentPlan, currentPhaseIndex, display>>
    BY <1>6 DEF FsmTimeout, FsmSleep, historyVars
  <2>2. PICK late \in LateTicks : DecrementBy(late)
    BY <1>6 DEF FsmTimeout, FsmSleep
  <2> QED
    BY <1>4, <2>1, <2>2, TickTold
<1>7. CASE FsmTakeEmergency
  <2>1. /\ ~disturbed /\ fsmPc = "wait" /\ UNCHANGED remainingTime
        /\ fsmPc' = IF remainingTime' # 0 THEN "wait" ELSE AfterWait(0)
        /\ UNCHANGED <<currentPlan, currentPhaseIndex, display>>
    BY <1>7 DEF FsmTakeEmergency
  <2>2. remainingTime # 0
    BY <2>1 DEF IInv, PcAgrees
  <2>3. fsmPc' = "wait" /\ Shows(currentPhaseIndex, remainingTime)
    BY <1>4, <2>1, <2>2 DEF CountdownTold
  <2>4. Shows(currentPhaseIndex, remainingTime)'
    BY <2>1, <2>3 DEF Shows
  <2> QED
    BY <2>3, <2>4 DEF CountdownTold
<1>8. CASE FsmAdvancePhase
  <2>1. /\ ~disturbed /\ fsmPc = "advance" /\ fsmPc' = "announce"
        /\ UNCHANGED <<currentPlan, display>>
        /\ currentPhaseIndex' = (currentPhaseIndex + 1) % 6
        /\ remainingTime' = currentPlan.phases[currentPhaseIndex'].duration
    BY <1>8 DEF FsmAdvancePhase
  <2>2. IndexBefore(currentPhaseIndex') = currentPhaseIndex
    BY <2>1 DEF IInv, TypeOK, Index, IndexBefore
  <2>3. \E r \in 1..MaxElapsed : Shows(currentPhaseIndex, r)
    BY <1>4, <2>1 DEF CountdownTold
  <2>4. Advanced'
    BY <2>1, <2>2, <2>3 DEF Advanced, Shows, IndexBefore, MaxElapsed, LargestElapsed
  <2> QED
    BY <2>1, <2>4 DEF CountdownTold
<1>9. CASE FsmWaitAborted
  BY <1>3, <1>9 DEF FsmWaitAborted
<1>10. CASE /\ UNCHANGED <<currentPlan, currentPhaseIndex, remainingTime, display, disturbed>>
            /\ \/ fsmPc' = fsmPc
               \/ /\ {fsmPc, fsmPc'} \subseteq {"loop", "tick", "wait", "blocked", "sleep"}
               \/ fsmPc = "load" /\ fsmPc' = "advance"
               \/ fsmPc = "announce" /\ fsmPc' = "submit"
  <2>1. CountdownTold /\ (Advanced => Advanced')
    BY <1>4, <1>10 DEF Advanced, Shows, IndexBefore, MaxElapsed, LargestElapsed
  <2>2. Shows(currentPhaseIndex, remainingTime) => Shows(currentPhaseIndex, remainingTime)'
    BY <1>10 DEF Shows
  <2>3. (\E r \in 1..MaxElapsed : Shows(currentPhaseIndex, r))
          => (\E r \in 1..MaxElapsed : Shows(currentPhaseIndex, r))'
    BY <1>10 DEF Shows, MaxElapsed, LargestElapsed
  <2>4. (\E r \in Nat : r > remainingTime /\ Shows(currentPhaseIndex, r))
          => (\E r \in Nat : r > remainingTime /\ Shows(currentPhaseIndex, r))'
    BY <1>10 DEF Shows
  <2> QED
    BY <1>10, <2>1, <2>2, <2>3, <2>4 DEF CountdownTold
<1>11. CASE FsmLoadPendingPlan
  <2>1. /\ UNCHANGED <<currentPlan, currentPhaseIndex, remainingTime, display, disturbed>>
        /\ fsmPc = "load" /\ fsmPc' = "advance"
    BY <1>11 DEF FsmLoadPendingPlan
  <2> QED
    BY <1>10, <2>1
<1>12. CASE FsmLoop \/ FsmStartTick \/ FsmBlock \/ FsmWake \/ FsmSpuriousWake
  <2>1. {fsmPc, fsmPc'} \subseteq {"loop", "tick", "wait", "blocked", "sleep"}
    BY <1>2, <1>12 DEF FsmLoop, FsmStartTick, FsmBlock, FsmWake, FsmSpuriousWake
  <2>2. UNCHANGED <<currentPlan, currentPhaseIndex, remainingTime, display, disturbed>>
    BY <1>12 DEF FsmLoop, FsmStartTick, FsmBlock, FsmWake, FsmSpuriousWake, fsmVars,
                 historyVars
  <2> QED
    BY <1>10, <2>1, <2>2
<1>13. CASE FsmAnnouncePhase
  BY <1>10, <1>13 DEF FsmAnnouncePhase, fsmVars, historyVars
<1>14. CASE ReceiverThread \/ LifecycleThread \/ Stopped \/ UNCHANGED vars
  <2>1. UNCHANGED <<currentPlan, currentPhaseIndex, remainingTime, display, disturbed, fsmPc>>
    BY <1>14 DEF ReceiverThread, LifecycleThread, Stopped, vars, fsmVars, historyVars,
                 ReceivePlan, RejectPlan, ReceiverExit, ReceiverFail, StopPlanReceiver,
                 JoinReceiverStopFsm, AppRequestShutdown, JoinFsm
  <2> QED
    BY <1>10, <2>1
<1> QED
  BY <1>5, <1>6, <1>7, <1>8, <1>9, <1>11, <1>12, <1>13, <1>14 DEF Next, FsmThread

(* The countdown shown for a direction is the truth, whatever the plans,   *)
(* the emergencies and the lateness of the wake-ups: as long as the        *)
(* lateness has a bound, which any run of the timer has.                   *)
THEOREM CountdownIsHonest ==
  ASSUME LatenessBounded
  PROVE  Spec => CountdownHonest
<1>1. Init => HonestInv
  BY HonestInvInit
<1>2. IInv /\ HonestInv /\ [Next]_vars => HonestInv'
  BY HonestInvStep
<1>3. /\ IInv /\ HonestInv /\ [Next]_vars
      => [ fsmPc = "submit" /\ fsmRunning /\ ~disturbed =>
             \A g \in Groups :
               IF LampShown(DisplayNow, g) = LampShown(display, g)
               THEN DisplayNow.groupRemaining[g] < display.groupRemaining[g]
               ELSE display.groupRemaining[g] <= LargestElapsed * TIMER_INTERVAL ]_vars
  BY SubmitHonest
<1> QED
  BY <1>1, <1>2, <1>3, Invariance, PTL DEF Spec, CountdownHonest

-----------------------------------------------------------------------------
(* The countdown of a phase never exceeds the limit of its kind.           *)

Limit(i) == IF i \in {0, 3} THEN kMaxGreen
            ELSE IF i \in {1, 4} THEN kMaxYellow ELSE kMaxAllRed

RemainingFits == remainingTime <= Limit(currentPhaseIndex)

(* A legal phase is no longer than its limit.                              *)
LEMMA DurationFits ==
  ASSUME NEW plan \in PlanData, LegalPhases(plan), NEW i \in Index
  PROVE  plan.phases[i].duration <= Limit(i)
BY LimitsAssumption DEF LegalPhases, Limit

(* No step makes the remaining time longer than the limit.                 *)
LEMMA RemainingStep == IInv /\ RemainingFits /\ [Next]_vars => RemainingFits'
<1> SUFFICES ASSUME IInv, RemainingFits, [Next]_vars PROVE RemainingFits'
  OBVIOUS
<1>1. remainingTime \in Nat /\ currentPhaseIndex \in Index
  BY DEF IInv, TypeOK
<1>2. Limit(currentPhaseIndex) \in Nat
  BY LimitsAssumption DEF Limit
<1>3. CASE FsmTakeEmergency
  <2>1. currentPhaseIndex \in {0, 3}
    BY <1>3 DEF IInv, PcAgrees, FsmTakeEmergency
  <2>2. UNCHANGED currentPhaseIndex
    BY <1>3 DEF FsmTakeEmergency
  <2>3. remainingTime' = kEmergencyGreen \/ remainingTime' = remainingTime
    BY <1>3 DEF FsmTakeEmergency
  <2>4. QED
    BY <2>1, <2>2, <2>3, MailboxAssumption DEF RemainingFits, Limit
<1>4. CASE FsmTimeout \/ FsmSleep
  <2>1. PICK late \in LateTicks : DecrementBy(late)
    BY <1>4 DEF FsmTimeout, FsmSleep
  <2>2. (late + 1) * TIMER_INTERVAL \in Nat
    BY InputAssumption, LimitsAssumption
  <2>3. remainingTime' <= remainingTime /\ remainingTime' \in Nat
    BY <1>1, <2>1, <2>2 DEF DecrementBy
  <2>4. UNCHANGED currentPhaseIndex
    BY <1>4 DEF FsmTimeout, FsmSleep
  <2>5. QED
    BY <1>1, <1>2, <2>3, <2>4 DEF RemainingFits
<1>5. CASE FsmAdvancePhase
  <2>1. currentPhaseIndex' \in Index
    BY <1>1, <1>5 DEF FsmAdvancePhase, Index
  <2>2. remainingTime' = currentPlan.phases[currentPhaseIndex'].duration
    BY <1>5 DEF FsmAdvancePhase
  <2>3. QED
    BY <2>1, <2>2, DurationFits DEF RemainingFits, IInv, TypeOK, PlansLegal
<1>6. CASE UNCHANGED <<remainingTime, currentPhaseIndex>>
  BY <1>6 DEF RemainingFits
<1>7. QED
  BY <1>3, <1>4, <1>5, <1>6
     DEF Next, FsmThread, ReceiverThread, LifecycleThread, Stopped, vars, fsmVars,
         FsmLoop, FsmStartTick, FsmBlock, FsmWake, FsmSpuriousWake,
         FsmWaitAborted, FsmLoadPendingPlan, FsmAnnouncePhase, FsmSubmit,
         ReceivePlan, RejectPlan, ReceiverExit, ReceiverFail, StopPlanReceiver,
         JoinReceiverStopFsm, AppRequestShutdown, JoinFsm

(* The remaining time fits its limit at the start.                         *)
LEMMA RemainingInit == Init => RemainingFits
<1> SUFFICES ASSUME Init PROVE RemainingFits
  OBVIOUS
<1>1. 0 \in Index
  BY DEF Index
<1>2. QED
  BY <1>1, DefaultPlanLegal, DurationFits DEF Init, RemainingFits

(* The word holds the whole display: no countdown is cut to its field, and *)
(* the countdown of the phase is the active direction's, in an all-red the *)
(* smaller of the two.                                                     *)
LEMMA DisplayRecovered ==
  ASSUME IInv, RemainingFits, NEW sequence
  PROVE  Unpacked(Packed(sequence, DisplayNow)) = DisplayNow
<1> DEFINE i == currentPhaseIndex
           shown(g) == Countdown(currentPlan, i, remainingTime, g)
           d(j) == currentPlan.phases[j].duration
<1>1. /\ i \in Index /\ remainingTime \in Nat
      /\ currentPlan \in PlanData /\ LegalPhases(currentPlan)
      /\ activeGroup = GroupAt(i) /\ CurrentPhaseId = PhaseAt(i)
  BY PhaseOrder DEF IInv, TypeOK, PlansLegal, GroupAgrees, GroupAt, CurrentPhaseId
<1>2. DisplayNow = [phaseId |-> PhaseAt(i), remainingTime |-> remainingTime,
                    activeGroup |-> GroupAt(i),
                    groupRemaining |-> [g \in Groups |-> shown(g)]]
  BY <1>1, CountdownTable DEF DisplayNow
<1>3. i \in {0, 1, 2, 3, 4, 5}
  BY <1>1 DEF Index
<1>4. /\ d(0) \in 1..kMaxGreen /\ d(3) \in 1..kMaxGreen
      /\ d(1) \in 1..kMaxYellow /\ d(4) \in 1..kMaxYellow
      /\ d(2) \in 1..kMaxAllRed /\ d(5) \in 1..kMaxAllRed
  <2>1. \A j \in Index : d(j) \in Nat \ {0} /\ d(j) <= Limit(j)
    BY <1>1, LegalOrder, DurationFits
  <2>2. QED
    BY <2>1, LimitsAssumption DEF Limit, Index
<1>5. remainingTime <= Limit(i)
  BY DEF RemainingFits
<1>6. kMaxGreen \in Nat /\ kMaxYellow \in Nat /\ kMaxAllRed \in Nat /\ kCountdownMask \in Nat
      /\ kMaxGreen + kMaxYellow + 2 * kMaxAllRed <= kCountdownMask
  BY LimitsAssumption, MailboxAssumption
<1> HIDE DEF i, d
<1>7. ASSUME NEW g \in Groups PROVE shown(g) \in 0..kCountdownMask
  <2>1. g = NORTH_SOUTH \/ g = EAST_WEST
    BY DEF Groups
  <2>2. QED
    BY <1>1, <1>3, <1>4, <1>5, <1>6, <2>1 DEF Countdown, Limit, d
<1>8. ASSUME NEW g \in Groups PROVE Narrow(shown(g)) = shown(g)
  BY <1>6, <1>7 DEF Narrow
<1>9. IF PhaseAt(i) = ALL_RED
      THEN Smaller(shown(NORTH_SOUTH), shown(EAST_WEST)) = remainingTime
      ELSE shown(GroupAt(i)) = remainingTime
  BY <1>1, <1>3, <1>4
     DEF Countdown, Smaller, PhaseAt, GroupAt, NORTH_SOUTH, EAST_WEST,
         NS_GREEN, EW_GREEN, YELLOW, ALL_RED, d
<1> HIDE DEF shown
<1>10. NORTH_SOUTH \in Groups /\ EAST_WEST \in Groups /\ GroupAt(i) \in Groups
  BY DEF Groups, GroupAt
<1>11. Packed(sequence, DisplayNow) =
         [sequence |-> sequence, phaseId |-> PhaseAt(i), activeGroup |-> GroupAt(i),
          groupRemaining |-> [g \in Groups |-> shown(g)]]
  BY <1>2, <1>8 DEF Packed
<1>12. QED
  BY <1>2, <1>9, <1>10, <1>11 DEF Unpacked

-----------------------------------------------------------------------------
(* The composition.                                                        *)

(* Every step of the composition is a step of the control core or leaves   *)
(* it alone, so what holds of Spec holds of OutSpec.                       *)
THEOREM CoreUnchanged == OutSpec => Spec
<1>1. OutInit => Init
  BY DEF OutInit
<1>2. [OutNext]_outVars => [Next]_vars
  BY DEF OutNext, outVars, TickStep, SubmitDisplay, FinishSubmit, WorkerStep,
         OtherThreads, StopOutput, AllStopped, Next, FsmThread
<1>3. QED
  BY <1>1, <1>2, PTL DEF OutSpec, Spec

(* Once anything was submitted, the word in the mailbox stands for it. *)
MailboxHolds == mailbox.sequence # 0 => Unpacked(mailbox) = display

(* Every step keeps in the mailbox the packed newest display.              *)
LEMMA MailboxStep ==
  IInv /\ RemainingFits /\ MailboxHolds /\ [OutNext]_outVars => MailboxHolds'
<1> SUFFICES ASSUME IInv, RemainingFits, MailboxHolds, [OutNext]_outVars
             PROVE  MailboxHolds'
  OBVIOUS
<1>1. CASE SubmitDisplay
  <2>1. mailbox' = Packed(NextSequence, DisplayNow) /\ display' = DisplayNow
    BY <1>1 DEF SubmitDisplay, SubmitStore, FsmSubmit
  <2>2. QED
    BY <2>1, DisplayRecovered DEF MailboxHolds
<1>2. CASE UNCHANGED <<mailbox, display>>
  BY <1>2 DEF MailboxHolds
<1>3. CASE TickStep
  BY <1>2, <1>3
     DEF TickStep, outputVars, submitVars, FsmThread,
         FsmLoop, FsmStartTick, FsmBlock, FsmWake, FsmSpuriousWake, FsmTimeout,
         FsmWaitAborted, FsmTakeEmergency, FsmSleep, FsmLoadPendingPlan,
         FsmAdvancePhase, FsmAnnouncePhase, FsmSubmit
<1>4. CASE OtherThreads
  BY <1>2, <1>4
     DEF OtherThreads, outputVars, submitVars, ReceiverThread, LifecycleThread, vars,
         ReceivePlan, RejectPlan, ReceiverExit, ReceiverFail, StopPlanReceiver,
         JoinReceiverStopFsm, AppRequestShutdown, JoinFsm
<1>5. CASE FinishSubmit \/ WorkerStep \/ StopOutput \/ AllStopped
  BY <1>2, <1>5
     DEF FinishSubmit, WorkerStep, StopOutput, AllStopped, outVars, vars, outputVars,
         submitVars, SubmitExchange, SubmitPost, OutputWorker, OutputLoop, OutputWait,
         OutputCheck, OutputClear, OutputLoad, ClearRunning, PostStop
<1>6. QED
  BY <1>1, <1>2, <1>3, <1>4, <1>5 DEF OutNext, outVars, vars, outputVars, submitVars

(* The mailbox holds the newest display throughout.                        *)
LEMMA MailboxInvariance == OutSpec => [](IInv /\ RemainingFits /\ MailboxHolds)
<1>1. OutInit => RemainingFits /\ MailboxHolds
  BY RemainingInit DEF OutInit, OutputInit, MailboxHolds
<1>2. OutSpec => [][Next]_vars
  BY CoreUnchanged, PTL DEF Spec
<1>3. OutSpec => []IInv
  BY CoreUnchanged, Invariance, PTL
<1>4. QED
  BY <1>1, <1>2, <1>3, RemainingStep, MailboxStep, PTL DEF OutSpec

(* What the output worker publishes is, to the millisecond and with the    *)
(* phase's own countdown rebuilt, the display the FSM submitted last.      *)
THEOREM PublishesNewest == OutSpec => PublishedIsNewest
<1>1. IInv /\ RemainingFits /\ MailboxHolds /\ [OutNext]_outVars
        => (published' # published => published' = display)
  <2> SUFFICES ASSUME MailboxHolds, [OutNext]_outVars, published' # published
               PROVE  published' = display
    OBVIOUS
  <2>1. OutputLoad
    BY DEF OutNext, TickStep, SubmitDisplay, FinishSubmit, WorkerStep, OtherThreads,
           StopOutput, AllStopped, outVars, outputVars, workerVars, SubmitStore,
           SubmitExchange, SubmitPost, OutputWorker, OutputLoop, OutputWait,
           OutputCheck, OutputClear, ClearRunning, PostStop
  <2>2. mailbox.sequence # 0 /\ published' = Unpacked(mailbox)
    BY <2>1 DEF OutputLoad
  <2>3. QED
    BY <2>2 DEF MailboxHolds
<1>2. QED
  BY <1>1, MailboxInvariance, PTL DEF OutSpec, PublishedIsNewest

-----------------------------------------------------------------------------
(* The wake-up protocol.  A raised flag has a token: about to be posted,   *)
(* counted by the semaphore, or taken by a worker that has yet to clear    *)
(* the flag.                                                               *)
FlagHasToken ==
  /\ notificationPending /\ submitPc # "post" /\ outputPc \in {"loop", "wait", "load"}
       => semaphore >= 1
  /\ outputPc = "clear" => notificationPending
  /\ outputRunning => (outputPc = "check" => notificationPending)
  /\ outputRunning /\ ~notificationPending => semaphore = 0
  /\ outputRunning /\ outputPc \in {"check", "clear"} => semaphore = 0
  /\ submitPc = "post" =>
       semaphore = 0 /\ notificationPending /\ outputPc \notin {"check", "clear"}
  /\ outputRunning => semaphore <= 1
  /\ stopPc = "post" => semaphore <= 1
  /\ semaphore \in 0..2

UnseenIsFlagged ==
  mailbox.sequence # lastSequence =>
    \/ notificationPending
    \/ submitPc = "exchange"
    \/ outputPc \in {"load", "done"}

Sequences ==
  /\ nextSequence \in Nat
  /\ mailbox.sequence = nextSequence
  /\ nextSequence = 0 => lastSequence = 0

StopsInOrder ==
  /\ submitPc # "idle" => fsmPc = "loop"
  /\ appPc = "stopped" => fsmPc = "done"
  /\ ~outputRunning => appPc = "stopped"
  /\ stopPc = "running" <=> outputRunning

WakeInv == FlagHasToken /\ UnseenIsFlagged /\ Sequences /\ StopsInOrder

(* The invariant of flag and semaphore holds at the start.                 *)
LEMMA WakeInit == OutInit => WakeInv
BY DEF OutInit, Init, OutputInit, WakeInv, FlagHasToken, UnseenIsFlagged, Sequences, StopsInOrder

(* Every access of the FSM or of the worker keeps it.                      *)
LEMMA WakeStep == WakeInv /\ [OutNext]_outVars => WakeInv'
<1> SUFFICES ASSUME WakeInv, [OutNext]_outVars PROVE WakeInv'
  OBVIOUS
<1> USE DEF WakeInv, FlagHasToken, UnseenIsFlagged, Sequences, StopsInOrder, outputVars,
            submitVars, workerVars
<1>1. CASE TickStep
  <2>1. UNCHANGED <<outputVars, stopPc, appPc>> /\ submitPc = "idle" /\ FsmThread
    BY <1>1
       DEF TickStep, FsmThread, threadVars, FsmLoop, FsmStartTick, FsmBlock, FsmWake,
           FsmSpuriousWake, FsmTimeout, FsmWaitAborted, FsmTakeEmergency, FsmSleep,
           FsmLoadPendingPlan, FsmAdvancePhase, FsmAnnouncePhase, FsmSubmit
  <2>2. fsmPc # "done"
    BY <2>1
       DEF FsmThread, FsmLoop, FsmStartTick, FsmBlock, FsmWake,
           FsmSpuriousWake, FsmTimeout, FsmWaitAborted, FsmTakeEmergency, FsmSleep,
           FsmLoadPendingPlan, FsmAdvancePhase, FsmAnnouncePhase, FsmSubmit
  <2>3. QED
    BY <2>1, <2>2
<1>2. CASE SubmitDisplay
  BY <1>2 DEF SubmitDisplay, SubmitStore, FsmSubmit, threadVars, NextSequence, Packed
<1>3. CASE FinishSubmit
  BY <1>3 DEF FinishSubmit, SubmitExchange, SubmitPost, vars, threadVars
<1>4. CASE WorkerStep
  <2>1. UNCHANGED <<stopPc, fsmPc, appPc>>
    BY <1>4 DEF WorkerStep, vars, threadVars
  <2>2. CASE OutputLoop
    BY <2>1, <2>2 DEF OutputLoop
  <2>3. CASE OutputWait
    BY <2>1, <2>3 DEF OutputWait
  <2>4. CASE OutputCheck
    BY <2>1, <2>4 DEF OutputCheck
  <2>5. CASE OutputClear
    BY <2>1, <2>5 DEF OutputClear
  <2>6. CASE OutputLoad
    BY <2>1, <2>6 DEF OutputLoad
  <2>7. QED
    BY <1>4, <2>2, <2>3, <2>4, <2>5, <2>6 DEF WorkerStep, OutputWorker
<1>5. CASE OtherThreads
  <2>1. UNCHANGED <<outputVars, stopPc, fsmPc>>
    BY <1>5
       DEF OtherThreads, ReceiverThread, LifecycleThread, vars, ReceivePlan, RejectPlan,
           ReceiverExit, ReceiverFail, StopPlanReceiver, JoinReceiverStopFsm,
           AppRequestShutdown, JoinFsm
  <2>2. appPc' = appPc \/ (appPc # "stopped" /\ (appPc' = "stopped" => fsmPc = "done"))
    BY <1>5
       DEF OtherThreads, ReceiverThread, LifecycleThread, vars, threadVars, ReceivePlan,
           RejectPlan, ReceiverExit, ReceiverFail, StopPlanReceiver, JoinReceiverStopFsm,
           AppRequestShutdown, JoinFsm
  <2>3. QED
    BY <2>1, <2>2
<1>6. CASE StopOutput
  <2>1. UNCHANGED <<fsmPc, appPc>> /\ appPc = "stopped"
    BY <1>6 DEF StopOutput, vars, threadVars
  <2>2. QED
    BY <1>6, <2>1 DEF StopOutput, ClearRunning, PostStop
<1>7. CASE UNCHANGED outVars
  BY <1>7 DEF outVars, vars, threadVars
<1>8. QED
  BY <1>1, <1>2, <1>3, <1>4, <1>5, <1>6, <1>7 DEF OutNext, AllStopped

(* It holds throughout.                                                    *)
LEMMA WakeInvariance == OutSpec => []WakeInv
BY WakeInit, WakeStep, PTL DEF OutSpec

(* No display is left in the mailbox unseen by a sleeping worker.          *)
THEOREM NoLostWakeUp == OutSpec => []NewestShown
<1>1. WakeInv => NewestShown
  BY DEF WakeInv, FlagHasToken, UnseenIsFlagged, NewestShown, Asleep
<1>2. QED
  BY <1>1, WakeInvariance, PTL

(* The semaphore never counts more than a wake-up and a stop, so sem_post  *)
(* cannot overflow it.                                                     *)
THEOREM SemaphoreNeverFull == OutSpec => [](semaphore <= 2)
<1>1. WakeInv => semaphore <= 2
  BY DEF WakeInv, FlagHasToken
<1>2. QED
  BY <1>1, WakeInvariance, PTL

=============================================================================
