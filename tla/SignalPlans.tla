---------------------------- MODULE SignalPlans ----------------------------
(***************************************************************************)
(* The plans of the Traffic Signal Controller and the pure functions on    *)
(* them: PlanReceiver::ValidatePlan and TranslatePlan (plan_receiver.cpp), *)
(* MakeDefaultPlan and the limits of common/config.h, and the lamp and     *)
(* countdown functions of signal_fsm_engine.cpp.                           *)
(*                                                                         *)
(* Durations are natural numbers in a unit the instance chooses.  Every    *)
(* plan of the program has six phases (MakeDefaultPlan and TranslatePlan   *)
(* are the only makers), so phaseCount is not kept: phases is a function   *)
(* on Index, and the code's tests of phaseCount and hasActivePlan_, which  *)
(* only a plan of another length could fail, are not repeated here.        *)
(***************************************************************************)
EXTENDS Integers

CONSTANTS
  TIMER_INTERVAL,                    (* TIMER_INTERVAL_MS                  *)
  kMinGreen, kMaxGreen,              (* accepted ranges, config.h 24-29    *)
  kMinYellow, kMaxYellow,
  kMinAllRed, kMaxAllRed,
  kEmergencyLower, kEmergencyUpper,  (* kEmergency*ThresholdMs             *)
  kEmergencyGreen,                   (* kEmergencyGreenDurationMs          *)
  kUint32Max,                        (* largest cycle the wire can carry   *)
  kStartupGreen, kStartupYellow, kStartupAllRed,
  NoPlan                             (* "nothing pending"                  *)

NORTH_SOUTH == "NORTH_SOUTH"
EAST_WEST   == "EAST_WEST"
Groups      == {NORTH_SOUTH, EAST_WEST}

NS_GREEN == "NS_GREEN"
YELLOW   == "YELLOW"
ALL_RED  == "ALL_RED"
EW_GREEN == "EW_GREEN"
PhaseIds == {NS_GREEN, YELLOW, ALL_RED, EW_GREEN}

Index == 0..5   \* MAX_PHASES = 6

(* TimingPlan of config.h: what the transport delivers.  The two           *)
(* timestamps only feed log lines and are left out.                        *)
TimingPlan ==
  [planId : Nat, greenNorthSouth : Nat, greenEastWest : Nat, yellow : Nat,
   allRed : Nat, cycleLength : Nat,
   emergencyNorthSouth : BOOLEAN, emergencyEastWest : BOOLEAN]

Phase == [phaseId : PhaseIds, duration : Nat]

(* PlanData of config.h: what the FSM runs.                                *)
PlanData ==
  [sourcePlanId : Nat, phases : [Index -> Phase],
   isEmergencyNS : BOOLEAN, isEmergencyEW : BOOLEAN]

ASSUME LimitsAssumption ==
  /\ TIMER_INTERVAL \in Nat \ {0}
  /\ kMinGreen  \in Nat \ {0} /\ kMaxGreen  \in Nat
  /\ kMinYellow \in Nat \ {0} /\ kMaxYellow \in Nat
  /\ kMinAllRed \in Nat \ {0} /\ kMaxAllRed \in Nat
  /\ kEmergencyLower \in Nat /\ kEmergencyUpper \in Nat
  /\ kEmergencyGreen \in Nat \ {0}
  /\ kUint32Max \in Nat

ASSUME StartupAssumption ==
  /\ kStartupGreen  \in kMinGreen..kMaxGreen
  /\ kStartupYellow \in kMinYellow..kMaxYellow
  /\ kStartupAllRed \in kMinAllRed..kMaxAllRed

ASSUME NoPlanAssumption == NoPlan \notin PlanData

(***************************************************************************)
(* Making plans.                                                           *)
(***************************************************************************)
SixPhases(greenNS, greenEW, yellow, allRed) ==
  [i \in Index |->
     CASE i = 0 -> [phaseId |-> NS_GREEN, duration |-> greenNS]
       [] i = 3 -> [phaseId |-> EW_GREEN, duration |-> greenEW]
       [] i \in {1, 4} -> [phaseId |-> YELLOW, duration |-> yellow]
       [] OTHER -> [phaseId |-> ALL_RED, duration |-> allRed]]

MakeDefaultPlan ==
  [sourcePlanId  |-> 0,
   phases        |-> SixPhases(kStartupGreen, kStartupGreen,
                               kStartupYellow, kStartupAllRed),
   isEmergencyNS |-> FALSE,
   isEmergencyEW |-> FALSE]

CycleOf(p) == p.greenNorthSouth + p.greenEastWest + 2 * p.yellow + 2 * p.allRed

ValidatePlan(p) ==
  /\ p.planId # 0
  /\ ~(p.emergencyNorthSouth /\ p.emergencyEastWest)
  /\ p.greenNorthSouth \in kMinGreen..kMaxGreen
  /\ p.greenEastWest \in kMinGreen..kMaxGreen
  /\ p.yellow \in kMinYellow..kMaxYellow
  /\ p.allRed \in kMinAllRed..kMaxAllRed
  /\ CycleOf(p) <= kUint32Max
  /\ p.cycleLength \in {0, CycleOf(p)}

TranslatePlan(p) ==
  [sourcePlanId  |-> p.planId,
   phases        |-> SixPhases(p.greenNorthSouth, p.greenEastWest,
                               p.yellow, p.allRed),
   isEmergencyNS |-> p.emergencyNorthSouth,
   isEmergencyEW |-> p.emergencyEastWest]

IsGreenPhase(phaseId) == phaseId \in {NS_GREEN, EW_GREEN}

IsEmergencyPlan(plan) == plan.isEmergencyNS \/ plan.isEmergencyEW

(***************************************************************************)
(* Lamps and countdowns of a signal group.                                 *)
(***************************************************************************)
lampForPhase(phaseId, phaseGroup, group) ==
  CASE phaseId = ALL_RED  -> "RED"
    [] phaseId = YELLOW   -> IF phaseGroup = group THEN "YELLOW" ELSE "RED"
    [] phaseId = NS_GREEN -> IF group = NORTH_SOUTH THEN "GREEN" ELSE "RED"
    [] phaseId = EW_GREEN -> IF group = EAST_WEST THEN "GREEN" ELSE "RED"

(* The group that is moving after a phase: only a green names a new one.   *)
groupAfter(phaseId, group) ==
  CASE phaseId = NS_GREEN -> NORTH_SOUTH
    [] phaseId = EW_GREEN -> EAST_WEST
    [] OTHER -> group

(* The lamp of a group k phases ahead: the group moving then is the one    *)
(* that the last green on the way names.                                   *)
PhaseAhead(plan, index, k) == plan.phases[(index + k) % 6]

GroupAhead(plan, index, activeGroup, k) ==
  LET greens == {j \in 1..k : IsGreenPhase(PhaseAhead(plan, index, j).phaseId)}
  IN IF greens = {} THEN activeGroup
     ELSE groupAfter(PhaseAhead(plan, index,
                       CHOOSE j \in greens : \A i \in greens : i <= j).phaseId,
                     activeGroup)

(* Mutant: the phases ahead are coloured for the group moving now.         *)
LampAheadMutant(plan, index, activeGroup, group, k) ==
  lampForPhase(PhaseAhead(plan, index, k).phaseId, activeGroup, group)

LampAhead(plan, index, activeGroup, group, k) ==
  lampForPhase(PhaseAhead(plan, index, k).phaseId,
               GroupAhead(plan, index, activeGroup, k), group)

(* remainingForSignalGroup: the time the lamp of a group keeps its colour, *)
(* i.e. the rest of this phase and every phase that follows it without a   *)
(* change of that lamp, at most once round the cycle.                      *)
remainingForSignalGroup(plan, index, remaining, activeGroup, group) ==
  LET lamp(k) == LampAhead(plan, index, activeGroup, group, k)
      part(k) == IF \A j \in 1..k : lamp(j) = lamp(0)
                 THEN PhaseAhead(plan, index, k).duration ELSE 0
  IN remaining + part(1) + part(2) + part(3) + part(4) + part(5)

=============================================================================
