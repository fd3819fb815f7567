-------------------------- MODULE SignalController -------------------------
(***************************************************************************)
(* The control core of the Traffic Signal Controller process: the FSM      *)
(* thread (RunFsmWorker and SignalFSMEngine), the plan receiver thread     *)
(* (PlanReceiver::ReceivePlan) and the lifecycle thread's shutdown         *)
(* sequence (SignalControlApplication::Run after its loop), meeting in     *)
(* PlanSyncChannel.                                                        *)
(*                                                                         *)
(* fsmPc splits processTick() at its critical sections:                    *)
(*   "loop"     the while test of RunFsmWorker                             *)
(*   "tick"     the start of processTick, before SetCurrentPhase           *)
(*   "wait"     WaitForEmergencyUntil holds the mutex and tests its loop   *)
(*   "blocked"  in pthread_cond_timedwait                                  *)
(*   "sleep"    in clock_nanosleep (yellow and all-red)                    *)
(*   "load"     an all-red has ended, before ConsumePendingPlan            *)
(*   "advance"  a phase has ended, before advancePhase                     *)
(*   "announce" in advancePhase, before its SetCurrentPhase                *)
(*   "submit"   processTick has returned                                   *)
(*   "done"     the thread has left its loop                               *)
(* Code between two critical sections touches only the FSM's own fields    *)
(* and is part of the step of the section before it.                       *)
(***************************************************************************)
EXTENDS PlanSyncChannel

CONSTANTS
  TimingPlans,   (* the plans the transport may deliver                    *)
  LateTicks      (* whole timer periods a wake-up may miss; bounds the run *)

ASSUME InputAssumption ==
  /\ TimingPlans \subseteq TimingPlan
  /\ LateTicks \subseteq Nat

VARIABLES
  currentPlan, currentPhaseIndex, remainingTime, activeGroup,  (* FSM      *)
  fsmPc,
  display,             (* the last SignalDisplay submitted                 *)
  receiverPc,          (* "receiving", "failed" or "done"                  *)
  fsmRunning, planReceiverRunning,
  appPc,               (* the lifecycle thread                             *)
  (* history, read by the properties only *)
  bornIn,              (* the phase in which the pending emergency arrived *)
  greenPlan,           (* the plan in force when the last green began      *)
  newestNormal,        (* the last normal plan accepted                    *)
  disturbed            (* a plan or an emergency changed the countdown     *)
                       (* since the last display                           *)

fsmVars     == <<currentPlan, currentPhaseIndex, remainingTime, activeGroup>>
threadVars  == <<receiverPc, fsmRunning, planReceiverRunning, appPc>>
historyVars == <<bornIn, greenPlan, newestNormal, disturbed>>
vars == <<channelVars, fsmVars, fsmPc, display, threadVars, historyVars>>

PhaseIdOf(plan, index) == plan.phases[index].phaseId
CurrentPhaseId == PhaseIdOf(currentPlan, currentPhaseIndex)

SignalDisplay ==
  [phaseId : PhaseIds, remainingTime : Nat, activeGroup : Groups,
   groupRemaining : [Groups -> Nat]]

(* Mutant: the group of a yellow is always North/South.                    *)
DisplayNowMutant ==
  [phaseId        |-> CurrentPhaseId,
   remainingTime  |-> remainingTime,
   activeGroup    |-> NORTH_SOUTH,
   groupRemaining |-> [g \in Groups |->
     remainingForSignalGroup(currentPlan, currentPhaseIndex, remainingTime,
                             activeGroup, g)]]

(* The display processTick returns.                                        *)
DisplayNow ==
  [phaseId        |-> CurrentPhaseId,
   remainingTime  |-> remainingTime,
   activeGroup    |-> activeGroup,
   groupRemaining |-> [g \in Groups |->
     remainingForSignalGroup(currentPlan, currentPhaseIndex, remainingTime,
                             activeGroup, g)]]

Init ==
  /\ ChannelInit
  /\ currentPlan = MakeDefaultPlan
  /\ currentPhaseIndex = 0
  /\ remainingTime = MakeDefaultPlan.phases[0].duration
  /\ activeGroup = NORTH_SOUTH
  /\ fsmPc = "loop"
  /\ display = DisplayNow
  /\ receiverPc = "receiving"
  /\ fsmRunning = TRUE
  /\ planReceiverRunning = TRUE
  /\ appPc = "running"
  /\ bornIn = NS_GREEN
  /\ greenPlan = MakeDefaultPlan
  /\ newestNormal = MakeDefaultPlan
  /\ disturbed = FALSE

-----------------------------------------------------------------------------
(* The FSM thread.                                                         *)

(* Mutant: a plan may also be loaded at the end of a yellow.               *)
AfterWaitMutant(remaining) ==
  IF remaining # 0 THEN "submit"
  ELSE IF ~IsGreenPhase(CurrentPhaseId) THEN "load" ELSE "advance"

(* Where processTick goes once the wait of this tick is over.              *)
AfterWait(remaining) ==
  IF remaining # 0 THEN "submit"
  ELSE IF CurrentPhaseId = ALL_RED THEN "load" ELSE "advance"

FsmLoop ==
  /\ fsmPc = "loop"
  /\ fsmPc' = IF fsmRunning THEN "tick" ELSE "done"
  /\ UNCHANGED <<channelVars, fsmVars, display, threadVars, historyVars>>

FsmStartTick ==
  /\ fsmPc = "tick"
  /\ SetCurrentPhase(CurrentPhaseId)
  /\ fsmPc' = IF IsGreenPhase(CurrentPhaseId) THEN "wait" ELSE "sleep"
  /\ UNCHANGED <<fsmVars, display, threadVars, historyVars>>

FsmBlock ==
  /\ fsmPc = "wait"
  /\ BlockOnCondition
  /\ fsmPc' = "blocked"
  /\ UNCHANGED <<fsmVars, display, threadVars, historyVars>>

(* timedwait returns 0: the loop test runs again under the same deadline.  *)
FsmWake ==
  /\ fsmPc = "blocked"
  /\ waiter = "signalled"
  /\ LeaveCondition
  /\ fsmPc' = "wait"
  /\ UNCHANGED <<fsmVars, display, threadVars, historyVars>>

FsmSpuriousWake ==
  /\ fsmPc = "blocked"
  /\ waiter = "blocked"
  /\ LeaveCondition
  /\ fsmPc' = "wait"
  /\ UNCHANGED <<fsmVars, display, threadVars, historyVars>>

(* Mutant: the tick that has just ended is not counted.                    *)
DecrementByMissedMutant(late) ==
  LET elapsed == late * TIMER_INTERVAL IN
  remainingTime' = IF remainingTime <= elapsed THEN 0 ELSE remainingTime - elapsed

(* decrementRemainingTimeBy(elapsedMillisecondsFromLatency(...)): the tick *)
(* that ended and the whole periods the wake-up was late.                  *)
DecrementBy(late) ==
  LET elapsed == (late + 1) * TIMER_INTERVAL IN
  remainingTime' = IF remainingTime <= elapsed THEN 0 ELSE remainingTime - elapsed

(* timedwait returns ETIMEDOUT: an emergency or a shutdown that arrived    *)
(* between the deadline and the mutex is left where it is.                 *)
FsmTimeout ==
  /\ fsmPc = "blocked"
  /\ LeaveCondition
  /\ \E late \in LateTicks : DecrementBy(late)
  /\ fsmPc' = AfterWait(remainingTime')
  /\ UNCHANGED <<currentPlan, currentPhaseIndex, activeGroup, display,
                 threadVars, historyVars>>

(* WaitForEmergencyUntil returns ERROR: the tick does not count.           *)
FsmWaitAborted ==
  /\ fsmPc = "wait"
  /\ shutdownRequested
  /\ fsmPc' = AfterWait(remainingTime)
  /\ UNCHANGED <<channelVars, fsmVars, display, threadVars, historyVars>>

(* evaluateEmergencyPlan = ACCEPTED                                        *)
EmergencyAcceptable(plan) ==
  /\ plan.isEmergencyNS # plan.isEmergencyEW
  /\ remainingTime < kEmergencyUpper
  /\ remainingTime > kEmergencyLower
  /\ \/ CurrentPhaseId = NS_GREEN /\ plan.isEmergencyNS
     \/ CurrentPhaseId = EW_GREEN /\ plan.isEmergencyEW

(* processGreenPhase with EMERGENCY_AVAILABLE: evaluate, apply, and wait   *)
(* again for the rest of the same tick.                                    *)
FsmTakeEmergency ==
  /\ fsmPc = "wait"
  /\ ConsumeEmergency
  /\ IF EmergencyAcceptable(pendingEmergencyPlan)
     THEN remainingTime' = kEmergencyGreen /\ disturbed' = TRUE
     ELSE UNCHANGED <<remainingTime, disturbed>>
  /\ fsmPc' = IF remainingTime' # 0 THEN "wait" ELSE AfterWait(0)
  /\ UNCHANGED <<currentPlan, currentPhaseIndex, activeGroup, display,
                 threadVars, bornIn, greenPlan, newestNormal>>

FsmSleep ==
  /\ fsmPc = "sleep"
  /\ \E late \in LateTicks : DecrementBy(late)
  /\ fsmPc' = AfterWait(remainingTime')
  /\ UNCHANGED <<channelVars, currentPlan, currentPhaseIndex, activeGroup,
                 display, threadVars, historyVars>>

(* loadPendingPlan at the end of an all-red; the index stays.              *)
FsmLoadPendingPlan ==
  /\ fsmPc = "load"
  /\ \/ /\ ConsumePendingPlan
        /\ currentPlan' = pendingNormalPlan
        /\ disturbed' = TRUE
     \/ /\ pendingNormalPlan = NoPlan
        /\ UNCHANGED <<channelVars, currentPlan, disturbed>>
  /\ fsmPc' = "advance"
  /\ UNCHANGED <<currentPhaseIndex, remainingTime, activeGroup, display,
                 threadVars, bornIn, greenPlan, newestNormal>>

FsmAdvancePhase ==
  LET next == (currentPhaseIndex + 1) % 6
      id   == PhaseIdOf(currentPlan, next) IN
  /\ fsmPc = "advance"
  /\ currentPhaseIndex' = next
  /\ remainingTime' = currentPlan.phases[next].duration
  /\ activeGroup' = groupAfter(id, activeGroup)
  /\ greenPlan' = IF IsGreenPhase(id) THEN currentPlan ELSE greenPlan
  /\ fsmPc' = "announce"
  /\ UNCHANGED <<channelVars, currentPlan, display, threadVars, bornIn,
                 newestNormal, disturbed>>

FsmAnnouncePhase ==
  /\ fsmPc = "announce"
  /\ SetCurrentPhase(CurrentPhaseId)
  /\ fsmPc' = "submit"
  /\ UNCHANGED <<fsmVars, display, threadVars, historyVars>>

FsmSubmit ==
  /\ fsmPc = "submit"
  /\ IF fsmRunning
     THEN /\ display' = DisplayNow
          /\ disturbed' = FALSE
          /\ fsmPc' = "loop"
     ELSE /\ fsmPc' = "done"
          /\ UNCHANGED <<display, disturbed>>
  /\ UNCHANGED <<channelVars, fsmVars, threadVars, bornIn, greenPlan,
                 newestNormal>>

-----------------------------------------------------------------------------
(* The plan receiver thread.                                               *)

(* ReceivePlan: validate, translate, publish.                              *)
ReceivePlan(p) ==
  LET plan == TranslatePlan(p) IN
  /\ receiverPc = "receiving"
  /\ ValidatePlan(p)
  /\ PublishPlan(plan)
  /\ bornIn' = IF IsEmergencyPlan(plan) /\ AcceptsEmergency
               THEN currentPhase ELSE bornIn
  /\ newestNormal' = IF IsEmergencyPlan(plan) THEN newestNormal ELSE plan
  /\ UNCHANGED <<fsmVars, fsmPc, display, threadVars, greenPlan, disturbed>>

RejectPlan(p) ==
  /\ receiverPc = "receiving"
  /\ ~ValidatePlan(p)
  /\ UNCHANGED vars

(* The loop of MqTimingPlanReceiverWorker::Run sees its flag cleared.      *)
ReceiverExit ==
  /\ receiverPc = "receiving"
  /\ ~planReceiverRunning
  /\ receiverPc' = "done"
  /\ UNCHANGED <<channelVars, fsmVars, fsmPc, display, fsmRunning,
                 planReceiverRunning, appPc, historyVars>>

(* Run returned false (a queue it cannot use): planReceiverFailed_.        *)
ReceiverFail ==
  /\ receiverPc = "receiving"
  /\ receiverPc' = "failed"
  /\ UNCHANGED <<channelVars, fsmVars, fsmPc, display, fsmRunning,
                 planReceiverRunning, appPc, historyVars>>

-----------------------------------------------------------------------------
(* The lifecycle thread: StopPlanReceiverWorker, then StopFsmWorker.       *)

(* The control loop ends: on a stop request, or because a cycle has found  *)
(* that the receiver failed.                                               *)
StopPlanReceiver ==
  /\ appPc = "running"
  /\ planReceiverRunning' = FALSE
  /\ appPc' = "joinReceiver"
  /\ UNCHANGED <<channelVars, fsmVars, fsmPc, display, receiverPc, fsmRunning,
                 historyVars>>

JoinReceiverStopFsm ==
  /\ appPc = "joinReceiver"
  /\ receiverPc \in {"failed", "done"}
  /\ fsmRunning' = FALSE
  /\ appPc' = "requestShutdown"
  /\ UNCHANGED <<channelVars, fsmVars, fsmPc, display, receiverPc,
                 planReceiverRunning, historyVars>>

AppRequestShutdown ==
  /\ appPc = "requestShutdown"
  /\ RequestShutdown
  /\ appPc' = "joinFsm"
  /\ UNCHANGED <<fsmVars, fsmPc, display, receiverPc, fsmRunning,
                 planReceiverRunning, historyVars>>

JoinFsm ==
  /\ appPc = "joinFsm"
  /\ fsmPc = "done"
  /\ appPc' = "stopped"
  /\ UNCHANGED <<channelVars, fsmVars, fsmPc, display, receiverPc, fsmRunning,
                 planReceiverRunning, historyVars>>

(* A stopped process takes no more steps.                                  *)
Stopped == appPc = "stopped" /\ UNCHANGED vars

-----------------------------------------------------------------------------
FsmThread ==
  \/ FsmLoop \/ FsmStartTick \/ FsmBlock \/ FsmWake \/ FsmSpuriousWake
  \/ FsmTimeout \/ FsmWaitAborted \/ FsmTakeEmergency \/ FsmSleep
  \/ FsmLoadPendingPlan \/ FsmAdvancePhase \/ FsmAnnouncePhase \/ FsmSubmit

ReceiverThread ==
  ReceiverExit \/ ReceiverFail
  \/ \E p \in TimingPlans : ReceivePlan(p) \/ RejectPlan(p)

LifecycleThread ==
  StopPlanReceiver \/ JoinReceiverStopFsm \/ AppRequestShutdown \/ JoinFsm

Next == FsmThread \/ ReceiverThread \/ LifecycleThread \/ Stopped

Spec == Init /\ [][Next]_vars

(***************************************************************************)
(* Fairness.  Each thread is scheduled (WF).  Stop requests, failures,     *)
(* plans and spurious wake-ups may never happen.  That the deadline of a   *)
(* timed wait expires however often the wait is interrupted, because it is *)
(* absolute, is DeadlinesPass: an assumption of GreensAlternate alone.     *)
(***************************************************************************)
ThreadFairness ==
  /\ WF_vars(FsmLoop)            /\ WF_vars(FsmStartTick)
  /\ WF_vars(FsmBlock)           /\ WF_vars(FsmWake)
  /\ WF_vars(FsmWaitAborted)     /\ WF_vars(FsmTakeEmergency)
  /\ WF_vars(FsmSleep)           /\ WF_vars(FsmLoadPendingPlan)
  /\ WF_vars(FsmAdvancePhase)    /\ WF_vars(FsmAnnouncePhase)
  /\ WF_vars(FsmSubmit)          /\ WF_vars(ReceiverExit)
  /\ WF_vars(StopPlanReceiver /\ receiverPc = "failed")
  /\ WF_vars(JoinReceiverStopFsm)
  /\ WF_vars(AppRequestShutdown) /\ WF_vars(JoinFsm)

LiveSpec == Spec /\ ThreadFairness

DeadlinesPass == SF_vars(FsmTimeout)

-----------------------------------------------------------------------------
(* Every variable has its type. *)
TypeOK ==
  /\ ChannelTypeOK
  /\ currentPlan \in PlanData
  /\ currentPhaseIndex \in Index
  /\ remainingTime \in Nat
  /\ activeGroup \in Groups
  /\ fsmPc \in {"loop", "tick", "wait", "blocked", "sleep", "load", "advance",
                "announce", "submit", "done"}
  /\ display \in SignalDisplay
  /\ receiverPc \in {"receiving", "failed", "done"}
  /\ fsmRunning \in BOOLEAN
  /\ planReceiverRunning \in BOOLEAN
  /\ appPc \in {"running", "joinReceiver", "requestShutdown", "joinFsm", "stopped"}
  /\ bornIn \in PhaseIds
  /\ greenPlan \in PlanData
  /\ newestNormal \in PlanData
  /\ disturbed \in BOOLEAN

(* Every plan in force or waiting runs green, yellow, all-red for one      *)
(* direction and then for the other, within the limits of config.h: no     *)
(* path from the queue to the FSM goes round ValidatePlan.                 *)
LegalPhases(plan) ==
  \A i \in Index :
    LET phase == plan.phases[i] IN
    \/ /\ phase.phaseId = (IF i = 0 THEN NS_GREEN ELSE EW_GREEN)
       /\ i \in {0, 3} /\ phase.duration \in kMinGreen..kMaxGreen
    \/ /\ phase.phaseId = YELLOW
       /\ i \in {1, 4} /\ phase.duration \in kMinYellow..kMaxYellow
    \/ /\ phase.phaseId = ALL_RED
       /\ i \in {2, 5} /\ phase.duration \in kMinAllRed..kMaxAllRed

PlansLegal ==
  /\ LegalPhases(currentPlan)
  /\ pendingNormalPlan # NoPlan => LegalPhases(pendingNormalPlan)
  /\ pendingEmergencyPlan # NoPlan =>
       /\ LegalPhases(pendingEmergencyPlan)
       /\ pendingEmergencyPlan.isEmergencyNS # pendingEmergencyPlan.isEmergencyEW

(* An emergency the FSM may still act on arrived in the green that is      *)
(* running now: one queued in the last instant of a green, even in the     *)
(* window between advancePhase changing the index and announcing it, never *)
(* reaches the crossing direction.                                         *)
EmergencyOfThisGreen ==
  pendingEmergencyPlan # NoPlan =>
    /\ IsGreenPhase(bornIn)
    /\ bornIn = currentPhase
    /\ fsmPc \in {"tick", "wait", "blocked"} => bornIn = CurrentPhaseId

(* No accepted normal plan is lost but to a newer one: the newest is       *)
(* either waiting or in force, whatever the interleaving of PublishPlan    *)
(* with ConsumePendingPlan and emergencies.                                *)
NewestPlanKept ==
  newestNormal = IF pendingNormalPlan # NoPlan THEN pendingNormalPlan ELSE currentPlan

(* A green and the yellow and all-red that clear it are timed by one plan: *)
(* the plan changes only between an all-red and the next green.            *)
OnePlanPerGreen == fsmPc # "advance" => currentPlan = greenPlan

(* The lamps of the FSM, and the lamps of the displays it submits (one per *)
(* tick), behave as TrafficLights.                                         *)
Lights == INSTANCE TrafficLights WITH
  lamp <- [g \in Groups |-> lampForPhase(CurrentPhaseId, activeGroup, g)],
  turn <- activeGroup

ShownLights == INSTANCE TrafficLights WITH
  lamp <- [g \in Groups |-> lampForPhase(display.phaseId, display.activeGroup, g)],
  turn <- display.activeGroup

LightsSpec      == Lights!Spec
ShownLightsSpec == ShownLights!Spec

(* Time is only ever added to a running phase by an emergency for the      *)
(* direction that has green, caught strictly inside the window.            *)
ExtendedOnlyByEmergency ==
  [][ remainingTime' > remainingTime /\ currentPhaseIndex' = currentPhaseIndex =>
        /\ \/ CurrentPhaseId = NS_GREEN /\ pendingEmergencyPlan.isEmergencyNS
           \/ CurrentPhaseId = EW_GREEN /\ pendingEmergencyPlan.isEmergencyEW
        /\ kEmergencyLower < remainingTime /\ remainingTime < kEmergencyUpper
        /\ remainingTime' = kEmergencyGreen ]_vars

(* The countdown shown for a direction is the truth: unless a new plan or  *)
(* an emergency intervenes, from one display to the next it strictly falls *)
(* while the lamp stays, and the lamp changes only when it had run down to *)
(* what the tick has taken.                                                *)
LatenessBounded == \E n \in LateTicks : \A m \in LateTicks : m <= n

LargestElapsed == (CHOOSE n \in LateTicks : \A m \in LateTicks : m <= n) + 1

LampShown(d, g) == lampForPhase(d.phaseId, d.activeGroup, g)

CountdownHonest ==
  [][ fsmPc = "submit" /\ fsmRunning /\ ~disturbed =>
        \A g \in Groups :
          IF LampShown(DisplayNow, g) = LampShown(display, g)
          THEN DisplayNow.groupRemaining[g] < display.groupRemaining[g]
          ELSE display.groupRemaining[g] <= LargestElapsed * TIMER_INTERVAL ]_vars

(* While deadlines pass, each direction gets its green again and again,    *)
(* unless emergencies keep coming or the process stops.                    *)
GreensAlternate ==
  DeadlinesPass /\ <>[](pendingEmergencyPlan = NoPlan) =>
    \/ <>(appPc # "running")
    \/ \A phase \in {NS_GREEN, EW_GREEN} : []<>(CurrentPhaseId = phase)

(* A queued emergency is taken or dropped without waiting for the end of   *)
(* the tick: the signal of PublishPlan is never lost.                      *)
EmergencyPrompt ==
  pendingEmergencyPlan # NoPlan ~> (pendingEmergencyPlan = NoPlan \/ ~fsmRunning)

(* Once stopping, the process joins all its workers, whatever phase or     *)
(* wait the FSM was in; a failed receiver stops it too.                    *)
ShutdownCompletes ==
  (appPc # "running" \/ receiverPc = "failed") ~> appPc = "stopped"

=============================================================================
