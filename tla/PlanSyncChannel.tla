-------------------------- MODULE PlanSyncChannel --------------------------
(***************************************************************************)
(* PlanSyncChannel (plan_sync_channel.cpp): the monitor between the plan   *)
(* receiver thread and the FSM thread.  Each operator below is one         *)
(* critical section of mutex_, hence one atomic step of its caller.        *)
(*                                                                         *)
(* waiter is the FSM thread's place in pthread_cond_timedwait: "none"      *)
(* outside it, "blocked" in it, "signalled" once a signal or a broadcast   *)
(* has reached it and it has yet to take the mutex back.                   *)
(***************************************************************************)
EXTENDS SignalPlans

VARIABLES
  currentPhase,        (* currentPhase_: the phase the FSM announced       *)
  pendingNormalPlan,   (* NoPlan while hasPendingNormal_ is false          *)
  pendingEmergencyPlan,(* NoPlan while hasPendingEmergency_ is false       *)
  shutdownRequested,
  waiter

channelVars == <<currentPhase, pendingNormalPlan, pendingEmergencyPlan,
                 shutdownRequested, waiter>>

ChannelTypeOK ==
  /\ currentPhase \in PhaseIds
  /\ pendingNormalPlan \in PlanData \cup {NoPlan}
  /\ pendingEmergencyPlan \in PlanData \cup {NoPlan}
  /\ shutdownRequested \in BOOLEAN
  /\ waiter \in {"none", "blocked", "signalled"}

(* The state after the constructor and SignalFSMEngine::reset(), which     *)
(* announces the first phase before any worker is started.                 *)
ChannelInit ==
  /\ currentPhase = NS_GREEN
  /\ pendingNormalPlan = NoPlan
  /\ pendingEmergencyPlan = NoPlan
  /\ shutdownRequested = FALSE
  /\ waiter = "none"

(* A signal or broadcast reaches the FSM only if it is waiting.            *)
Notified(w) == IF w = "blocked" THEN "signalled" ELSE w

(* Mutant: leaving a green does not clear the emergency slot.              *)
SetCurrentPhaseMutant(phaseId) ==
  /\ currentPhase' = phaseId
  /\ UNCHANGED <<pendingNormalPlan, pendingEmergencyPlan, shutdownRequested, waiter>>

SetCurrentPhase(phaseId) ==
  /\ currentPhase' = phaseId
  /\ pendingEmergencyPlan' =
       IF IsGreenPhase(phaseId) THEN pendingEmergencyPlan ELSE NoPlan
  /\ UNCHANGED <<pendingNormalPlan, shutdownRequested, waiter>>

(* PublishPlan keeps an emergency only in a green and before shutdown.     *)
AcceptsEmergency == IsGreenPhase(currentPhase) /\ ~shutdownRequested

(* Mutant: a pending normal plan is not overwritten.                       *)
PublishPlanKeepsOldMutant(plan) ==
  \/ /\ IsEmergencyPlan(plan)
     /\ IF AcceptsEmergency
        THEN pendingEmergencyPlan' = plan /\ waiter' = Notified(waiter)
        ELSE UNCHANGED <<pendingEmergencyPlan, waiter>>
     /\ UNCHANGED <<currentPhase, pendingNormalPlan, shutdownRequested>>
  \/ /\ ~IsEmergencyPlan(plan)
     /\ pendingNormalPlan' = IF pendingNormalPlan = NoPlan THEN plan ELSE pendingNormalPlan
     /\ UNCHANGED <<currentPhase, pendingEmergencyPlan, shutdownRequested, waiter>>

(* Mutant: the condition variable is not signalled.                        *)
PublishPlanSilentMutant(plan) ==
  /\ IF IsEmergencyPlan(plan)
     THEN /\ pendingEmergencyPlan' = IF AcceptsEmergency THEN plan ELSE pendingEmergencyPlan
          /\ UNCHANGED pendingNormalPlan
     ELSE /\ pendingNormalPlan' = plan
          /\ UNCHANGED pendingEmergencyPlan
  /\ UNCHANGED <<currentPhase, shutdownRequested, waiter>>

PublishPlan(plan) ==
  \/ /\ IsEmergencyPlan(plan)
     /\ AcceptsEmergency
     /\ pendingEmergencyPlan' = plan
     /\ waiter' = Notified(waiter)
     /\ UNCHANGED <<currentPhase, pendingNormalPlan, shutdownRequested>>
  \/ /\ IsEmergencyPlan(plan)
     /\ ~AcceptsEmergency
     /\ UNCHANGED channelVars
  \/ /\ ~IsEmergencyPlan(plan)
     /\ pendingNormalPlan' = plan
     /\ UNCHANGED <<currentPhase, pendingEmergencyPlan, shutdownRequested, waiter>>

(* The loop test of WaitForEmergencyUntil, run on entry and after a wake.  *)
MustWait == pendingEmergencyPlan = NoPlan /\ ~shutdownRequested

BlockOnCondition ==
  /\ MustWait
  /\ waiter' = "blocked"
  /\ UNCHANGED <<currentPhase, pendingNormalPlan, pendingEmergencyPlan,
                 shutdownRequested>>

(* pthread_cond_timedwait returns (0 or ETIMEDOUT) with the mutex held.    *)
LeaveCondition ==
  /\ waiter' = "none"
  /\ UNCHANGED <<currentPhase, pendingNormalPlan, pendingEmergencyPlan,
                 shutdownRequested>>

ConsumeEmergency ==
  /\ pendingEmergencyPlan # NoPlan
  /\ ~shutdownRequested
  /\ pendingEmergencyPlan' = NoPlan
  /\ UNCHANGED <<currentPhase, pendingNormalPlan, shutdownRequested, waiter>>

ConsumePendingPlan ==
  /\ pendingNormalPlan # NoPlan
  /\ pendingNormalPlan' = NoPlan
  /\ UNCHANGED <<currentPhase, pendingEmergencyPlan, shutdownRequested, waiter>>

(* Mutant: no broadcast.                                                   *)
RequestShutdownMutant ==
  /\ shutdownRequested' = TRUE
  /\ UNCHANGED <<currentPhase, pendingNormalPlan, pendingEmergencyPlan, waiter>>

RequestShutdown ==
  /\ shutdownRequested' = TRUE
  /\ waiter' = Notified(waiter)
  /\ UNCHANGED <<currentPhase, pendingNormalPlan, pendingEmergencyPlan>>

=============================================================================
