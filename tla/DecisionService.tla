--------------------------- MODULE DecisionService ---------------------------
(***************************************************************************)
(* The decision process: PeriodicService (periodic_service.cpp) runs one   *)
(* cycle each period, takes a snapshot if there is a usable one, has       *)
(* DecisionEngine make a plan of it and gives that to TimingPlanPublisher  *)
(* (timing_plan_publisher.cpp), which sends it on the timing-plan queue or *)
(* keeps it for a later cycle.                                             *)
(*                                                                         *)
(* A cycle is two steps: its input (Decide, SkipCycle) and its output      *)
(* (FinishCycle, with the one call of mq_send).  Which snapshot a cycle    *)
(* finds is the environment's: LatestValueQueue has the channel.           *)
(* The process may end anywhere, and be started again: the queue outlives  *)
(* it.  Publisher instances are numbered in the order they start; the code *)
(* only compares them for equality.                                        *)
(***************************************************************************)
EXTENDS DecisionEngine, Sequences

CONSTANTS
  kMaximumMisses,     (* maximumConsecutiveSnapshotMisses_                 *)
  kPlanQueueDepth,    (* kTimingPlanQueueMaxMessages                       *)
  NoMessage,          (* "no message"                                      *)
  MaxSequence,        (* bounds the plans an instance makes                *)
  MaxInstances        (* bounds the starts of the process                  *)

Message == [instance : Nat \ {0}, sequence : Nat \ {0}, plan : TimingPlan]

ASSUME ServiceAssumption ==
  /\ kMaximumMisses \in Nat \ {0}
  /\ kPlanQueueDepth \in Nat \ {0}
  /\ NoMessage \notin Message
  /\ MaxSequence \in Nat /\ MaxInstances \in Nat

VARIABLES
  servicePc,          (* "down", "cycle", "send" or "stopping"             *)
  consecutiveSnapshotMisses,
  publisherInstance,
  sequenceNumber,
  pendingLatest,
  planQueue,          (* the timing-plan queue, oldest first               *)
  queueExists,
  newestSent          (* history: the message queued last                  *)

planQueueVars == <<planQueue, queueExists, newestSent>>
publisherVars == <<publisherInstance, sequenceNumber, pendingLatest>>
serviceVars   == <<engineVars, servicePc, consecutiveSnapshotMisses,
                   publisherVars, planQueueVars>>

ServiceInit ==
  /\ EngineInit
  /\ servicePc = "down"
  /\ consecutiveSnapshotMisses = 0
  /\ publisherInstance = 0 /\ sequenceNumber = 0
  /\ pendingLatest = NoMessage
  /\ planQueue = <<>> /\ queueExists = FALSE /\ newestSent = NoMessage

-----------------------------------------------------------------------------
(* TimingPlanPublisher::initialize: a new instance, and the queue opened   *)
(* with O_CREAT, what it holds left in it.                                 *)
initialize ==
  /\ publisherInstance' = publisherInstance + 1
  /\ sequenceNumber' = 0
  /\ pendingLatest' = NoMessage
  /\ queueExists' = TRUE

(* Initialize of the application, with a new engine.                       *)
StartService ==
  /\ servicePc = "down"
  /\ publisherInstance < MaxInstances
  /\ initialize
  /\ previousPlan' = InitialPlan /\ nextPlanId' = 1 /\ steady' = 0
  /\ consecutiveSnapshotMisses' = 0
  /\ servicePc' = "cycle"
  /\ UNCHANGED <<snapshot, planQueue, newestSent>>

(* shutdown() after a stop or a failed cycle, or the death of the process. *)
StopService ==
  /\ servicePc # "down"
  /\ servicePc' = "down"
  /\ pendingLatest' = NoMessage
  /\ UNCHANGED <<engineVars, consecutiveSnapshotMisses, publisherInstance,
                 sequenceNumber, planQueueVars>>

makeMessage(plan) ==
  [instance |-> publisherInstance, sequence |-> sequenceNumber + 1, plan |-> plan]

(* A snapshot that validateSnapshot accepts; publishTimingPlan up to its   *)
(* call of trySendPending.                                                 *)
Decide(s) ==
  /\ servicePc = "cycle"
  /\ sequenceNumber < MaxSequence
  /\ processTrafficMetrics(s)
  /\ pendingLatest' = makeMessage(previousPlan')
  /\ sequenceNumber' = sequenceNumber + 1
  /\ consecutiveSnapshotMisses' = 0
  /\ servicePc' = "send"
  /\ UNCHANGED <<publisherInstance, planQueueVars>>

(* Mutant: a cycle that has a plan to send again is not a miss.            *)
SkipCycleMutant ==
  /\ servicePc = "cycle"
  /\ consecutiveSnapshotMisses' =
       IF pendingLatest = NoMessage THEN consecutiveSnapshotMisses + 1
                                    ELSE consecutiveSnapshotMisses
  /\ servicePc' = "send"
  /\ UNCHANGED <<engineVars, publisherVars, planQueueVars>>

(* Mutant: a cycle without a snapshot returns at once.                     *)
SkipCycleEarlyMutant ==
  /\ servicePc = "cycle"
  /\ UNCHANGED serviceVars

(* No snapshot (kEmpty, kBusy, an error), or one that is refused.          *)
SkipCycle ==
  /\ servicePc = "cycle"
  /\ consecutiveSnapshotMisses' = consecutiveSnapshotMisses + 1
  /\ servicePc' = "send"
  /\ UNCHANGED <<engineVars, publisherVars, planQueueVars>>

(* Mutant: an emergency plan is queued before the others (as mq_send does  *)
(* with a message of a higher priority).                                   *)
trySendPendingMutant ==
  IF pendingLatest # NoMessage /\ Len(planQueue) < kPlanQueueDepth
  THEN /\ planQueue' = IF pendingLatest.plan.emergencyNorthSouth
                       THEN <<pendingLatest>> \o planQueue
                       ELSE Append(planQueue, pendingLatest)
       /\ newestSent' = pendingLatest
       /\ pendingLatest' = NoMessage
  ELSE UNCHANGED <<planQueue, newestSent, pendingLatest>>

(* The call of mq_send, which does not block: a full queue (EAGAIN) leaves *)
(* the plan for the next cycle.                                            *)
trySendPending ==
  IF pendingLatest # NoMessage /\ Len(planQueue) < kPlanQueueDepth
  THEN /\ planQueue' = Append(planQueue, pendingLatest)
       /\ newestSent' = pendingLatest
       /\ pendingLatest' = NoMessage
  ELSE UNCHANGED <<planQueue, newestSent, pendingLatest>>

(* The end of runDecisionCycle: too many cycles without a snapshot fail.   *)
FinishCycle ==
  /\ servicePc = "send"
  /\ trySendPending
  /\ servicePc' = IF consecutiveSnapshotMisses >= kMaximumMisses
                  THEN "stopping" ELSE "cycle"
  /\ UNCHANGED <<engineVars, consecutiveSnapshotMisses, publisherInstance,
                 sequenceNumber, queueExists>>

(* requestSnapshot and validateSnapshot decide which: a snapshot may be    *)
(* missing, too old, or out of its ranges in any cycle.                    *)
CycleInput == SkipCycle \/ \E s \in Snapshots : Decide(s)

ServiceStep == StartService \/ StopService \/ CycleInput \/ FinishCycle

=============================================================================
