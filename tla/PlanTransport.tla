---------------------------- MODULE PlanTransport ----------------------------
(***************************************************************************)
(* A timing plan on its way from the decision process to the controller:   *)
(* DecisionService sends it, MqTimingPlanReceiverWorker                    *)
(* (mq_timing_plan_receiver_worker.cpp) drains the queue and hands the     *)
(* newest message of a drain to PlanReceiver::ReceivePlan.                 *)
(*                                                                         *)
(* receiverPc is the worker's place:                                       *)
(*   "gone"    the controller process is not running                       *)
(*   "closed"  in Run, without a descriptor                                *)
(*   "loop"    at the running test of ReceiveAndProcessNewest              *)
(*   "receive" in mq_timedreceive                                          *)
(*   "hand"    the drain is over                                           *)
(*   "done", "failed"  Run has returned                                    *)
(* Run tests the flag again before each drain, with nothing in between     *)
(* that another thread sees, and the two tests are one step here.  Every   *)
(* message is of the size and version this code sends, so the envelope is  *)
(* not tested; that no message has instance or sequence 0, which it would  *)
(* refuse, is part of TransportTypeOK.                                     *)
(***************************************************************************)
EXTENDS DecisionService

VARIABLES
  receiverPc,
  running,                (* the flag the application clears to stop       *)
  candidate,              (* newest, NoMessage while hasCandidate is false *)
  lastInstance,           (* the transport position; no instance is 0, so  *)
  lastSequence,           (*   0 stands for hasTransportPosition_ = false  *)
  (* history, read by the properties only *)
  handed,                 (* the message handed to ReceivePlan last        *)
  givenUp                 (* the last candidate lost in a failing receive  *)
                          (* or with a dying controller                    *)

receiverVars == <<receiverPc, running, candidate, lastInstance, lastSequence,
                  handed, givenUp>>
transportVars == <<serviceVars, receiverVars>>

Newer(m, n) ==
  \/ m.instance > n.instance
  \/ m.instance = n.instance /\ m.sequence > n.sequence

TransportInit ==
  /\ ServiceInit
  /\ receiverPc = "gone" /\ running = FALSE
  /\ candidate = NoMessage
  /\ lastInstance = 0 /\ lastSequence = 0
  /\ handed = NoMessage /\ givenUp = NoMessage

-----------------------------------------------------------------------------
StartReceiver ==
  /\ receiverPc = "gone"
  /\ receiverPc' = "closed" /\ running' = TRUE
  /\ lastInstance' = 0 /\ lastSequence' = 0
  /\ UNCHANGED <<serviceVars, candidate, handed, givenUp>>

(* The controller ends; a candidate it had goes with it.                   *)
ControllerDies ==
  /\ receiverPc # "gone"
  /\ receiverPc' = "gone" /\ running' = FALSE
  /\ candidate' = NoMessage
  /\ givenUp' = IF candidate # NoMessage THEN candidate ELSE givenUp
  /\ UNCHANGED <<serviceVars, lastInstance, lastSequence, handed>>

StopReceiver ==
  /\ running
  /\ running' = FALSE
  /\ UNCHANGED <<serviceVars, receiverPc, candidate, lastInstance,
                 lastSequence, handed, givenUp>>

(* Mutant: the flag is not tested while the queue does not exist.          *)
OpenQueueMutant ==
  /\ receiverPc = "closed"
  /\ receiverPc' = IF ~queueExists THEN "closed"
                   ELSE IF running THEN "loop" ELSE "done"
  /\ UNCHANGED <<serviceVars, running, candidate, lastInstance, lastSequence,
                 handed, givenUp>>

(* Run without a descriptor: a queue that does not exist is tried again    *)
(* later.                                                                  *)
OpenQueue ==
  /\ receiverPc = "closed"
  /\ receiverPc' = IF ~running THEN "done"
                   ELSE IF queueExists THEN "loop" ELSE "closed"
  /\ UNCHANGED <<serviceVars, running, candidate, lastInstance, lastSequence,
                 handed, givenUp>>

(* Any other error of OpenAndValidate: Run returns false.                  *)
OpenFails ==
  /\ receiverPc = "closed" /\ running
  /\ receiverPc' = "failed"
  /\ UNCHANGED <<serviceVars, running, candidate, lastInstance, lastSequence,
                 handed, givenUp>>

TestRunning ==
  /\ receiverPc = "loop"
  /\ receiverPc' = IF running THEN "receive"
                   ELSE IF candidate # NoMessage THEN "hand" ELSE "done"
  /\ UNCHANGED <<serviceVars, running, candidate, lastInstance, lastSequence,
                 handed, givenUp>>

IsNewerTransportMessage(m) ==
  \/ lastInstance = 0 \/ m.instance # lastInstance
  \/ m.sequence > lastSequence

(* Mutant: the first message of a drain is kept.                           *)
ReceiveMessageMutant ==
  /\ receiverPc = "receive"
  /\ planQueue # <<>>
  /\ planQueue' = Tail(planQueue)
  /\ candidate' = IF candidate = NoMessage THEN Head(planQueue) ELSE candidate
  /\ lastInstance' = Head(planQueue).instance
  /\ lastSequence' = Head(planQueue).sequence
  /\ receiverPc' = "loop"
  /\ UNCHANGED <<engineVars, servicePc, consecutiveSnapshotMisses,
                 publisherVars, queueExists, newestSent, running, handed, givenUp>>

ReceiveMessage ==
  /\ receiverPc = "receive"
  /\ planQueue # <<>>
  /\ planQueue' = Tail(planQueue)
  /\ IF IsNewerTransportMessage(Head(planQueue))
     THEN /\ candidate' = Head(planQueue)
          /\ lastInstance' = Head(planQueue).instance
          /\ lastSequence' = Head(planQueue).sequence
     ELSE UNCHANGED <<candidate, lastInstance, lastSequence>>
  /\ receiverPc' = "loop"
  /\ UNCHANGED <<engineVars, servicePc, consecutiveSnapshotMisses,
                 publisherVars, queueExists, newestSent, running, handed, givenUp>>

(* ETIMEDOUT, which needs an empty queue, or EINTR, which needs a receive  *)
(* that waits: only the first of a drain has a deadline to wait for.       *)
ReceiveNothing ==
  /\ receiverPc = "receive"
  /\ planQueue = <<>> \/ candidate = NoMessage
  /\ receiverPc' = IF candidate # NoMessage THEN "hand" ELSE "loop"
  /\ UNCHANGED <<serviceVars, running, candidate, lastInstance, lastSequence,
                 handed, givenUp>>

(* Any other error: the drain is abandoned, its candidate with it, and the *)
(* descriptor closed.  The transport position stays.                       *)
ReceiveFails ==
  /\ receiverPc = "receive"
  /\ candidate' = NoMessage
  /\ givenUp' = IF candidate # NoMessage THEN candidate ELSE givenUp
  /\ receiverPc' = "closed"
  /\ UNCHANGED <<serviceVars, running, lastInstance, lastSequence, handed>>

(* DecodePlan and ReceivePlan, which SignalController takes up.            *)
Hand ==
  /\ receiverPc = "hand"
  /\ handed' = candidate
  /\ candidate' = NoMessage
  /\ receiverPc' = "loop"
  /\ UNCHANGED <<serviceVars, running, lastInstance, lastSequence, givenUp>>

-----------------------------------------------------------------------------
ReceiverStep ==
  \/ OpenQueue \/ OpenFails \/ TestRunning \/ ReceiveMessage
  \/ ReceiveNothing \/ ReceiveFails \/ Hand

ControllerStep == StartReceiver \/ StopReceiver \/ ControllerDies

TransportNext ==
  \/ ServiceStep /\ UNCHANGED receiverVars
  \/ ReceiverStep
  \/ ControllerStep

TransportSpec == TransportInit /\ [][TransportNext]_transportVars

(***************************************************************************)
(* Fairness.  A process that runs takes its steps; nothing has to be       *)
(* started, stopped or to fail.  A receive may be interrupted, or fail, as *)
(* a message arrives, but not every time (SF).                             *)
(***************************************************************************)
TransportLiveSpec ==
  /\ TransportSpec
  /\ WF_transportVars(CycleInput /\ UNCHANGED receiverVars)
  /\ WF_transportVars(FinishCycle /\ UNCHANGED receiverVars)
  /\ WF_transportVars(StopService /\ servicePc = "stopping" /\ UNCHANGED receiverVars)
  /\ WF_transportVars(OpenQueue) /\ WF_transportVars(TestRunning)
  /\ WF_transportVars(ReceiveNothing) /\ WF_transportVars(Hand)
  /\ SF_transportVars(ReceiveMessage)

-----------------------------------------------------------------------------
(* Every variable has its type. *)
MaybeMessage == Message \cup {NoMessage}

TransportTypeOK ==
  /\ servicePc \in {"down", "cycle", "send", "stopping"}
  /\ consecutiveSnapshotMisses \in Nat
  /\ publisherInstance \in Nat /\ sequenceNumber \in Nat
  /\ pendingLatest \in MaybeMessage
  /\ planQueue \in Seq(Message) /\ Len(planQueue) <= kPlanQueueDepth
  /\ queueExists \in BOOLEAN
  /\ newestSent \in MaybeMessage
  /\ receiverPc \in {"gone", "closed", "loop", "receive", "hand", "done", "failed"}
  /\ running \in BOOLEAN
  /\ candidate \in MaybeMessage
  /\ lastInstance \in Nat /\ lastSequence \in Nat
  /\ handed \in MaybeMessage /\ givenUp \in MaybeMessage

(* The messages queued are in the order they were made, the one waiting to *)
(* be sent is newer than all of them, and all are newer than any the       *)
(* receiver has had: across deferred sends and restarts of either process  *)
(* no message is ever refused as stale.                                    *)
OnTheWay ==
  IF pendingLatest = NoMessage THEN planQueue ELSE Append(planQueue, pendingLatest)

Received == {candidate, handed, givenUp} \ {NoMessage}
Position == [instance |-> lastInstance, sequence |-> lastSequence]

QueueInOrder ==
  \A i \in 1..Len(OnTheWay) :
    /\ \A j \in 1..(i - 1) : Newer(OnTheWay[i], OnTheWay[j])
    /\ \A m \in Received : Newer(OnTheWay[i], m)
    /\ lastInstance # 0 => Newer(OnTheWay[i], Position)

(* The newest message sent is at the end of the queue, or the receiver     *)
(* holds it, has handed it over, or lost it in a failure.  Older messages  *)
(* are dropped for newer ones only.                                        *)
NewestKept ==
  newestSent # NoMessage =>
    IF planQueue # <<>> THEN planQueue[Len(planQueue)] = newestSent
    ELSE newestSent \in Received

(* What waits to be sent, or was sent last, is the plan the engine steps   *)
(* from: a full queue never makes the controller's plan diverge from the   *)
(* engine's for longer than the queue is full.                             *)
EngineInStep ==
  servicePc \in {"cycle", "send"} /\ sequenceNumber # 0 =>
    LET m == IF pendingLatest # NoMessage THEN pendingLatest ELSE newestSent IN
    /\ m # NoMessage
    /\ m.plan = previousPlan
    /\ m.instance = publisherInstance /\ m.sequence = sequenceNumber

(* The controller is never handed a message older than one it had, even    *)
(* when it has been restarted and has forgotten its position.              *)
HandedInOrder ==
  [][ handed' # handed /\ handed # NoMessage => Newer(handed', handed) ]_transportVars

(* A deferred plan is sent, replaced or lost with its process, and what is *)
(* queued is handed over, unless it is lost in a failure or the receiver   *)
(* stops.                                                                  *)
Receiving == running /\ receiverPc # "failed"

PlansGetThrough ==
  /\ pendingLatest # NoMessage ~> (pendingLatest = NoMessage \/ ~Receiving)
  /\ planQueue # <<>> ~>
       \/ planQueue = <<>> /\ newestSent \in {handed, givenUp}
       \/ ~Receiving

(* A decision process whose input stays silent gives up, a plan waiting to *)
(* be sent or not.                                                         *)
GivesUp ==
  []<><<\E s \in Snapshots : Decide(s)>>_transportVars \/ []<>(servicePc = "down")

(* A receiver told to stop returns, handing over what it had drained.      *)
ReceiverStops ==
  ~running ~> running \/ receiverPc \in {"gone", "done", "failed"}

=============================================================================
