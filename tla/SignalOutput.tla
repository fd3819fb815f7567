---------------------------- MODULE SignalOutput ----------------------------
(***************************************************************************)
(* The control core with its output: each display the FSM thread submits   *)
(* goes through the mailbox of OutputSimulator to the output worker, and   *)
(* the lifecycle thread stops the worker after it has joined the FSM       *)
(* (SignalControlApplication::StopOutputWorker).                           *)
(*                                                                         *)
(* MaxAhead bounds the displays submitted since the worker last looked: at *)
(* one a second the FSM cannot get round the sequence numbers (24 days)    *)
(* ahead of a worker, which a small kSequenceMask would allow.             *)
(***************************************************************************)
EXTENDS SignalController, OutputSimulator

CONSTANT MaxAhead
ASSUME AheadAssumption == MaxAhead \in 1..(kSequenceMask - 1)

VARIABLES
  stopPc,   (* "running", "post", "join", "stopped"        *)
  ahead     (* displays submitted since the worker last loaded the mailbox *)

outVars == <<vars, outputVars, stopPc, ahead>>

OutInit == Init /\ OutputInit /\ stopPc = "running" /\ ahead = 0

(* processTick, on the FSM thread; submit() has returned.                  *)
TickStep ==
  /\ submitPc = "idle"
  /\ ~(fsmPc = "submit" /\ fsmRunning)
  /\ FsmThread
  /\ UNCHANGED <<outputVars, stopPc, ahead>>

SubmitDisplay ==
  /\ fsmRunning
  /\ ahead < MaxAhead
  /\ FsmSubmit
  /\ SubmitStore(DisplayNow)
  /\ ahead' = ahead + 1
  /\ UNCHANGED stopPc

FinishSubmit ==
  /\ SubmitExchange \/ SubmitPost
  /\ UNCHANGED <<vars, stopPc, ahead>>

WorkerStep ==
  /\ OutputWorker
  /\ ahead' = IF outputPc = "load" THEN 0 ELSE ahead
  /\ UNCHANGED <<vars, stopPc>>

OtherThreads ==
  /\ ReceiverThread \/ LifecycleThread
  /\ UNCHANGED <<outputVars, stopPc, ahead>>

(* StopOutputWorker: requestStop() and the join.                           *)
StopOutput ==
  /\ appPc = "stopped"
  /\ \/ stopPc = "running" /\ ClearRunning /\ stopPc' = "post"
     \/ stopPc = "post" /\ PostStop /\ stopPc' = "join"
     \/ /\ stopPc = "join" /\ outputPc = "done"
        /\ stopPc' = "stopped"
        /\ UNCHANGED outputVars
  /\ UNCHANGED <<vars, ahead>>

AllStopped == stopPc = "stopped" /\ UNCHANGED outVars

OutNext ==
  \/ TickStep \/ SubmitDisplay \/ FinishSubmit \/ WorkerStep
  \/ OtherThreads \/ StopOutput \/ AllStopped

OutSpec == OutInit /\ [][OutNext]_outVars

(* The worker and the lifecycle thread are scheduled.                      *)
OutLiveSpec ==
  /\ OutSpec
  /\ WF_outVars(FinishSubmit)
  /\ WF_outVars(WorkerStep)
  /\ WF_outVars(StopOutput)

-----------------------------------------------------------------------------
(* Every variable of the mailbox has its type. *)
OutputTypeOK ==
  /\ mailbox \in Word
  /\ nextSequence \in 0..kSequenceMask
  /\ notificationPending \in BOOLEAN
  /\ semaphore \in Nat
  /\ submitPc \in {"idle", "exchange", "post"}
  /\ outputRunning \in BOOLEAN
  /\ outputPc \in {"loop", "wait", "check", "clear", "load", "done"}
  /\ lastSequence \in 0..kSequenceMask
  /\ published \in SignalDisplay \cup {NoDisplay}
  /\ stopPc \in {"running", "post", "join", "stopped"}
  /\ ahead \in 0..MaxAhead

Asleep == outputPc = "wait" /\ semaphore = 0 /\ submitPc = "idle"

(* When the worker sleeps and no submit is under way it has published the  *)
(* newest display, and the pending flag is down: no display is left in the *)
(* mailbox unseen, although the FSM overwrites it and skips the semaphore  *)
(* while a wake-up is pending, and the next submit will not skip its own.  *)
NewestShown == Asleep => lastSequence = mailbox.sequence /\ ~notificationPending

(* What the worker publishes is the display the FSM submitted last, with   *)
(* the countdown of the phase, which the word does not carry, recovered    *)
(* and no countdown cut to the width of its field.                         *)
PublishedIsNewest == [][published' # published => published' = display]_outVars

(* A display submitted is published or overwritten by a newer one.         *)
NewestEventuallyShown ==
  mailbox.sequence # lastSequence ~> (mailbox.sequence = lastSequence \/ ~outputRunning)

=============================================================================
