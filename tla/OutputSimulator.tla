-------------------------- MODULE OutputSimulator ---------------------------
(***************************************************************************)
(* OutputSimulator (output_simulator.cpp): the one-word mailbox between    *)
(* the FSM thread, which calls submit(), and the output worker, which runs *)
(* run(), with the flag and the semaphore that wake the worker.            *)
(*                                                                         *)
(* Every operator below that changes state is one atomic access.  Both     *)
(* threads are pinned to one CPU (PinCurrentThreadToCpu must succeed for   *)
(* Initialize to go on), so their accesses interleave: the weaker orders   *)
(* the acquire/release operations would allow across CPUs do not arise.    *)
(*                                                                         *)
(* submitPc is the FSM thread's place in submit(), outputPc the worker's   *)
(* in run().  sem_post and sem_wait fail only on a full or an invalid      *)
(* semaphore; theorem SemaphoreNeverFull bounds this one by two, so        *)
(* the two failure branches cannot be reached and are not modelled.        *)
(***************************************************************************)
EXTENDS SignalPlans

CONSTANTS
  kSequenceMask,      (* the sequence number wraps above this              *)
  kCountdownMask,     (* the largest countdown a field of the word holds   *)
  NoDisplay           (* nothing published yet                             *)

ASSUME MailboxAssumption ==
  /\ kSequenceMask \in Nat \ {0}
  /\ kCountdownMask \in Nat
  /\ kMaxGreen + kMaxYellow + 2 * kMaxAllRed <= kCountdownMask
  /\ kEmergencyGreen <= kMaxGreen

VARIABLES
  mailbox,             (* mailbox_                                         *)
  nextSequence,        (* nextSequence_, the FSM's                         *)
  notificationPending,
  semaphore,           (* the value of notificationSemaphore_              *)
  submitPc,            (* "idle", "exchange", "post"                       *)
  outputRunning,       (* running_                                         *)
  outputPc,            (* "loop", "wait", "check", "clear", "load", "done" *)
  lastSequence,        (* of the display published last                    *)
  published            (* the display handed to publish() last             *)

submitVars == <<mailbox, nextSequence, submitPc>>
workerVars == <<outputPc, lastSequence, published>>
outputVars == <<submitVars, workerVars, notificationPending, semaphore, outputRunning>>

Word ==
  [sequence : 0..kSequenceMask, phaseId : PhaseIds, activeGroup : Groups,
   groupRemaining : [Groups -> 0..kCountdownMask]]

Narrow(countdown) == countdown % (kCountdownMask + 1)

(* The word stored: remainingTimeMs itself has no field.                   *)
Packed(sequence, display) ==
  [sequence       |-> sequence,
   phaseId        |-> display.phaseId,
   activeGroup    |-> display.activeGroup,
   groupRemaining |-> [g \in Groups |-> Narrow(display.groupRemaining[g])]]

Smaller(a, b) == IF a < b THEN a ELSE b

(* The display rebuilt from the word.                                      *)
Unpacked(word) ==
  [phaseId        |-> word.phaseId,
   remainingTime  |->
     IF word.phaseId = ALL_RED
     THEN Smaller(word.groupRemaining[NORTH_SOUTH], word.groupRemaining[EAST_WEST])
     ELSE word.groupRemaining[word.activeGroup],
   activeGroup    |-> word.activeGroup,
   groupRemaining |-> word.groupRemaining]

NextSequence == IF nextSequence = kSequenceMask THEN 1 ELSE nextSequence + 1

OutputInit ==
  /\ mailbox = [sequence |-> 0, phaseId |-> NS_GREEN, activeGroup |-> NORTH_SOUTH,
                groupRemaining |-> [g \in Groups |-> 0]]
  /\ nextSequence = 0
  /\ notificationPending = FALSE
  /\ semaphore = 0
  /\ submitPc = "idle"
  /\ outputRunning = TRUE
  /\ outputPc = "loop"
  /\ lastSequence = 0
  /\ published = NoDisplay

-----------------------------------------------------------------------------
(* submit(), on the FSM thread.                                            *)

SubmitStore(display) ==
  /\ submitPc = "idle"
  /\ nextSequence' = NextSequence
  /\ mailbox' = Packed(NextSequence, display)
  /\ submitPc' = "exchange"
  /\ UNCHANGED <<workerVars, notificationPending, semaphore, outputRunning>>

SubmitExchange ==
  /\ submitPc = "exchange"
  /\ notificationPending' = TRUE
  /\ submitPc' = IF notificationPending THEN "idle" ELSE "post"
  /\ UNCHANGED <<mailbox, nextSequence, workerVars, semaphore, outputRunning>>

SubmitPost ==
  /\ submitPc = "post"
  /\ semaphore' = semaphore + 1
  /\ submitPc' = "idle"
  /\ UNCHANGED <<mailbox, nextSequence, workerVars, notificationPending, outputRunning>>

-----------------------------------------------------------------------------
(* run(), on the output worker.                                            *)

OutputLoop ==
  /\ outputPc = "loop"
  /\ outputPc' = IF outputRunning THEN "wait" ELSE "done"
  /\ UNCHANGED <<submitVars, lastSequence, published, notificationPending,
                 semaphore, outputRunning>>

OutputWait ==
  /\ outputPc = "wait"
  /\ semaphore > 0
  /\ semaphore' = semaphore - 1
  /\ outputPc' = "check"
  /\ UNCHANGED <<submitVars, lastSequence, published, notificationPending, outputRunning>>

OutputCheck ==
  /\ outputPc = "check"
  /\ outputPc' = IF outputRunning THEN "clear" ELSE "done"
  /\ UNCHANGED <<submitVars, lastSequence, published, notificationPending,
                 semaphore, outputRunning>>

(* Mutant: the flag is not cleared.                                        *)
OutputClearMutant ==
  /\ outputPc = "clear"
  /\ outputPc' = "load"
  /\ UNCHANGED <<submitVars, lastSequence, published, notificationPending,
                 semaphore, outputRunning>>

OutputClear ==
  /\ outputPc = "clear"
  /\ notificationPending' = FALSE
  /\ outputPc' = "load"
  /\ UNCHANGED <<submitVars, lastSequence, published, semaphore, outputRunning>>

(* Mutant: a sequence number that has wrapped counts as old.               *)
OutputLoadMutant ==
  /\ outputPc = "load"
  /\ IF mailbox.sequence <= lastSequence
     THEN UNCHANGED <<lastSequence, published>>
     ELSE lastSequence' = mailbox.sequence /\ published' = Unpacked(mailbox)
  /\ outputPc' = "loop"
  /\ UNCHANGED <<submitVars, notificationPending, semaphore, outputRunning>>

(* The load, the test of the sequence and the call of publish().           *)
OutputLoad ==
  /\ outputPc = "load"
  /\ IF mailbox.sequence \in {0, lastSequence}
     THEN UNCHANGED <<lastSequence, published>>
     ELSE lastSequence' = mailbox.sequence /\ published' = Unpacked(mailbox)
  /\ outputPc' = "loop"
  /\ UNCHANGED <<submitVars, notificationPending, semaphore, outputRunning>>

-----------------------------------------------------------------------------
(* requestStop(), on the lifecycle thread: the flag, then the semaphore.   *)
ClearRunning ==
  /\ outputRunning' = FALSE
  /\ UNCHANGED <<submitVars, workerVars, notificationPending, semaphore>>

PostStop ==
  /\ semaphore' = semaphore + 1
  /\ UNCHANGED <<submitVars, workerVars, notificationPending, outputRunning>>

OutputWorker == OutputLoop \/ OutputWait \/ OutputCheck \/ OutputClear \/ OutputLoad

=============================================================================
