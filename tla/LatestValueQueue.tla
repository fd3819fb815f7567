-------------------------- MODULE LatestValueQueue --------------------------
(***************************************************************************)
(* The channel of latest_value_queue.h: a bounded POSIX message queue and  *)
(* a named semaphore used as a lock that neither side ever waits for.      *)
(* Perception publishes snapshots to the decision process over one, the    *)
(* signal controller publishes its state to the viewer over another.       *)
(*                                                                         *)
(* One action per system call.  The values published are numbered in the   *)
(* order of the calls of publish(), which is all the channel depends on.   *)
(* A process may die anywhere (a crash, a kill, or an orderly close); the  *)
(* semaphore and the queue outlive it, and the lock stays as it left it.   *)
(* A deployment begins by unlinking both names (ipc_reset), with every     *)
(* process of the previous one gone.                                       *)
(***************************************************************************)
EXTENDS Naturals, Sequences

CONSTANTS
  kQueueDepth,
  MaxPublishes     (* bounds the calls of publish()                        *)

ASSUME QueueAssumption ==
  /\ kQueueDepth \in Nat \ {0, 1}
  /\ MaxPublishes \in Nat

VARIABLES
  mq,              (* the messages queued, oldest first                    *)
  queueExists,     (* the name of the queue is linked                      *)
  semaphore,       (* the value of the lock                                *)
  lockExists,      (* the name of the lock is linked                       *)
  publisherPc,     (* "closed", "openQueue", "idle", "send", "discard",    *)
                   (* "resend", "unlock"                                   *)
  pendingLatest,   (* pendingLatest_, 0 when empty                         *)
  consumerPc,      (* "closed", "openQueue", "idle", "drain", "unlock"     *)
  candidate,       (* the last message drained, 0 when none was            *)
  drained,         (* index, in the loop of receiveLatest                  *)
  taken,           (* the last value receiveLatest returned                *)
  (* history, read by the properties only *)
  stamp,           (* calls of publish() so far                            *)
  sent,            (* the value queued last                                *)
  sendFailed,      (* publish() returned kSystemError with the queue open  *)
  leftHeld,        (* a process died holding the lock                      *)
  launchStamp      (* stamp when this deployment began                     *)

publisherVars == <<publisherPc, pendingLatest, stamp, sendFailed>>
consumerVars  == <<consumerPc, candidate, drained, taken>>
objectVars    == <<mq, queueExists, semaphore, lockExists, sent>>
crashVars     == <<leftHeld, launchStamp>>
vars == <<publisherVars, consumerVars, objectVars, crashVars>>

PublisherHolds == publisherPc \in {"send", "discard", "resend", "unlock"}
ConsumerHolds  == consumerPc \in {"drain", "unlock"}

Init ==
  /\ mq = <<>> /\ queueExists = FALSE
  /\ semaphore = 0 /\ lockExists = FALSE
  /\ publisherPc = "closed" /\ pendingLatest = 0
  /\ consumerPc = "closed" /\ candidate = 0 /\ drained = 0
  /\ taken = 0 /\ stamp = 0 /\ sent = 0
  /\ sendFailed = FALSE /\ leftHeld = FALSE /\ launchStamp = 0

-----------------------------------------------------------------------------
(* LatestValuePublisher: open(), publish().                                *)

(* sem_open(O_CREAT, 1) gives the value only to a lock it creates.         *)
PublisherOpenLock ==
  /\ publisherPc = "closed"
  /\ lockExists' = TRUE
  /\ semaphore' = IF lockExists THEN semaphore ELSE 1
  /\ publisherPc' = "openQueue"
  /\ UNCHANGED <<pendingLatest, stamp, sendFailed, consumerVars, mq,
                 queueExists, sent, crashVars>>

PublisherOpenQueue ==
  /\ publisherPc = "openQueue"
  /\ queueExists' = TRUE
  /\ publisherPc' = "idle"
  /\ UNCHANGED <<pendingLatest, stamp, sendFailed, consumerVars, mq,
                 semaphore, lockExists, sent, crashVars>>

(* publish() up to sem_trywait: the new value replaces the deferred one.   *)
Publish ==
  /\ publisherPc = "idle"
  /\ stamp < MaxPublishes
  /\ stamp' = stamp + 1
  /\ pendingLatest' = stamp + 1
  /\ \/ /\ semaphore > 0
        /\ semaphore' = semaphore - 1
        /\ publisherPc' = "send"
     \/ /\ semaphore = 0                                    (* kDeferred *)
        /\ UNCHANGED <<semaphore, publisherPc>>
  /\ UNCHANGED <<sendFailed, consumerVars, mq, queueExists, lockExists, sent,
                 crashVars>>

(* mq_send succeeds: the value is queued and the pending slot emptied.     *)
Queued ==
  /\ mq' = Append(mq, pendingLatest)
  /\ sent' = pendingLatest
  /\ pendingLatest' = 0
  /\ publisherPc' = "unlock"
  /\ UNCHANGED sendFailed

SendFailed ==
  /\ sendFailed' = TRUE
  /\ publisherPc' = "unlock"
  /\ UNCHANGED <<mq, sent, pendingLatest>>

PublisherSend ==
  /\ publisherPc = "send"
  /\ IF Len(mq) < kQueueDepth
     THEN Queued
     ELSE /\ publisherPc' = "discard"
          /\ UNCHANGED <<mq, sent, pendingLatest, sendFailed>>
  /\ UNCHANGED <<stamp, consumerVars, queueExists, semaphore, lockExists,
                 crashVars>>

PublisherDiscard ==
  /\ publisherPc = "discard"
  /\ IF mq # <<>>
     THEN /\ mq' = Tail(mq)
          /\ publisherPc' = "resend"
          /\ UNCHANGED <<sent, pendingLatest, sendFailed>>
     ELSE SendFailed
  /\ UNCHANGED <<stamp, consumerVars, queueExists, semaphore, lockExists,
                 crashVars>>

PublisherResend ==
  /\ publisherPc = "resend"
  /\ IF Len(mq) < kQueueDepth THEN Queued ELSE SendFailed
  /\ UNCHANGED <<stamp, consumerVars, queueExists, semaphore, lockExists,
                 crashVars>>

(* Mutant: a publish that leaves the queue full keeps the lock.            *)
PublisherUnlockMutant ==
  /\ publisherPc = "unlock"
  /\ semaphore' = IF Len(mq) = kQueueDepth THEN semaphore ELSE semaphore + 1
  /\ publisherPc' = "idle"
  /\ UNCHANGED <<pendingLatest, stamp, sendFailed, consumerVars, mq,
                 queueExists, lockExists, sent, crashVars>>

PublisherUnlock ==
  /\ publisherPc = "unlock"
  /\ semaphore' = semaphore + 1
  /\ publisherPc' = "idle"
  /\ UNCHANGED <<pendingLatest, stamp, sendFailed, consumerVars, mq,
                 queueExists, lockExists, sent, crashVars>>

(* The process goes, and its LatestValuePublisher with it.                 *)
PublisherDies ==
  /\ publisherPc # "closed"
  /\ publisherPc' = "closed"
  /\ pendingLatest' = 0
  /\ leftHeld' = (leftHeld \/ PublisherHolds)
  /\ UNCHANGED <<stamp, sendFailed, consumerVars, objectVars, launchStamp>>

-----------------------------------------------------------------------------
(* LatestValueConsumer: open(), receiveLatest().                           *)

(* kNotFound changes nothing: the caller gives up or tries again later.    *)
ConsumerOpenLock ==
  /\ consumerPc = "closed"
  /\ lockExists
  /\ consumerPc' = "openQueue"
  /\ UNCHANGED <<publisherVars, candidate, drained, taken, objectVars, crashVars>>

ConsumerOpenQueue ==
  /\ consumerPc = "openQueue"
  /\ consumerPc' = IF queueExists THEN "idle" ELSE "closed"
  /\ UNCHANGED <<publisherVars, candidate, drained, taken, objectVars, crashVars>>

(* receiveLatest() when sem_trywait succeeds; kBusy changes nothing.       *)
ConsumerLock ==
  /\ consumerPc = "idle"
  /\ semaphore > 0
  /\ semaphore' = semaphore - 1
  /\ drained' = 0 /\ candidate' = 0
  /\ consumerPc' = "drain"
  /\ UNCHANGED <<publisherVars, taken, mq, queueExists, lockExists, sent, crashVars>>

(* Mutant: one message is received, not all of them.                       *)
ConsumerDrainMutant ==
  /\ consumerPc = "drain"
  /\ IF mq # <<>>
     THEN /\ candidate' = Head(mq) /\ mq' = Tail(mq)
          /\ UNCHANGED drained
     ELSE UNCHANGED <<candidate, mq, drained>>
  /\ consumerPc' = "unlock"
  /\ UNCHANGED <<publisherVars, taken, queueExists, semaphore, lockExists,
                 sent, crashVars>>

ConsumerDrain ==
  /\ consumerPc = "drain"
  /\ IF drained < kQueueDepth /\ mq # <<>>
     THEN /\ candidate' = Head(mq) /\ mq' = Tail(mq)
          /\ drained' = drained + 1
          /\ UNCHANGED consumerPc
     ELSE /\ consumerPc' = "unlock"
          /\ UNCHANGED <<candidate, mq, drained>>
  /\ UNCHANGED <<publisherVars, taken, queueExists, semaphore, lockExists,
                 sent, crashVars>>

(* The return, with kSuccess or kEmpty; the guard posts.                   *)
ConsumerUnlock ==
  /\ consumerPc = "unlock"
  /\ semaphore' = semaphore + 1
  /\ taken' = IF candidate = 0 THEN taken ELSE candidate
  /\ consumerPc' = "idle"
  /\ candidate' = 0 /\ drained' = 0
  /\ UNCHANGED <<publisherVars, mq, queueExists, lockExists, sent, crashVars>>

ConsumerDies ==
  /\ consumerPc # "closed"
  /\ consumerPc' = "closed"
  /\ candidate' = 0 /\ drained' = 0
  /\ leftHeld' = (leftHeld \/ ConsumerHolds)
  /\ UNCHANGED <<publisherVars, taken, objectVars, launchStamp>>

-----------------------------------------------------------------------------
(* Mutant: only the locks are unlinked.                                    *)
RelaunchMutant ==
  /\ publisherPc = "closed" /\ consumerPc = "closed"
  /\ lockExists' = FALSE /\ semaphore' = 0
  /\ leftHeld' = FALSE
  /\ launchStamp' = stamp
  /\ UNCHANGED <<publisherVars, consumerVars, mq, queueExists, sent>>

(* ipc_reset, which deployment runs before it starts any process.          *)
Relaunch ==
  /\ publisherPc = "closed" /\ consumerPc = "closed"
  /\ queueExists' = FALSE /\ mq' = <<>>
  /\ lockExists' = FALSE /\ semaphore' = 0
  /\ leftHeld' = FALSE
  /\ launchStamp' = stamp
  /\ UNCHANGED <<publisherVars, consumerVars, sent>>

PublisherCall ==
  PublisherSend \/ PublisherDiscard \/ PublisherResend \/ PublisherUnlock

ConsumerCall == ConsumerDrain \/ ConsumerUnlock

Next ==
  \/ PublisherOpenLock \/ PublisherOpenQueue \/ Publish \/ PublisherCall
  \/ ConsumerOpenLock \/ ConsumerOpenQueue \/ ConsumerLock \/ ConsumerCall
  \/ PublisherDies \/ ConsumerDies \/ Relaunch

Spec == Init /\ [][Next]_vars

(***************************************************************************)
(* Fairness.  A call that has the lock goes on to its end.  The consumer   *)
(* polls for ever; a poll that finds the lock held does nothing, and the   *)
(* lock is held for microseconds against a poll every second or more, so   *)
(* that not every poll meets it held (SF).  Nobody has to publish.         *)
(***************************************************************************)
LiveSpec ==
  /\ Spec
  /\ WF_vars(PublisherCall)
  /\ WF_vars(ConsumerCall)
  /\ WF_vars(ConsumerOpenLock) /\ WF_vars(ConsumerOpenQueue)
  /\ WF_vars(PublisherOpenQueue)
  /\ SF_vars(ConsumerLock)

-----------------------------------------------------------------------------
(* Every variable has its type. *)
Stamps == 0..MaxPublishes

QueueTypeOK ==
  /\ mq \in Seq(Stamps) /\ Len(mq) <= kQueueDepth
  /\ queueExists \in BOOLEAN
  /\ semaphore \in Nat
  /\ lockExists \in BOOLEAN
  /\ publisherPc \in {"closed", "openQueue", "idle", "send", "discard", "resend", "unlock"}
  /\ pendingLatest \in Stamps
  /\ consumerPc \in {"closed", "openQueue", "idle", "drain", "unlock"}
  /\ candidate \in Stamps
  /\ drained \in 0..kQueueDepth
  /\ taken \in Stamps
  /\ stamp \in Stamps
  /\ sent \in Stamps
  /\ sendFailed \in BOOLEAN
  /\ leftHeld \in BOOLEAN
  /\ launchStamp \in Stamps

(* The lock is free, or exactly one side is in its critical section, or a  *)
(* process died there: no path through publish() or receiveLatest(), a     *)
(* full or an empty queue included, keeps or doubles it, and a new         *)
(* deployment starts with it free.                                         *)
LockAccounted ==
  lockExists =>
    /\ semaphore = IF PublisherHolds \/ ConsumerHolds \/ leftHeld THEN 0 ELSE 1
    /\ ~(PublisherHolds /\ ConsumerHolds)

(* Replacing the oldest message of a full queue never fails: nobody can    *)
(* empty or refill the queue between the receive and the send.             *)
ReplaceNeverFails == ~sendFailed

(* The channel is a LatestValue channel: what a consumer gets is the       *)
(* newest value queued, once, and never older than one it had.             *)
Latest == INSTANCE LatestValue WITH
  available <- IF mq # <<>> THEN mq[Len(mq)] ELSE candidate,
  newest    <- sent

LatestSpec == Latest!Spec

(* A consumer never gets a value of an earlier deployment, whatever that   *)
(* left in the queue.                                                      *)
NothingStale == [][taken' # taken => taken' > launchStamp]_vars

(* What is queued is taken, or replaced by what is, unless the consumer is *)
(* gone or a process died with the lock.                                   *)
NewestTaken ==
  mq # <<>> ~> \/ mq = <<>> /\ taken = sent
               \/ consumerPc = "closed" \/ leftHeld

=============================================================================
