----------------------- MODULE LatestValueQueueProofs -----------------------
(***************************************************************************)
(* Proofs about LatestValueQueue, for every depth of the queue.            *)
(***************************************************************************)
EXTENDS LatestValueQueue, SequenceTheorems, TLAPS

-----------------------------------------------------------------------------
(* Increasing sequences of naturals, and what Append and Tail do to them.  *)

Increasing(q) == \A i, j \in 1..Len(q) : i < j => q[i] < q[j]
Above(q, n)   == \A i \in 1..Len(q) : q[i] > n
NewestIs(q, n) == q # <<>> => q[Len(q)] = n

(* Sending a newer value keeps the queue increasing.                       *)
LEMMA AppendFacts ==
  ASSUME NEW S \in SUBSET Nat, NEW q \in Seq(S), NEW v \in S, NEW n \in Nat,
         Increasing(q), NewestIs(q, n), v > n
  PROVE  /\ Append(q, v) \in Seq(S)
         /\ Len(Append(q, v)) = Len(q) + 1
         /\ Append(q, v) # <<>>
         /\ Increasing(Append(q, v))
         /\ NewestIs(Append(q, v), v)
         /\ \A m \in Nat : Above(q, m) /\ v > m => Above(Append(q, v), m)
<1> DEFINE a == Append(q, v)
<1>1. /\ a \in Seq(S) /\ Len(a) = Len(q) + 1 /\ Len(q) \in Nat
      /\ \A i \in 1..Len(q) : a[i] = q[i]
      /\ a[Len(q) + 1] = v
  BY AppendProperties, LenProperties
<1>2. \A i \in 1..Len(q) : q[i] \in Nat
  BY ElementOfSeq
<1>3. \A i \in 1..Len(q) : q[i] < v
  <2> SUFFICES ASSUME NEW i \in 1..Len(q) PROVE q[i] < v
    OBVIOUS
  <2>1. q # <<>> /\ Len(q) \in 1..Len(q)
    BY <1>1, EmptySeq
  <2>2. q[i] <= q[Len(q)]
    BY <1>1, <1>2, <2>1 DEF Increasing
  <2>3. QED
    BY <1>2, <2>1, <2>2 DEF NewestIs
<1> HIDE DEF a
<1>4. Increasing(a)
  BY <1>1, <1>3 DEF Increasing
<1>5. a # <<>> /\ NewestIs(a, v)
  BY <1>1, EmptySeq DEF NewestIs
<1>6. \A m \in Nat : Above(q, m) /\ v > m => Above(a, m)
  BY <1>1 DEF Above
<1>7. QED
  BY <1>1, <1>4, <1>5, <1>6 DEF a

(* What is above a value is above every smaller one.                       *)
LEMMA AboveLess ==
  ASSUME NEW S \in SUBSET Nat, NEW q \in Seq(S), NEW m \in Nat, NEW n \in Nat,
         n <= m, Above(q, m)
  PROVE  Above(q, n)
<1>1. \A i \in 1..Len(q) : q[i] \in Nat
  BY ElementOfSeq
<1>2. QED
  BY <1>1 DEF Above

(* Receiving the oldest value keeps the queue increasing.                  *)
LEMMA TailFacts ==
  ASSUME NEW S \in SUBSET Nat, NEW q \in Seq(S), q # <<>>, NEW n \in Nat,
         Increasing(q), NewestIs(q, n)
  PROVE  /\ Tail(q) \in Seq(S)
         /\ Head(q) \in S
         /\ Len(Tail(q)) = Len(q) - 1
         /\ Increasing(Tail(q))
         /\ Above(Tail(q), Head(q))
         /\ NewestIs(Tail(q), n)
         /\ Tail(q) = <<>> => Head(q) = n
         /\ Head(q) <= n
         /\ \A m \in Nat : Above(q, m) => Head(q) > m /\ Above(Tail(q), m)
<1> DEFINE t == Tail(q)
<1>1. /\ t \in Seq(S) /\ Len(t) = Len(q) - 1 /\ Len(q) \in Nat \ {0}
      /\ \A i \in 1..Len(t) : t[i] = q[i + 1]
      /\ Head(q) = q[1]
  BY HeadTailProperties, EmptySeq
<1>2. \A i \in 1..Len(q) : q[i] \in S /\ q[i] \in Nat
  BY ElementOfSeq
<1> HIDE DEF t
<1>3. \A i \in 1..Len(t) : i + 1 \in 1..Len(q)
  BY <1>1
<1>4. Increasing(t)
  <2> SUFFICES ASSUME NEW i \in 1..Len(t), NEW j \in 1..Len(t), i < j
               PROVE  t[i] < t[j]
    BY DEF Increasing
  <2>1. i + 1 < j + 1
    BY <1>1
  <2>2. QED
    BY <1>1, <1>3, <2>1 DEF Increasing
<1>5. Above(t, Head(q))
  <2> SUFFICES ASSUME NEW i \in 1..Len(t) PROVE t[i] > q[1]
    BY <1>1 DEF Above
  <2>1. q[1] < q[i + 1]
    BY <1>1, <1>3 DEF Increasing
  <2>2. QED
    BY <1>1, <1>2, <1>3, <2>1
<1>6. NewestIs(t, n)
  <2> SUFFICES ASSUME t # <<>> PROVE t[Len(t)] = n
    BY DEF NewestIs
  <2>1. Len(t) \in 1..Len(t)
    BY <1>1, EmptySeq
  <2>2. QED
    BY <1>1, <2>1 DEF NewestIs
<1>7. t = <<>> => Head(q) = n
  <2> SUFFICES ASSUME t = <<>> PROVE q[1] = n
    BY <1>1
  <2>1. Len(q) = 1
    BY <1>1, EmptySeq
  <2>2. q[Len(q)] = n
    BY DEF NewestIs
  <2>3. QED
    BY <2>1, <2>2
<1>8. Head(q) <= n
  BY <1>1, <1>2 DEF NewestIs, Increasing
<1>9. \A m \in Nat : Above(q, m) => Head(q) > m /\ Above(t, m)
  BY <1>1, <1>3 DEF Above
<1>10. QED
  BY <1>1, <1>2, <1>4, <1>5, <1>6, <1>7, <1>8, <1>9 DEF t

-----------------------------------------------------------------------------
(* The inductive invariant.                                                *)

(* Who holds the lock, what its holder may rely on, and that a process     *)
(* that is up has opened objects that exist.                               *)
LockInv ==
  /\ LockAccounted
  /\ leftHeld => ~PublisherHolds /\ ~ConsumerHolds
  /\ publisherPc # "closed" \/ consumerPc # "closed" \/ leftHeld => lockExists
  /\ ~lockExists => semaphore = 0
  /\ ~queueExists => mq = <<>>
  /\ consumerPc \in {"idle", "drain", "unlock"} => queueExists
  /\ ~(publisherPc \in {"closed", "openQueue"}) => queueExists
  /\ publisherPc = "discard" => Len(mq) = kQueueDepth
  /\ publisherPc = "resend"  => Len(mq) = kQueueDepth - 1
  /\ consumerPc = "drain"  => drained + Len(mq) <= kQueueDepth
  /\ consumerPc = "unlock" => mq = <<>>
  /\ ~ConsumerHolds => candidate = 0
  /\ ~sendFailed

(* The order of the values on their way from publish() to receiveLatest(). *)
OrderInv ==
  /\ Increasing(mq) /\ NewestIs(mq, sent)
  /\ Above(mq, taken) /\ Above(mq, candidate) /\ Above(mq, launchStamp)
  /\ candidate # 0 => taken < candidate /\ launchStamp < candidate
  /\ candidate <= sent /\ taken <= sent /\ sent <= stamp
  /\ mq = <<>> /\ candidate # 0 => candidate = sent
  /\ launchStamp <= stamp
  /\ publisherPc \in {"send", "discard", "resend"} =>
       pendingLatest = stamp /\ sent < stamp /\ launchStamp < stamp

IInv == QueueTypeOK /\ LockInv /\ OrderInv

-----------------------------------------------------------------------------
(* The invariant holds at the start.                                       *)
LEMMA InitIInv == Init => IInv
<1> SUFFICES ASSUME Init PROVE IInv
  OBVIOUS
<1>1. <<>> \in Seq(Stamps) /\ Len(<<>>) = 0
  BY EmptySeq
<1>2. QueueTypeOK
  <2>1. 0 \in Stamps /\ 0 \in 0..kQueueDepth /\ 0 <= kQueueDepth
    BY QueueAssumption DEF Stamps
  <2>2. mq \in Seq(Stamps) /\ Len(mq) <= kQueueDepth
    BY <1>1, <2>1 DEF Init
  <2>3. QED
    BY <2>1, <2>2 DEF Init, QueueTypeOK
<1>3. LockInv
  BY <1>1 DEF Init, LockInv, LockAccounted, ConsumerHolds
<1>4. OrderInv
  BY <1>1 DEF Init, OrderInv, Increasing, NewestIs, Above
<1>5. QED
  BY <1>2, <1>3, <1>4 DEF IInv

(* What is known of the queue in a state of IInv. *)
LEMMA QueueFacts ==
  ASSUME IInv
  PROVE  /\ Stamps \in SUBSET Nat
         /\ mq \in Seq(Stamps) /\ Len(mq) \in Nat
         /\ Len(mq) = 0 <=> mq = <<>>
BY EmptySeq, LenProperties, QueueAssumption DEF IInv, QueueTypeOK, Stamps

(* A value goes into the queue: what PublisherSend and PublisherResend do. *)
LEMMA QueuedIInv ==
  ASSUME IInv, publisherPc \in {"send", "resend"}, Len(mq) < kQueueDepth, Queued,
         UNCHANGED <<stamp, consumerVars, queueExists, semaphore, lockExists, crashVars>>
  PROVE  IInv'
<1> USE QueueAssumption DEF publisherVars, consumerVars, objectVars, crashVars
<1>1. pendingLatest = stamp /\ sent < stamp /\ pendingLatest \in Stamps /\ sent \in Nat
  BY DEF IInv, OrderInv, QueueTypeOK, Stamps
<1>2. Stamps \in SUBSET Nat /\ mq \in Seq(Stamps) /\ Increasing(mq) /\ NewestIs(mq, sent)
  BY QueueFacts DEF IInv, OrderInv
<1>3. /\ mq' \in Seq(Stamps) /\ Len(mq') = Len(mq) + 1 /\ mq' # <<>>
      /\ Increasing(mq') /\ NewestIs(mq', sent')
      /\ \A m \in Nat : Above(mq, m) /\ pendingLatest > m => Above(mq', m)
  BY <1>1, <1>2, AppendFacts DEF Queued
<1>4. QueueTypeOK'
  BY <1>1, <1>3, QueueFacts DEF IInv, QueueTypeOK, Queued, Stamps
<1>5. LockInv'
  BY <1>3 DEF IInv, LockInv, LockAccounted, Queued, PublisherHolds, ConsumerHolds
<1>6. OrderInv'
  <2>1. candidate \in Nat /\ taken \in Nat /\ launchStamp \in Nat
    BY DEF IInv, QueueTypeOK, Stamps
  <2>2. candidate <= sent /\ taken <= sent /\ launchStamp < stamp
    BY DEF IInv, OrderInv
  <2>3. Above(mq', taken) /\ Above(mq', candidate) /\ Above(mq', launchStamp)
    BY <1>1, <1>3, <2>1, <2>2 DEF IInv, OrderInv, QueueTypeOK, Stamps
  <2> SUFFICES /\ Increasing(mq') /\ NewestIs(mq', sent')
               /\ Above(mq', taken') /\ Above(mq', candidate') /\ Above(mq', launchStamp')
               /\ candidate' # 0 => taken' < candidate' /\ launchStamp' < candidate'
               /\ candidate' <= sent' /\ taken' <= sent' /\ sent' <= stamp'
               /\ launchStamp' <= stamp'
               /\ publisherPc' = "unlock" /\ mq' # <<>>
    BY DEF OrderInv, Increasing, NewestIs, Above
  <2>4. QED
    BY <1>1, <1>3, <2>1, <2>2, <2>3 DEF IInv, OrderInv, Queued, QueueTypeOK, Stamps
<1>7. QED
  BY <1>4, <1>5, <1>6 DEF IInv

(* The oldest message leaves the queue. *)
LEMMA RemovedFacts ==
  ASSUME IInv, mq # <<>>, mq' = Tail(mq), sent' = sent
  PROVE  /\ mq' \in Seq(Stamps) /\ Head(mq) \in Stamps /\ Len(mq') = Len(mq) - 1
         /\ Increasing(mq') /\ NewestIs(mq', sent')
         /\ Above(mq', Head(mq)) /\ Head(mq) <= sent
         /\ mq' = <<>> => Head(mq) = sent
         /\ \A m \in Nat : Above(mq, m) => Head(mq) > m /\ Above(mq', m)
<1>1. Stamps \in SUBSET Nat /\ mq \in Seq(Stamps) /\ Increasing(mq) /\ NewestIs(mq, sent)
      /\ sent \in Nat
  BY QueueFacts, QueueAssumption DEF IInv, OrderInv, QueueTypeOK, Stamps
<1>2. QED
  BY <1>1, TailFacts

(* Every system call, death and deployment keeps the invariant.            *)
LEMMA NextIInv == IInv /\ [Next]_vars => IInv'
<1> SUFFICES ASSUME IInv, [Next]_vars PROVE IInv'
  OBVIOUS
<1> USE QueueAssumption DEF publisherVars, consumerVars, objectVars, crashVars
<1>t. QueueTypeOK /\ LockInv /\ OrderInv
  BY DEF IInv
<1>n. /\ \A x \in Stamps : x \in Nat
      /\ {candidate, taken, sent, stamp, launchStamp, pendingLatest} \subseteq Stamps
  BY DEF IInv, QueueTypeOK, Stamps
<1>1. CASE PublisherOpenLock
  BY <1>1, <1>t, <1>n DEF PublisherOpenLock, IInv, QueueTypeOK, LockInv, LockAccounted,
     PublisherHolds, ConsumerHolds, OrderInv, Increasing, Above, NewestIs
<1>2. CASE PublisherOpenQueue
  BY <1>2, <1>t, <1>n DEF PublisherOpenQueue, IInv, QueueTypeOK, LockInv, LockAccounted,
     PublisherHolds, ConsumerHolds, OrderInv, Increasing, Above, NewestIs
<1>3. CASE Publish
  BY <1>3, <1>t, <1>n DEF Publish, IInv, QueueTypeOK, LockInv, LockAccounted, Stamps,
     PublisherHolds, ConsumerHolds, OrderInv, Increasing, Above, NewestIs
<1>4. CASE PublisherSend
  <2>1. CASE Len(mq) < kQueueDepth
    BY <1>4, <2>1, QueuedIInv DEF PublisherSend
  <2>2. CASE ~(Len(mq) < kQueueDepth)
    <3>1. Len(mq) = kQueueDepth
      BY <2>2, QueueFacts DEF IInv, QueueTypeOK
    <3>2. QED
      BY <1>4, <2>2, <3>1, <1>t, <1>n DEF PublisherSend, IInv, QueueTypeOK, LockInv,
         LockAccounted, PublisherHolds, ConsumerHolds, OrderInv, Increasing, Above, NewestIs
  <2>3. QED
    BY <2>1, <2>2
<1>5. CASE PublisherDiscard
  <2>1. mq # <<>> /\ Len(mq) = kQueueDepth
    BY <1>5, QueueFacts DEF PublisherDiscard, IInv, LockInv
  <2>2. mq' = Tail(mq) /\ sent' = sent
    BY <1>5, <2>1 DEF PublisherDiscard
  <2>3. /\ mq' \in Seq(Stamps) /\ Len(mq') = Len(mq) - 1
        /\ Increasing(mq') /\ NewestIs(mq', sent')
        /\ Above(mq', taken) /\ Above(mq', candidate) /\ Above(mq', launchStamp)
    BY <1>n, <2>1, <2>2, RemovedFacts DEF IInv, OrderInv
  <2>4. QueueTypeOK'
    BY <1>5, <1>t, <2>1, <2>3 DEF PublisherDiscard, QueueTypeOK
  <2>5. LockInv'
    BY <1>5, <1>t, <2>1, <2>3 DEF PublisherDiscard, LockInv, LockAccounted, PublisherHolds,
       ConsumerHolds
  <2>6. OrderInv'
    BY <1>5, <1>t, <2>1, <2>3 DEF PublisherDiscard, OrderInv, LockInv, LockAccounted,
       PublisherHolds, ConsumerHolds, Increasing, Above, NewestIs
  <2>7. QED
    BY <2>4, <2>5, <2>6 DEF IInv
<1>6. CASE PublisherResend
  <2>1. Len(mq) < kQueueDepth
    BY <1>6 DEF PublisherResend, IInv, LockInv
  <2>2. QED
    BY <1>6, <2>1, QueuedIInv DEF PublisherResend
<1>7. CASE PublisherUnlock
  BY <1>7, <1>t, <1>n DEF PublisherUnlock, IInv, QueueTypeOK, LockInv, LockAccounted,
     PublisherHolds, ConsumerHolds, OrderInv, Increasing, Above, NewestIs
<1>8. CASE PublisherDies
  BY <1>8, <1>t, <1>n DEF PublisherDies, IInv, QueueTypeOK, LockInv, LockAccounted, Stamps,
     PublisherHolds, ConsumerHolds, OrderInv, Increasing, Above, NewestIs
<1>9. CASE ConsumerOpenLock
  BY <1>9, <1>t, <1>n DEF ConsumerOpenLock, IInv, QueueTypeOK, LockInv, LockAccounted,
     PublisherHolds, ConsumerHolds, OrderInv, Increasing, Above, NewestIs
<1>10. CASE ConsumerOpenQueue
  BY <1>10, <1>t, <1>n DEF ConsumerOpenQueue, IInv, QueueTypeOK, LockInv, LockAccounted,
     PublisherHolds, ConsumerHolds, OrderInv, Increasing, Above, NewestIs
<1>11. CASE ConsumerLock
  <2>1. ~ConsumerHolds /\ candidate = 0 /\ semaphore = 1 /\ ~PublisherHolds /\ ~leftHeld
    BY <1>11, <1>t DEF ConsumerLock, LockInv, LockAccounted, ConsumerHolds, PublisherHolds,
       QueueTypeOK
  <2>2. QueueTypeOK'
    BY <1>11, <2>1, <1>t DEF ConsumerLock, QueueTypeOK, Stamps
  <2>3. LockInv'
    BY <1>11, <2>1, <1>t, QueueFacts DEF ConsumerLock, LockInv, LockAccounted, ConsumerHolds,
       PublisherHolds, QueueTypeOK
  <2>4. OrderInv'
    BY <1>11, <2>1, <1>t, <1>n DEF ConsumerLock, OrderInv, Increasing, Above, NewestIs
  <2>5. QED
    BY <2>2, <2>3, <2>4 DEF IInv
<1>12. CASE ConsumerDrain
  <2>1. CASE drained < kQueueDepth /\ mq # <<>>
    <3>1. mq' = Tail(mq) /\ sent' = sent /\ candidate' = Head(mq) /\ drained' = drained + 1
      BY <1>12, <2>1 DEF ConsumerDrain
    <3>2. /\ mq' \in Seq(Stamps) /\ Head(mq) \in Stamps /\ Len(mq') = Len(mq) - 1
          /\ Increasing(mq') /\ NewestIs(mq', sent')
          /\ Above(mq', candidate') /\ candidate' <= sent
          /\ Above(mq', taken) /\ Above(mq', launchStamp)
          /\ candidate' > taken /\ candidate' > launchStamp
          /\ mq' = <<>> => candidate' = sent'
      BY <1>n, <2>1, <3>1, RemovedFacts DEF IInv, OrderInv
    <3>3. QueueTypeOK'
      BY <1>12, <1>t, <2>1, <3>1, <3>2, QueueFacts DEF ConsumerDrain, QueueTypeOK
    <3>4. LockInv'
      <4>1. consumerPc = "drain" /\ drained + Len(mq) <= kQueueDepth
        BY <1>12, <1>t DEF ConsumerDrain, LockInv
      <4>2. drained' + Len(mq') <= kQueueDepth
        BY <1>t, <3>1, <3>2, <4>1, QueueFacts DEF QueueTypeOK
      <4>3. ~PublisherHolds
        BY <1>t, <4>1 DEF LockInv, LockAccounted, ConsumerHolds
      <4>4. QED
        BY <1>12, <1>t, <2>1, <4>1, <4>2, <4>3 DEF ConsumerDrain, LockInv, LockAccounted,
           PublisherHolds, ConsumerHolds
    <3>5. OrderInv'
      BY <1>12, <1>t, <2>1, <3>1, <3>2 DEF ConsumerDrain, OrderInv, Increasing, Above, NewestIs
    <3>6. QED
      BY <3>3, <3>4, <3>5 DEF IInv
  <2>2. CASE ~(drained < kQueueDepth /\ mq # <<>>)
    <3>1. mq = <<>>
      BY <1>12, <2>2, <1>t, QueueFacts DEF ConsumerDrain, LockInv, QueueTypeOK
    <3>2. QED
      BY <1>12, <2>2, <3>1, <1>t, <1>n DEF ConsumerDrain, IInv, QueueTypeOK, LockInv,
         LockAccounted, PublisherHolds, ConsumerHolds, OrderInv, Increasing, Above, NewestIs
  <2>3. QED
    BY <2>1, <2>2
<1>13. CASE ConsumerUnlock
  <2>1. mq = <<>> /\ ConsumerHolds /\ lockExists /\ semaphore = 0
    BY <1>13, <1>t DEF ConsumerUnlock, LockInv, LockAccounted, ConsumerHolds
  <2>2. QueueTypeOK'
    BY <1>13, <1>t, <1>n DEF ConsumerUnlock, QueueTypeOK, Stamps
  <2>3. LockInv'
    BY <1>13, <2>1, <1>t DEF ConsumerUnlock, LockInv, LockAccounted, ConsumerHolds,
       PublisherHolds
  <2>4. OrderInv'
    BY <1>13, <2>1, <1>t, <1>n, EmptySeq DEF ConsumerUnlock, OrderInv, Increasing, Above, NewestIs
  <2>5. QED
    BY <2>2, <2>3, <2>4 DEF IInv
<1>14. CASE ConsumerDies
  <2>1. QueueTypeOK'
    BY <1>14, <1>t, <1>n DEF ConsumerDies, QueueTypeOK, Stamps
  <2>2. LockInv'
    BY <1>14, <1>t DEF ConsumerDies, LockInv, LockAccounted, ConsumerHolds, PublisherHolds
  <2>3. Above(mq, 0)
    BY <1>t, <1>n, QueueFacts, AboveLess DEF OrderInv
  <2>4. OrderInv'
    BY <1>14, <2>3, <1>t, <1>n DEF ConsumerDies, OrderInv, Increasing, Above, NewestIs
  <2>5. QED
    BY <2>1, <2>2, <2>4 DEF IInv
<1>15. CASE Relaunch
  <2>1. <<>> \in Seq(Stamps) /\ Len(<<>>) = 0
    BY EmptySeq
  <2>2. QueueTypeOK'
    <3>1. mq' \in Seq(Stamps) /\ Len(mq') <= kQueueDepth
      BY <1>15, <2>1 DEF Relaunch
    <3>2. QED
      BY <1>15, <3>1, <1>t, <1>n DEF Relaunch, QueueTypeOK
  <2>3. LockInv'
    BY <1>15, <2>1, <1>t DEF Relaunch, LockInv, LockAccounted, ConsumerHolds, PublisherHolds
  <2>4. OrderInv'
    BY <1>15, <2>1, <1>t, <1>n DEF Relaunch, OrderInv, LockInv, ConsumerHolds, Increasing, Above,
       NewestIs
  <2>5. QED
    BY <2>2, <2>3, <2>4 DEF IInv
<1>16. CASE UNCHANGED vars
  BY <1>16, <1>t DEF vars, IInv, QueueTypeOK, LockInv, LockAccounted, PublisherHolds,
     ConsumerHolds, OrderInv, Increasing, Above, NewestIs
<1>17. QED
  BY <1>1, <1>2, <1>3, <1>4, <1>5, <1>6, <1>7, <1>8, <1>9, <1>10, <1>11, <1>12, <1>13, <1>14,
     <1>15, <1>16 DEF Next, PublisherCall, ConsumerCall

-----------------------------------------------------------------------------
(* IInv holds in every reachable state, for every depth of the queue. *)
THEOREM Invariance == Spec => []IInv
<1>1. QED
  BY InitIInv, NextIInv, PTL DEF Spec

(* Every variable of the channel keeps its type. *)
THEOREM QueueTypes == Spec => []QueueTypeOK
<1>1. IInv => QueueTypeOK
  BY DEF IInv
<1>2. QED
  BY <1>1, Invariance, PTL

(* The lock is free, held by exactly one live process, or was left held by *)
(* one that died: publish() and receiveLatest() never leak or double it.   *)
THEOREM LockNeverLeaks == Spec => []LockAccounted
<1>1. IInv => LockAccounted
  BY DEF IInv, LockInv
<1>2. QED
  BY <1>1, Invariance, PTL

(* A publish() into a full queue always succeeds once it has the lock.     *)
THEOREM ReplaceWorks == Spec => []ReplaceNeverFails
<1>1. IInv => ReplaceNeverFails
  BY DEF IInv, LockInv, ReplaceNeverFails
<1>2. QED
  BY <1>1, Invariance, PTL

(* Only the end of a receiveLatest() changes what the consumer has, and    *)
(* what it returns was published in this deployment.                       *)
THEOREM OnlyThisDeployment == Spec => NothingStale
<1>1. ASSUME IInv, [Next]_vars PROVE [taken' # taken => taken' > launchStamp]_vars
  <2> SUFFICES ASSUME taken' # taken PROVE taken' > launchStamp
    OBVIOUS
  <2> USE DEF publisherVars, consumerVars, objectVars, crashVars
  <2>1. ConsumerUnlock
    BY <1>1 DEF Next, vars, PublisherCall, ConsumerCall, PublisherOpenLock,
       PublisherOpenQueue, Publish, PublisherSend, PublisherDiscard, PublisherResend,
       PublisherUnlock, ConsumerOpenLock, ConsumerOpenQueue, ConsumerLock, ConsumerDrain,
       PublisherDies, ConsumerDies, Relaunch
  <2>2. taken' = candidate /\ candidate # 0
    BY <2>1 DEF ConsumerUnlock
  <2>3. launchStamp < candidate /\ launchStamp \in Nat /\ candidate \in Nat
    BY <1>1, <2>2, QueueAssumption DEF IInv, OrderInv, QueueTypeOK, Stamps
  <2>4. QED
    BY <2>2, <2>3
<1>2. QED
  BY <1>1, Invariance, PTL DEF Spec, NothingStale

-----------------------------------------------------------------------------
(* The refinement of LatestValue.                                          *)

Available == IF mq # <<>> THEN mq[Len(mq)] ELSE candidate

(* A step that leaves Available, sent and taken alone is a stutter.        *)
LEMMA StepRefines ==
  ASSUME IInv, [Next]_vars
  PROVE  \/ UNCHANGED <<Available, sent, taken>>
         \/ sent' > sent /\ Available' = sent' /\ taken' = taken
         \/ Available # 0 /\ taken' = Available /\ Available' = 0 /\ sent' = sent
         \/ Available' = 0 /\ UNCHANGED <<sent, taken>>
<1> USE QueueAssumption DEF publisherVars, consumerVars, objectVars, crashVars
<1> DEFINE Goal == \/ UNCHANGED <<Available, sent, taken>>
                   \/ sent' > sent /\ Available' = sent' /\ taken' = taken
                   \/ Available # 0 /\ taken' = Available /\ Available' = 0 /\ sent' = sent
                   \/ Available' = 0 /\ UNCHANGED <<sent, taken>>
<1>a. mq # <<>> => Available = sent
  BY DEF IInv, OrderInv, NewestIs, Available
<1>q. ASSUME IInv' PROVE mq' # <<>> => Available' = sent'
  BY <1>q DEF IInv, OrderInv, NewestIs, Available
<1>i. IInv'
  BY NextIInv
<1>1. ASSUME publisherPc \in {"send", "resend"}, Queued, taken' = taken PROVE Goal
  <2>1. sent' = pendingLatest /\ pendingLatest = stamp /\ sent < stamp
        /\ sent \in Nat /\ stamp \in Nat
    BY <1>1 DEF Queued, IInv, OrderInv, QueueTypeOK, Stamps
  <2>2. mq' # <<>>
    BY <1>1, <2>1, QueueFacts, AppendFacts DEF Queued, IInv, OrderInv, QueueTypeOK
  <2>3. QED
    BY <1>1, <1>q, <1>i, <2>1, <2>2
<1>2. CASE PublisherSend \/ PublisherResend
  <2>1. CASE PublisherSend /\ Len(mq) < kQueueDepth
    BY <1>1, <2>1 DEF PublisherSend
  <2>2. CASE PublisherSend /\ ~(Len(mq) < kQueueDepth)
    BY <2>2 DEF PublisherSend, Available
  <2>3. CASE PublisherResend
    <3>1. Len(mq) < kQueueDepth
      BY <2>3 DEF PublisherResend, IInv, LockInv
    <3>2. QED
      BY <1>1, <2>3, <3>1 DEF PublisherResend
  <2>4. QED
    BY <1>2, <2>1, <2>2, <2>3
<1>3. CASE PublisherDiscard
  <2>1. mq # <<>> /\ Len(mq) > 1
    BY <1>3, QueueFacts DEF PublisherDiscard, IInv, LockInv
  <2>2. mq' = Tail(mq) /\ sent' = sent /\ taken' = taken
    BY <1>3, <2>1 DEF PublisherDiscard
  <2>3. Len(mq') = Len(mq) - 1
    BY <2>1, <2>2, RemovedFacts
  <2>4. mq' # <<>>
    BY <2>1, <2>3, QueueFacts, EmptySeq
  <2>5. QED
    BY <1>a, <1>q, <1>i, <2>1, <2>2, <2>4
<1>4. CASE ConsumerDrain
  <2>1. CASE drained < kQueueDepth /\ mq # <<>>
    <3>1. mq' = Tail(mq) /\ candidate' = Head(mq) /\ sent' = sent /\ taken' = taken
      BY <1>4, <2>1 DEF ConsumerDrain
    <3>2. mq' = <<>> => Head(mq) = sent
      BY <2>1, <3>1, RemovedFacts
    <3>3. mq' = <<>> => Available' = candidate'
      BY DEF Available
    <3>4. QED
      BY <1>a, <1>q, <1>i, <2>1, <3>1, <3>2, <3>3
  <2>2. CASE ~(drained < kQueueDepth /\ mq # <<>>)
    BY <1>4, <2>2 DEF ConsumerDrain, Available
  <2>3. QED
    BY <2>1, <2>2
<1>5. CASE ConsumerUnlock
  <2>1. mq = <<>> /\ mq' = <<>> /\ candidate' = 0 /\ sent' = sent
    BY <1>5 DEF ConsumerUnlock, IInv, LockInv
  <2>2. QED
    BY <1>5, <2>1 DEF ConsumerUnlock, Available
<1>6. CASE ConsumerLock \/ ConsumerDies
  <2>1. mq' = mq /\ sent' = sent /\ taken' = taken /\ candidate' = 0
    BY <1>6 DEF ConsumerLock, ConsumerDies
  <2>2. QED
    BY <2>1 DEF Available
<1>7. CASE Relaunch
  <2>1. mq' = <<>> /\ candidate' = 0 /\ sent' = sent /\ taken' = taken
    BY <1>7 DEF Relaunch, IInv, LockInv, ConsumerHolds
  <2>2. QED
    BY <2>1 DEF Available
<1>8. CASE \/ PublisherOpenLock \/ PublisherOpenQueue \/ Publish \/ PublisherUnlock
           \/ PublisherDies \/ ConsumerOpenLock \/ ConsumerOpenQueue \/ UNCHANGED vars
  <2>1. UNCHANGED <<mq, candidate, sent, taken>>
    BY <1>8 DEF PublisherOpenLock, PublisherOpenQueue, Publish, PublisherUnlock,
       PublisherDies, ConsumerOpenLock, ConsumerOpenQueue, vars
  <2>2. QED
    BY <2>1 DEF Available
<1>9. QED
  BY <1>2, <1>3, <1>4, <1>5, <1>6, <1>7, <1>8 DEF Next, PublisherCall, ConsumerCall

(* LatestValueQueue implements LatestValue: whatever dies and whenever,    *)
(* the consumer gets the newest value queued, each at most once, and never *)
(* an older one after a newer one.                                         *)
THEOREM ImplementsLatestValue == Spec => LatestSpec
<1>1. Init => Latest!Init
  BY DEF Init, Latest!Init
<1>2. IInv /\ [Next]_vars => [Latest!Next]_<<Available, sent, taken>>
  BY StepRefines DEF Latest!Next, Latest!MakeAvailable, Latest!Take, Latest!Lose, Available
<1>3. QED
  BY <1>1, <1>2, Invariance, PTL DEF Spec, LatestSpec, Latest!Spec, Available

=============================================================================
