--------------------- MODULE PerceptionLifecycleProofs ----------------------
(***************************************************************************)
(* Proofs about PerceptionLifecycle: for every number of lanes.            *)
(***************************************************************************)
EXTENDS PerceptionLifecycle, FiniteSetTheorems, TLAPS

-----------------------------------------------------------------------------
(* The threads that are past the gate or wait at it.                       *)
Arrived == {t \in Threads : pc[t] \in {"wait", "begin", "loop", "ended"}}

(* Without a cancel, the gate counts those threads, and none has failed.   *)
Counted ==
  ~cancelled_ => /\ readyCount = Cardinality(Arrived)
                 /\ \A t \in Threads : pc[t] # "failed"

(* The gate opens for all threads or for none.                             *)
Gate ==
  /\ released_ => ~cancelled_ /\ Arrived = Threads
  /\ (\E t \in Threads : pc[t] \in {"begin", "loop", "ended"}) => released_
  /\ mainPc \in {"create", "release"} => ~released_

(* Which threads there are, and what is left of them at the end.           *)
Made ==
  /\ \A t \in Threads : pc[t] = "none" <=> t >= created
  /\ mainPc = "create" => created < kWorkerCount
  /\ ~snapshotSenderOpen_ => mainPc = "returned"
  /\ mainPc = "returned" => \A t \in Threads : pc[t] \in {"none", "ended", "failed"}

Typed ==
  /\ readyCount \in Nat
  /\ pc \in [Threads -> {"none", "prepare", "wait", "begin", "loop", "ended", "failed"}]
  /\ created \in 0..kWorkerCount

LifecycleInv == Typed /\ Counted /\ Gate /\ Made

(* The threads are as many as the gate waits for, and the pipeline is the  *)
(* only one that is no stream.                                             *)
LEMMA ThreadsFinite ==
  /\ IsFiniteSet(Threads) /\ Cardinality(Threads) = kWorkerCount
  /\ PIPE \in Threads /\ Lanes \subseteq Threads /\ kWorkerCount \in Nat
<1>1. /\ 0 \in Int /\ NUM_LANES \in Int /\ 0 <= NUM_LANES /\ NUM_LANES - 0 + 1 = NUM_LANES + 1
  BY LifecycleAssumption
<1>2. IsFiniteSet(0..NUM_LANES) /\ Cardinality(0..NUM_LANES) = NUM_LANES + 1
  BY <1>1, FS_Interval
<1>3. QED
  BY <1>1, <1>2 DEF Threads, kWorkerCount, PIPE, Lanes

(* Before any thread is created none has arrived.                          *)
LEMMA LifecycleInit == Init => LifecycleInv
<1> SUFFICES ASSUME Init PROVE LifecycleInv
  OBVIOUS
<1>1. Arrived = {}
  BY DEF Init, Arrived
<1>2. Threads = 0..NUM_LANES /\ kWorkerCount = NUM_LANES + 1 /\ NUM_LANES \in Nat
  BY LifecycleAssumption DEF Threads, kWorkerCount
<1>3. Typed
  BY <1>2 DEF Typed, Init
<1>4. Counted
  BY <1>1, FS_EmptySet DEF Counted, Init
<1>5. Gate
  BY DEF Gate, Init
<1>6. Made
  BY <1>2 DEF Made, Init
<1>7. QED
  BY <1>3, <1>4, <1>5, <1>6 DEF LifecycleInv

(* A thread arrives: the gate counts one more, unless it is cancelled.     *)
LEMMA ArriveStep ==
  ASSUME LifecycleInv, NEW t \in Threads, NEW next \in {"loop", "begin"},
         pc[t] = "prepare", arriveAndWait(t, next), UNCHANGED <<flagVars, moduleVars>>
  PROVE  LifecycleInv'
<1>1. Typed /\ Counted /\ Gate /\ Made
  BY DEF LifecycleInv
<1>2. ~released_
  BY <1>1 DEF Gate, Arrived
<1>3. /\ pc' = [pc EXCEPT ![t] = IF cancelled_ THEN "failed" ELSE "wait"]
      /\ readyCount' = readyCount + 1 /\ UNCHANGED <<released_, cancelled_, moduleVars>>
  BY <1>2 DEF arriveAndWait, Returns
<1>4. Typed'
  BY <1>1, <1>3 DEF Typed, moduleVars
<1>5. ASSUME ~cancelled_
      PROVE  readyCount' = Cardinality(Arrived')
  <2>1. Arrived' = Arrived \cup {t} /\ t \notin Arrived
    BY <1>1, <1>3, <1>5 DEF Arrived, Typed
  <2>2. IsFiniteSet(Arrived)
    BY ThreadsFinite, FS_Subset DEF Arrived
  <2>3. QED
    BY <1>1, <1>3, <1>5, <2>1, <2>2, FS_AddElement DEF Counted
<1>6. Counted'
  BY <1>1, <1>3, <1>5 DEF Counted, Typed
<1>7. Gate'
  BY <1>1, <1>2, <1>3 DEF Gate, Typed, moduleVars
<1>8. Made'
  BY <1>1, <1>3 DEF Made, Typed, moduleVars
<1>9. QED
  BY <1>4, <1>6, <1>7, <1>8 DEF LifecycleInv

(* A thread that waited goes on, or back to sleep.                         *)
LEMMA WokenStep ==
  ASSUME LifecycleInv, NEW t \in Threads, NEW next \in {"loop", "begin"},
         Woken(t, next), UNCHANGED <<flagVars, moduleVars>>
  PROVE  LifecycleInv'
<1>1. Typed /\ Counted /\ Gate /\ Made
  BY DEF LifecycleInv
<1>2. /\ pc[t] = "wait" /\ UNCHANGED <<readyCount, released_, cancelled_, moduleVars>>
      /\ pc' = [pc EXCEPT ![t] = IF ~released_ /\ ~cancelled_ THEN "wait"
                                 ELSE IF released_ /\ ~cancelled_ THEN next ELSE "failed"]
  BY DEF Woken, Returns
<1>3. Typed'
  BY <1>1, <1>2 DEF Typed, moduleVars
<1>4. ~cancelled_ => Arrived' = Arrived
  BY <1>1, <1>2 DEF Typed, Arrived
<1>5. Counted'
  BY <1>1, <1>2, <1>4 DEF Counted, Typed
<1>6. Gate'
  BY <1>1, <1>2, <1>4 DEF Gate, Typed, moduleVars
<1>7. Made'
  BY <1>1, <1>2 DEF Made, Typed, moduleVars
<1>8. QED
  BY <1>3, <1>5, <1>6, <1>7 DEF LifecycleInv

(* A thread goes on inside its loop or out of it.                          *)
LEMMA LoopStep ==
  ASSUME LifecycleInv, NEW t \in Threads, NEW next \in {"loop", "ended"},
         pc[t] \in {"begin", "loop"}, pc' = [pc EXCEPT ![t] = next],
         UNCHANGED <<gateVars, moduleVars>>
  PROVE  LifecycleInv'
<1>1. Typed /\ Counted /\ Gate /\ Made
  BY DEF LifecycleInv
<1>2. Typed'
  BY <1>1 DEF Typed, moduleVars, gateVars
<1>3. Arrived' = Arrived
  BY <1>1 DEF Typed, Arrived
<1>4. Counted' /\ Gate'
  BY <1>1, <1>3 DEF Counted, Gate, Typed, gateVars, moduleVars
<1>5. Made'
  BY <1>1 DEF Made, Typed, moduleVars
<1>6. QED
  BY <1>2, <1>4, <1>5 DEF LifecycleInv

(* The main thread goes on without touching gate or threads.               *)
LEMMA MainStep ==
  ASSUME LifecycleInv, UNCHANGED <<readyCount, released_, cancelled_, pc, created>>,
         snapshotSenderOpen_' = snapshotSenderOpen_,
         mainPc # "returned", mainPc' \notin {"create", "returned"},
         mainPc' = "release" => ~released_
  PROVE  LifecycleInv'
BY DEF LifecycleInv, Typed, Counted, Gate, Made, Arrived

(* Every step keeps the invariant.                                         *)
LEMMA LifecycleNext == LifecycleInv /\ [Next]_vars => LifecycleInv'
<1> SUFFICES ASSUME LifecycleInv, [Next]_vars PROVE LifecycleInv'
  OBVIOUS
<1>t. Typed /\ Counted /\ Gate /\ Made
  BY DEF LifecycleInv
<1>l. Lanes \subseteq Threads /\ PIPE \in Threads
  BY ThreadsFinite
<1>1. ASSUME NEW l \in Lanes, StreamArrives(l) PROVE LifecycleInv'
  BY <1>1, <1>l, ArriveStep DEF StreamArrives
<1>2. ASSUME NEW l \in Lanes, StreamWoken(l) PROVE LifecycleInv'
  BY <1>2, <1>l, WokenStep DEF StreamWoken
<1>3. ASSUME NEW l \in Lanes, StreamStops(l) \/ StreamEnds(l) PROVE LifecycleInv'
  BY <1>3, <1>l, LoopStep DEF StreamStops, StreamEnds
<1>4. ASSUME NEW l \in Lanes, OpenFails(l) PROVE LifecycleInv'
  <2>1. ~released_
    BY <1>4, <1>l, <1>t DEF OpenFails, Gate, Arrived
  <2>2. /\ cancelled_' /\ ~released_' /\ readyCount' = readyCount
        /\ pc' = [pc EXCEPT ![l] = "failed"] /\ UNCHANGED moduleVars
    BY <1>4, <2>1 DEF OpenFails, cancel
  <2>3. pc[l] = "prepare" /\ l \in Threads
    BY <1>4, <1>l DEF OpenFails
  <2>4. Typed' /\ Counted' /\ Gate'
    BY <1>t, <2>1, <2>2, <2>3 DEF Typed, Counted, Gate, moduleVars
  <2>5. Made'
    BY <1>t, <2>2, <2>3 DEF Typed, Made, moduleVars
  <2>6. QED
    BY <2>4, <2>5 DEF LifecycleInv
<1>5. CASE PipelineArrives
  BY <1>5, <1>l, ArriveStep DEF PipelineArrives
<1>6. CASE PipelineWoken
  BY <1>6, <1>l, WokenStep DEF PipelineWoken
<1>7. CASE PipelineBegins
  BY <1>7, <1>l, LoopStep DEF PipelineBegins
<1>8. CASE PipelineStops
  BY <1>8, <1>l, LoopStep DEF PipelineStops
<1>9. CASE CreateThread
  <2>1. created \in Threads /\ created + 1 \in 0..kWorkerCount
    BY <1>9, <1>t, LifecycleAssumption DEF CreateThread, Made, Typed, Threads, kWorkerCount
  <2>2. /\ pc' = [pc EXCEPT ![created] = "prepare"] /\ created' = created + 1
        /\ UNCHANGED <<readyCount, released_, cancelled_, started_, snapshotSenderOpen_>>
        /\ mainPc = "create" /\ mainPc' \in {"create", "release"}
        /\ mainPc' = "create" => created + 1 # kWorkerCount
    BY <1>9 DEF CreateThread, gateVars
  <2>3. pc[created] = "none"
    BY <1>t, <2>1 DEF Made, Typed
  <2>4. Typed'
    BY <1>t, <2>1, <2>2 DEF Typed
  <2>5. Arrived' = Arrived
    BY <1>t, <2>1, <2>2, <2>3 DEF Typed, Arrived
  <2>6. Counted' /\ Gate'
    BY <1>t, <2>1, <2>2, <2>3, <2>5 DEF Typed, Counted, Gate
  <2>7. \A t \in Threads : pc'[t] = "none" <=> t >= created'
    BY <1>t, <2>1, <2>2 DEF Typed, Made, Threads
  <2>8. Made'
    BY <1>t, <2>1, <2>2, <2>7, ThreadsFinite DEF Made
  <2>9. QED
    BY <2>4, <2>6, <2>8 DEF LifecycleInv
<1>10. CASE CreateFails
  <2>1. /\ cancelled_' /\ ~released_' /\ readyCount' = readyCount /\ mainPc' = "stopStreams"
        /\ UNCHANGED <<pc, created, snapshotSenderOpen_>> /\ mainPc = "create"
    BY <1>10, <1>t DEF CreateFails, cancel, Gate
  <2>2. Typed' /\ Counted' /\ Made'
    BY <1>t, <2>1 DEF Typed, Counted, Made
  <2>3. Gate'
    BY <1>t, <2>1 DEF Gate
  <2>4. QED
    BY <2>2, <2>3 DEF LifecycleInv
<1>11. CASE releaseWhenReady
  <2>1. CASE cancelled_
    <3>1. UNCHANGED <<readyCount, released_, cancelled_, pc, created, snapshotSenderOpen_>>
      BY <1>11, <2>1 DEF releaseWhenReady, cancel
    <3>2. QED
      BY <1>11, <2>1, <3>1, MainStep DEF releaseWhenReady
  <2>2. CASE ~cancelled_ /\ readyCount < kWorkerCount
    BY <1>11, <1>t, <2>2, MainStep DEF releaseWhenReady, Gate
  <2>3. CASE ~cancelled_ /\ ~(readyCount < kWorkerCount)
    <3>1. /\ released_' /\ ~cancelled_' /\ mainPc' = "viewer" /\ mainPc = "release"
          /\ UNCHANGED <<readyCount, cancelled_, pc, created, snapshotSenderOpen_>>
      BY <1>11, <2>3 DEF releaseWhenReady
    <3>2. Arrived = Threads
      <4>1. Arrived \subseteq Threads
        BY DEF Arrived
      <4>2. Cardinality(Arrived) >= Cardinality(Threads)
        BY <1>t, <2>3, ThreadsFinite DEF Counted, Typed
      <4>3. Cardinality(Arrived) \in Nat /\ Cardinality(Threads) \in Nat
        BY <1>t, <2>3, ThreadsFinite DEF Counted, Typed
      <4>4. QED
        BY <4>1, <4>2, <4>3, ThreadsFinite, FS_Subset
    <3>3. Arrived' = Arrived
      BY <3>1 DEF Arrived
    <3>4. Typed' /\ Counted' /\ Made'
      BY <1>t, <3>1, <3>3 DEF Typed, Counted, Made
    <3>5. Gate'
      BY <3>1, <3>2, <3>3 DEF Gate
    <3>6. QED
      BY <3>4, <3>5 DEF LifecycleInv
  <2>4. QED
    BY <2>1, <2>2, <2>3
<1>12. CASE InitSucceeds \/ InitFails \/ RunEnds
  BY <1>12, MainStep DEF InitSucceeds, InitFails, RunEnds, gateVars
<1>13. CASE StopStreams \/ StopPipeline
  BY <1>13, MainStep DEF StopStreams, StopPipeline, gateVars
<1>14. CASE Join
  <2>1. /\ \A t \in 0..(created - 1) : pc[t] \in {"ended", "failed"}
        /\ mainPc' = "returned" /\ UNCHANGED <<readyCount, released_, cancelled_, pc, created>>
    BY <1>14 DEF Join, gateVars
  <2>2. \A t \in Threads : pc[t] \in {"none", "ended", "failed"}
    BY <1>t, <2>1 DEF Made, Typed, Threads
  <2>3. QED
    BY <1>t, <2>1, <2>2 DEF LifecycleInv, Typed, Counted, Gate, Made, Arrived
<1>15. CASE UNCHANGED vars
  BY <1>t, <1>15 DEF LifecycleInv, Typed, Counted, Gate, Made, Arrived, vars, gateVars,
     moduleVars
<1>16. QED
  BY <1>1, <1>2, <1>3, <1>4, <1>5, <1>6, <1>7, <1>8, <1>9, <1>10, <1>11, <1>12, <1>13,
     <1>14, <1>15 DEF Next, StreamStep, PipelineStep, ModuleStep

(* The invariant holds throughout.                                         *)
LEMMA LifecycleInvariant == Spec => []LifecycleInv
BY LifecycleInit, LifecycleNext, PTL DEF Spec

-----------------------------------------------------------------------------
(* The threads begin all together or not at all, for any number of lanes,  *)
(* whichever of them fail and in whatever order.                           *)
THEOREM StartTogether == Spec => []AllOrNone
<1>1. LifecycleInv => AllOrNone
  BY DEF LifecycleInv, Gate, Arrived, AllOrNone
<1>2. QED
  BY <1>1, LifecycleInvariant, PTL

(* No thread outlives what it uses.                                        *)
THEOREM NoneIsLeft == Spec => []NothingLeft
<1>1. LifecycleInv => NothingLeft
  BY DEF LifecycleInv, Made, NothingLeft
<1>2. QED
  BY <1>1, LifecycleInvariant, PTL

(* Every variable has its type.                                            *)
THEOREM LifecycleTyped == Spec => []LifecycleTypeOK
<1>1. ASSUME Init PROVE LifecycleTypeOK
  <2>1. created \in 0..kWorkerCount
    BY <1>1, LifecycleAssumption DEF Init, kWorkerCount
  <2>2. pc \in [Threads -> {"none", "prepare", "wait", "begin", "loop", "ended", "failed"}]
    BY <1>1 DEF Init
  <2>3. QED
    BY <1>1, <2>1, <2>2 DEF Init, LifecycleTypeOK
<1>2. LifecycleInv /\ LifecycleTypeOK /\ [Next]_vars => LifecycleTypeOK'
  <2> SUFFICES ASSUME LifecycleInv, LifecycleTypeOK, [Next]_vars PROVE LifecycleTypeOK'
    OBVIOUS
  <2> USE DEF LifecycleTypeOK, gateVars, flagVars, moduleVars
  <2>1. ASSUME NEW l \in Lanes, StreamStep(l) \/ OpenFails(l) \/ StreamEnds(l)
        PROVE  LifecycleTypeOK'
    <3>1. l \in Threads
      BY ThreadsFinite
    <3>2. CASE StreamArrives(l)
      BY <3>1, <3>2 DEF StreamArrives, arriveAndWait, Returns
    <3>o. CASE OpenFails(l)
      BY <3>1, <3>o DEF OpenFails, cancel
    <3>3. CASE StreamWoken(l)
      BY <3>1, <3>3 DEF StreamWoken, Woken, Returns
    <3>4. CASE StreamStops(l) \/ StreamEnds(l)
      BY <3>4 DEF StreamStops, StreamEnds
    <3>5. QED
      BY <2>1, <3>2, <3>o, <3>3, <3>4 DEF StreamStep
  <2>2. CASE PipelineStep
    <3>1. PIPE \in Threads
      BY ThreadsFinite
    <3>2. CASE PipelineArrives
      BY <3>1, <3>2 DEF PipelineArrives, arriveAndWait, Returns
    <3>3. CASE PipelineWoken
      BY <3>1, <3>3 DEF PipelineWoken, Woken, Returns
    <3>4. CASE PipelineBegins \/ PipelineStops
      BY <3>4 DEF PipelineBegins, PipelineStops
    <3>5. QED
      BY <2>2, <3>2, <3>3, <3>4 DEF PipelineStep
  <2>3. CASE CreateThread
    <3>1. created \in 0..kWorkerCount /\ created < kWorkerCount
      BY <2>3 DEF CreateThread, LifecycleInv, Made
    <3>2. created \in Threads /\ created + 1 \in 0..kWorkerCount
      BY <3>1, LifecycleAssumption DEF Threads, kWorkerCount
    <3>3. pc' = [pc EXCEPT ![created] = "prepare"] /\ created' = created + 1
      BY <2>3 DEF CreateThread
    <3>4. mainPc' \in {"create", "release"}
      BY <2>3 DEF CreateThread
    <3>5. QED
      BY <2>3, <3>2, <3>3, <3>4 DEF CreateThread
  <2>4. CASE CreateFails \/ InitSucceeds \/ InitFails \/ RunEnds
    BY <2>4 DEF CreateFails, cancel, InitSucceeds, InitFails, RunEnds
  <2>5. CASE releaseWhenReady
    BY <2>5 DEF releaseWhenReady, cancel
  <2>6. CASE StopStreams \/ StopPipeline \/ Join
    BY <2>6 DEF StopStreams, StopPipeline, Join
  <2>7. CASE UNCHANGED vars
    BY <2>7 DEF vars
  <2>8. QED
    BY <2>1, <2>2, <2>3, <2>4, <2>5, <2>6, <2>7 DEF Next, ModuleStep
<1>3. QED
  BY <1>1, <1>2, LifecycleInvariant, PTL DEF Spec

=============================================================================
