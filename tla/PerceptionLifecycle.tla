------------------------ MODULE PerceptionLifecycle -------------------------
(***************************************************************************)
(* How the threads of the perception process start and stop: the main      *)
(* thread (traffic_perception_application.cpp, perception_module.cpp), a   *)
(* stream worker of each lane (stream_worker.cpp) and the pipeline         *)
(* (pipeline_manager.cpp), which all wait at the StartupGate               *)
(* (startup_gate.h) until every one of them is ready.                      *)
(*                                                                         *)
(* A step is a critical section of the gate, an access to a running_ flag, *)
(* or a decision of the main thread.  The mutex is never held across a     *)
(* step; errors of the mutex and of the condition variable are left out.   *)
(* What the threads do in their loops is PerceptionFrames.                 *)
(***************************************************************************)
EXTENDS Integers, FiniteSets

CONSTANTS
  NUM_LANES,
  LocalFiles          (* lanes whose source never ends                     *)

Lanes       == 0..(NUM_LANES - 1)
PIPE        == NUM_LANES
MAIN        == NUM_LANES + 1
Threads     == 0..NUM_LANES
kWorkerCount == NUM_LANES + 1

ASSUME LifecycleAssumption == NUM_LANES \in Nat \ {0} /\ LocalFiles \subseteq Lanes

VARIABLES
  (* StartupGate *)
  readyCount, released_, cancelled_,
  asleep,             (* who waits on condition_                           *)
  (* the threads *)
  pc,                 (* "none", "prepare", "wait", "begin", "loop",       *)
                      (*   "ended", or "failed" if it never began          *)
  streamRunning,      (* StreamWorker::running_ of each lane               *)
  pipelineRunning,    (* PipelineManager::running_                         *)
  (* the main thread *)
  mainPc,
  created,            (* threads 0..created-1 exist, PIPE the last         *)
  started_,
  snapshotSenderOpen_

gateVars == <<readyCount, released_, cancelled_, asleep>>
flagVars == <<streamRunning, pipelineRunning>>
moduleVars == <<mainPc, created, started_, snapshotSenderOpen_>>
vars == <<gateVars, pc, flagVars, moduleVars>>

(* After initModule. *)
Init ==
  /\ readyCount = 0 /\ released_ = FALSE /\ cancelled_ = FALSE /\ asleep = {}
  /\ pc = [t \in Threads |-> "none"]
  /\ streamRunning = [l \in Lanes |-> TRUE] /\ pipelineRunning = FALSE
  /\ mainPc = "create" /\ created = 0
  /\ started_ = FALSE /\ snapshotSenderOpen_ = TRUE

-----------------------------------------------------------------------------
(***************************************************************************)
(* The gate.  Whoever changes what others wait for wakes them all.         *)
(***************************************************************************)

(* Mutant: cancel wakes nobody. *)
cancelMutant == cancelled_' = TRUE /\ UNCHANGED <<readyCount, released_, asleep>>

cancel == cancelled_' = TRUE /\ asleep' = {} /\ UNCHANGED <<readyCount, released_>>

(* arriveAndWait up to its wait or its return, for which Returns is the    *)
(* rest; a thread that sleeps has left the mutex.                          *)
Returns(t, next) ==
  pc' = [pc EXCEPT ![t] = IF ~released_ /\ ~cancelled_ THEN "wait"
                          ELSE IF released_ /\ ~cancelled_ THEN next ELSE "failed"]

arriveAndWait(t, next) ==
  /\ readyCount' = readyCount + 1
  /\ asleep' = IF ~released_ /\ ~cancelled_ THEN {t} ELSE {}
  /\ Returns(t, next)
  /\ UNCHANGED <<released_, cancelled_>>

Woken(t, next) ==
  /\ pc[t] = "wait" /\ t \notin asleep
  /\ asleep' = IF ~released_ /\ ~cancelled_ THEN asleep \cup {t} ELSE asleep
  /\ Returns(t, next)
  /\ UNCHANGED <<readyCount, released_, cancelled_>>

-----------------------------------------------------------------------------
(***************************************************************************)
(* StreamWorker::run.                                                      *)
(***************************************************************************)

(* Mutant: a worker is counted as ready before its source is tried.        *)
OpenFailsMutant(l) ==
  /\ pc[l] = "prepare"
  /\ readyCount' = readyCount + 1 /\ asleep' = {}
  /\ pc' = [pc EXCEPT ![l] = "failed"]
  /\ UNCHANGED <<released_, cancelled_, flagVars, moduleVars>>

(* The decoder thread, the source or one of the warm-up frames fails.      *)
OpenFails(l) ==
  /\ pc[l] = "prepare"
  /\ cancel
  /\ pc' = [pc EXCEPT ![l] = "failed"]
  /\ UNCHANGED <<flagVars, moduleVars>>

StreamArrives(l) ==
  /\ pc[l] = "prepare"
  /\ arriveAndWait(l, "loop")
  /\ UNCHANGED <<flagVars, moduleVars>>

StreamWoken(l) == Woken(l, "loop") /\ UNCHANGED <<flagVars, moduleVars>>

(* The test of running_ once a period, and a grab that ends a stream.      *)
StreamStops(l) ==
  /\ pc[l] = "loop" /\ ~streamRunning[l]
  /\ pc' = [pc EXCEPT ![l] = "ended"]
  /\ UNCHANGED <<gateVars, flagVars, moduleVars>>

StreamEnds(l) ==
  /\ pc[l] = "loop" /\ l \notin LocalFiles
  /\ pc' = [pc EXCEPT ![l] = "ended"]
  /\ UNCHANGED <<gateVars, flagVars, moduleVars>>

(***************************************************************************)
(* PipelineManager::run: after the gate it sets running_ itself.           *)
(***************************************************************************)
PipelineArrives ==
  /\ pc[PIPE] = "prepare"
  /\ arriveAndWait(PIPE, "begin")
  /\ UNCHANGED <<flagVars, moduleVars>>

PipelineWoken == Woken(PIPE, "begin") /\ UNCHANGED <<flagVars, moduleVars>>

PipelineBegins ==
  /\ pc[PIPE] = "begin"
  /\ pipelineRunning' = TRUE
  /\ pc' = [pc EXCEPT ![PIPE] = "loop"]
  /\ UNCHANGED <<gateVars, streamRunning, moduleVars>>

PipelineStops ==
  /\ pc[PIPE] = "loop" /\ ~pipelineRunning
  /\ pc' = [pc EXCEPT ![PIPE] = "ended"]
  /\ UNCHANGED <<gateVars, flagVars, moduleVars>>

-----------------------------------------------------------------------------
(***************************************************************************)
(* PerceptionModule::startThreads.                                         *)
(***************************************************************************)
CreateThread ==
  /\ mainPc = "create"
  /\ pc' = [pc EXCEPT ![created] = "prepare"]
  /\ created' = created + 1
  /\ mainPc' = IF created + 1 = kWorkerCount THEN "release" ELSE "create"
  /\ UNCHANGED <<gateVars, flagVars, started_, snapshotSenderOpen_>>

(* pthread_create fails, with the fallback attributes too.                 *)
CreateFails ==
  /\ mainPc = "create"
  /\ cancel
  /\ mainPc' = "stopStreams"
  /\ UNCHANGED <<pc, flagVars, created, started_, snapshotSenderOpen_>>

releaseWhenReady ==
  /\ mainPc = "release" /\ MAIN \notin asleep
  /\ IF cancelled_
     THEN mainPc' = "stopStreams" /\ cancel /\ UNCHANGED started_
     ELSE /\ IF readyCount < kWorkerCount
             THEN /\ asleep' = asleep \cup {MAIN}
                  /\ UNCHANGED <<released_, started_, mainPc>>
             ELSE /\ released_' = TRUE /\ asleep' = {}
                  /\ started_' = TRUE /\ mainPc' = "viewer"
          /\ UNCHANGED <<readyCount, cancelled_>>
  /\ UNCHANGED <<pc, flagVars, created, snapshotSenderOpen_>>

(***************************************************************************)
(* The rest of Initialize, and Run: the viewer, the health reporter, and   *)
(* the loop, which a stop request or any failure ends.                     *)
(***************************************************************************)
InitSucceeds ==
  /\ mainPc \in {"viewer", "health"}
  /\ mainPc' = IF mainPc = "viewer" THEN "health" ELSE "run"
  /\ UNCHANGED <<gateVars, pc, flagVars, created, started_, snapshotSenderOpen_>>

InitFails ==
  /\ mainPc \in {"viewer", "health"}
  /\ mainPc' = "stopStreams"
  /\ UNCHANGED <<gateVars, pc, flagVars, created, started_, snapshotSenderOpen_>>

RunEnds ==
  /\ mainPc = "run"
  /\ mainPc' = "stopStreams"
  /\ UNCHANGED <<gateVars, pc, flagVars, created, started_, snapshotSenderOpen_>>

(***************************************************************************)
(* stopThreads, and the way back out of startThreads, which stops and      *)
(* joins the threads there are but leaves the sender open.                 *)
(***************************************************************************)

(* Mutant: the last worker is forgotten. *)
StopStreamsMutant ==
  /\ mainPc = "stopStreams"
  /\ streamRunning' = [l \in Lanes |-> l = NUM_LANES - 1]
  /\ mainPc' = IF created = kWorkerCount THEN "stopPipeline" ELSE "join"
  /\ UNCHANGED <<gateVars, pc, pipelineRunning, created, started_, snapshotSenderOpen_>>

StopStreams ==
  /\ mainPc = "stopStreams"
  /\ streamRunning' = [l \in Lanes |-> FALSE]
  /\ mainPc' = IF created = kWorkerCount THEN "stopPipeline" ELSE "join"
  /\ UNCHANGED <<gateVars, pc, pipelineRunning, created, started_, snapshotSenderOpen_>>

StopPipeline ==
  /\ mainPc = "stopPipeline"
  /\ pipelineRunning' = FALSE
  /\ mainPc' = "join"
  /\ UNCHANGED <<gateVars, pc, streamRunning, created, started_, snapshotSenderOpen_>>

(* Mutant: the pipeline is not joined. *)
JoinMutant ==
  /\ mainPc = "join"
  /\ \A t \in 0..(created - 1) : t = PIPE \/ pc[t] \in {"ended", "failed"}
  /\ snapshotSenderOpen_' = (snapshotSenderOpen_ /\ ~started_)
  /\ started_' = FALSE
  /\ mainPc' = "returned"
  /\ UNCHANGED <<gateVars, pc, flagVars, created>>

Join ==
  /\ mainPc = "join"
  /\ \A t \in 0..(created - 1) : pc[t] \in {"ended", "failed"}
  /\ snapshotSenderOpen_' = (snapshotSenderOpen_ /\ ~started_)
  /\ started_' = FALSE
  /\ mainPc' = "returned"
  /\ UNCHANGED <<gateVars, pc, flagVars, created>>

-----------------------------------------------------------------------------
StreamStep(l) == StreamArrives(l) \/ StreamWoken(l) \/ StreamStops(l)

PipelineStep == PipelineArrives \/ PipelineWoken \/ PipelineBegins \/ PipelineStops

ModuleStep ==
  \/ CreateThread \/ releaseWhenReady \/ InitSucceeds
  \/ StopStreams \/ StopPipeline \/ Join

Next ==
  \/ \E l \in Lanes : StreamStep(l) \/ OpenFails(l) \/ StreamEnds(l)
  \/ PipelineStep
  \/ ModuleStep \/ CreateFails \/ InitFails \/ RunEnds

Spec == Init /\ [][Next]_vars

(* Every thread is scheduled, and its loop tests its flag once a period.   *)
LiveSpec ==
  /\ Spec
  /\ \A l \in Lanes : WF_vars(StreamStep(l) \/ OpenFails(l))
  /\ WF_vars(PipelineStep)
  /\ WF_vars(ModuleStep \/ CreateFails \/ InitFails)

-----------------------------------------------------------------------------
(* Every variable has its type. *)
LifecycleTypeOK ==
  /\ readyCount \in Nat
  /\ released_ \in BOOLEAN /\ cancelled_ \in BOOLEAN
  /\ asleep \subseteq Threads \cup {MAIN}
  /\ pc \in [Threads -> {"none", "prepare", "wait", "begin", "loop", "ended", "failed"}]
  /\ streamRunning \in [Lanes -> BOOLEAN] /\ pipelineRunning \in BOOLEAN
  /\ mainPc \in {"create", "release", "viewer", "health", "run", "stopStreams",
                 "stopPipeline", "join", "returned"}
  /\ created \in 0..kWorkerCount
  /\ started_ \in BOOLEAN /\ snapshotSenderOpen_ \in BOOLEAN

(* Either all threads pass the gate or none does: while one has begun, no  *)
(* other is missing, has failed, or will, in whatever order they arrive,   *)
(* fail or are cancelled.                                                  *)
AllOrNone ==
  (\E t \in Threads : pc[t] \in {"begin", "loop", "ended"}) =>
     \A t \in Threads : pc[t] \notin {"none", "prepare", "failed"}

(* When the application has returned, or the sender is closed, no thread   *)
(* is left that could use what is then destroyed.                          *)
NothingLeft ==
  mainPc = "returned" \/ ~snapshotSenderOpen_ =>
    \A t \in Threads : pc[t] \in {"none", "ended", "failed"}

(* Starting comes to an end, with all threads or with none, whichever      *)
(* fail, arrive late or are not even created.                              *)
StartDecided ==
  <>(mainPc \in {"viewer", "returned"})

(* A stop that finds the pipeline in its loop ends the process.            *)
StopCompletes ==
  (mainPc = "stopPipeline" /\ pc[PIPE] = "loop") ~> (mainPc = "returned")

(* Stated by adaptive_traffic_light_system_design.rst of every stop: it is *)
(* bounded.  A stop that comes between the gate and the pipeline's own     *)
(* running_ = true is overwritten, and the join never returns.             *)
StopIsBounded ==
  (mainPc = "stopPipeline") ~> (mainPc = "returned")

=============================================================================
