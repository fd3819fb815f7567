-------------------------- MODULE PerceptionFrames --------------------------
(***************************************************************************)
(* The frames of the perception process on their way from the pool         *)
(* (frame_pool.cpp) through a stream worker of each lane                   *)
(* (stream_worker.cpp), the slots of AtomicFrameBuffer, the one pipeline   *)
(* thread (pipeline_manager.cpp, inference_engine.cpp, analyzer.h) and the *)
(* viewer in the main thread (opencv_lanes_viewer.cpp), and back.          *)
(*                                                                         *)
(* A step is one access to shared memory: the pool under its mutex, an     *)
(* atomic exchange of a slot, the preview under its mutex.  What a thread  *)
(* does with a frame it owns belongs to the step before.  Starting and     *)
(* stopping the threads is PerceptionLifecycle's.                          *)
(*                                                                         *)
(* What an image shows is the lane it was decoded for; what inference      *)
(* finds in it is left out, and a lane's metrics are the number of the     *)
(* frame they were made from.                                              *)
(***************************************************************************)
EXTENDS Integers, Sequences, FiniteSets

CONSTANTS
  NUM_LANES,
  PoolSize,           (* FramePool::init                                   *)
  LocalFiles,         (* lanes whose source is a file, which starts again  *)
  MaxFrames           (* bound: captures of each lane                      *)

Lanes   == 0..(NUM_LANES - 1)
Frames  == 1..PoolSize
NoFrame == 0          (* nullptr                                           *)

(* initModule makes 20 frames for 4 lanes. *)
ASSUME FramesAssumption ==
  /\ NUM_LANES \in Nat \ {0}
  /\ PoolSize \in Nat /\ PoolSize > 4 * NUM_LANES
  /\ LocalFiles \subseteq Lanes
  /\ MaxFrames \in [Lanes -> Nat]

NoLane == -1          (* an image nothing was decoded into                 *)
Torn   == -2          (* an image read while another is decoded into it    *)
MaybeFrame == Frames \cup {NoFrame}

VARIABLES
  free_list,          (* as the vector, the frame to take next at its end  *)
  FrameId,            (* of each frame                                     *)
  image,              (* the lane that was decoded into its buffer last    *)
  (* stream workers *)
  workerPc,           (* "acquire", "decode", "exchange", "release" or     *)
                      (*   "ended", for each lane                          *)
  workerFrame,
  localFrameCounter,
  preview,            (* the frame whose buffer latestPreviewFrame_ shares *)
  buffers_,           (* the slots of AtomicFrameBuffer                    *)
  (* pipeline thread *)
  pipelinePc,         (* "take", "accept", "exchange", "release", "publish" *)
  laneId, engineFrame,
  Metrics,            (* of each lane: the frame they were made from       *)
  LatestRenderFrame,
  published,          (* what the last snapshot says of each lane          *)
  (* viewer *)
  viewerPc,           (* "preview", "take" or "render"                     *)
  viewerLane,
  previewFrames,      (* the clones: the lane each shows                   *)
  frames,
  lastRenderedFrames  (* the picture shown for each lane                   *)

poolVars     == <<free_list, FrameId>>
workerVars   == <<workerPc, workerFrame, localFrameCounter, preview, image>>
pipelineVars == <<pipelinePc, laneId, engineFrame, Metrics, published>>
viewerVars   == <<viewerPc, viewerLane, previewFrames, frames, lastRenderedFrames>>
vars == <<poolVars, workerVars, buffers_, pipelineVars, LatestRenderFrame, viewerVars>>

Nowhere == [l \in Lanes |-> NoFrame]
Zero    == [l \in Lanes |-> 0]
Blank   == [l \in Lanes |-> NoLane]

Init ==
  /\ free_list = [i \in Frames |-> i]
  /\ FrameId = [f \in Frames |-> 0]
  /\ image = [f \in Frames |-> NoLane]
  /\ workerPc = [l \in Lanes |-> "acquire"]
  /\ workerFrame = Nowhere /\ preview = Nowhere
  /\ localFrameCounter = Zero
  /\ buffers_ = Nowhere
  /\ pipelinePc = "take" /\ laneId = 0 /\ engineFrame = NoFrame
  /\ Metrics = Zero /\ published = Zero
  /\ LatestRenderFrame = Nowhere
  /\ viewerPc = "preview" /\ viewerLane = 0
  /\ previewFrames = Blank /\ frames = Nowhere /\ lastRenderedFrames = Blank

-----------------------------------------------------------------------------
release(f) ==
  /\ free_list' = Append(free_list, f)
  /\ FrameId' = [FrameId EXCEPT ![f] = 0]

(***************************************************************************)
(* StreamWorker::run, one turn of its loop.                                *)
(***************************************************************************)
acquire(l) ==
  /\ workerPc[l] = "acquire" /\ localFrameCounter[l] < MaxFrames[l]
  /\ IF free_list # <<>>
     THEN /\ workerFrame' = [workerFrame EXCEPT ![l] = free_list[Len(free_list)]]
          /\ free_list' = SubSeq(free_list, 1, Len(free_list) - 1)
          /\ workerPc' = [workerPc EXCEPT ![l] = "decode"]
     ELSE UNCHANGED <<workerFrame, free_list, workerPc>>
  /\ UNCHANGED <<FrameId, localFrameCounter, preview, image, buffers_,
                 pipelineVars, LatestRenderFrame, viewerVars>>

(* A grab that fails rewinds a file and ends the thread of a stream; a     *)
(* retrieve that fails is a capture skipped.                               *)
CaptureFails(l) ==
  /\ workerPc[l] = "decode"
  /\ release(workerFrame[l])
  /\ workerFrame' = [workerFrame EXCEPT ![l] = NoFrame]
  /\ \E pc \in {"acquire"} \cup (IF l \in LocalFiles THEN {} ELSE {"ended"}) :
       workerPc' = [workerPc EXCEPT ![l] = pc]
  /\ UNCHANGED <<localFrameCounter, preview, image, buffers_,
                 pipelineVars, LatestRenderFrame, viewerVars>>

(* The end of retrieve, and the preview made to share the frame's buffer.  *)
Retrieve(l) ==
  /\ workerPc[l] = "decode"
  /\ image' = [image EXCEPT ![workerFrame[l]] = l]
  /\ preview' = [preview EXCEPT ![l] = workerFrame[l]]
  /\ workerPc' = [workerPc EXCEPT ![l] = "exchange"]
  /\ UNCHANGED <<poolVars, workerFrame, localFrameCounter, buffers_,
                 pipelineVars, LatestRenderFrame, viewerVars>>

(* Mutant: the frame that was in the slot is not given back.               *)
exchangeMutant(l) ==
  /\ workerPc[l] = "exchange"
  /\ localFrameCounter' = [localFrameCounter EXCEPT ![l] = @ + 1]
  /\ FrameId' = [FrameId EXCEPT ![workerFrame[l]] = localFrameCounter[l] + 1]
  /\ buffers_' = [buffers_ EXCEPT ![l] = workerFrame[l]]
  /\ workerFrame' = [workerFrame EXCEPT ![l] = NoFrame]
  /\ workerPc' = [workerPc EXCEPT ![l] = "acquire"]
  /\ UNCHANGED <<free_list, preview, image, pipelineVars, LatestRenderFrame,
                 viewerVars>>

exchange(l) ==
  /\ workerPc[l] = "exchange"
  /\ localFrameCounter' = [localFrameCounter EXCEPT ![l] = @ + 1]
  /\ FrameId' = [FrameId EXCEPT ![workerFrame[l]] = localFrameCounter[l] + 1]
  /\ buffers_' = [buffers_ EXCEPT ![l] = workerFrame[l]]
  /\ workerFrame' = [workerFrame EXCEPT ![l] = buffers_[l]]
  /\ workerPc' = [workerPc EXCEPT ![l] =
                    IF buffers_[l] = NoFrame THEN "acquire" ELSE "release"]
  /\ UNCHANGED <<free_list, preview, image, pipelineVars, LatestRenderFrame,
                 viewerVars>>

ReleaseOld(l) ==
  /\ workerPc[l] = "release"
  /\ release(workerFrame[l])
  /\ workerFrame' = [workerFrame EXCEPT ![l] = NoFrame]
  /\ workerPc' = [workerPc EXCEPT ![l] = "acquire"]
  /\ UNCHANGED <<localFrameCounter, preview, image, buffers_,
                 pipelineVars, LatestRenderFrame, viewerVars>>

(***************************************************************************)
(* PipelineManager::runOneCycle: each lane in turn, then the snapshot.     *)
(***************************************************************************)
NextLane ==
  IF laneId + 1 < NUM_LANES
  THEN laneId' = laneId + 1 /\ pipelinePc' = "take"
  ELSE laneId' = 0 /\ pipelinePc' = "publish"

(* Mutant: the frame is read but stays in the slot (peek).                 *)
takeMutant ==
  /\ pipelinePc = "take"
  /\ engineFrame' = buffers_[laneId]
  /\ IF buffers_[laneId] = NoFrame THEN NextLane
     ELSE pipelinePc' = "accept" /\ UNCHANGED laneId
  /\ UNCHANGED <<poolVars, workerVars, buffers_, Metrics, published,
                 LatestRenderFrame, viewerVars>>

(* Mutant: a lane without a new frame has its metrics cleared.             *)
takeClearsMutant ==
  /\ pipelinePc = "take"
  /\ engineFrame' = buffers_[laneId]
  /\ buffers_' = [buffers_ EXCEPT ![laneId] = NoFrame]
  /\ IF buffers_[laneId] = NoFrame
     THEN NextLane /\ Metrics' = [Metrics EXCEPT ![laneId] = 0]
     ELSE pipelinePc' = "accept" /\ UNCHANGED <<laneId, Metrics>>
  /\ UNCHANGED <<poolVars, workerVars, published, LatestRenderFrame, viewerVars>>

take ==
  /\ pipelinePc = "take"
  /\ engineFrame' = buffers_[laneId]
  /\ buffers_' = [buffers_ EXCEPT ![laneId] = NoFrame]
  /\ IF buffers_[laneId] = NoFrame THEN NextLane
     ELSE pipelinePc' = "accept" /\ UNCHANGED laneId
  /\ UNCHANGED <<poolVars, workerVars, Metrics, published, LatestRenderFrame,
                 viewerVars>>

buildLaneMetrics(f) == FrameId[f]

(* infer, the filters and accept up to the metrics, which are replaced     *)
(* before the frame they belong to.                                        *)
accept ==
  /\ pipelinePc = "accept"
  /\ Metrics' = [Metrics EXCEPT ![laneId] = buildLaneMetrics(engineFrame)]
  /\ pipelinePc' = "exchange"
  /\ UNCHANGED <<poolVars, workerVars, buffers_, laneId, engineFrame, published,
                 LatestRenderFrame, viewerVars>>

HandOver ==
  /\ pipelinePc = "exchange"
  /\ LatestRenderFrame' = [LatestRenderFrame EXCEPT ![laneId] = engineFrame]
  /\ engineFrame' = LatestRenderFrame[laneId]
  /\ IF LatestRenderFrame[laneId] = NoFrame THEN NextLane
     ELSE pipelinePc' = "release" /\ UNCHANGED laneId
  /\ UNCHANGED <<poolVars, workerVars, buffers_, Metrics, published, viewerVars>>

ReleaseRendered ==
  /\ pipelinePc = "release"
  /\ release(engineFrame)
  /\ engineFrame' = NoFrame
  /\ NextLane
  /\ UNCHANGED <<workerVars, buffers_, Metrics, published, LatestRenderFrame,
                 viewerVars>>

(* buildTrafficSnapshot and broadcastSnapshot. *)
broadcastSnapshot ==
  /\ pipelinePc = "publish"
  /\ published' = Metrics
  /\ pipelinePc' = "take"
  /\ UNCHANGED <<poolVars, workerVars, buffers_, laneId, engineFrame, Metrics,
                 LatestRenderFrame, viewerVars>>

(***************************************************************************)
(* A content cycle of the viewer: latestPreviewFrames, takeRenderFrames,   *)
(* and the drawing of each lane.                                           *)
(***************************************************************************)
NextViewerLane(pc) ==
  IF viewerLane + 1 < NUM_LANES
  THEN viewerLane' = viewerLane + 1 /\ UNCHANGED viewerPc
  ELSE viewerLane' = 0 /\ viewerPc' = pc

(* What a reader of frame f's buffer sees now. *)
Seen(f) ==
  IF \E l \in Lanes : workerPc[l] = "decode" /\ workerFrame[l] = f
  THEN Torn ELSE image[f]

latestPreviewFrame ==
  /\ viewerPc = "preview"
  /\ previewFrames' = [previewFrames EXCEPT ![viewerLane] =
       IF preview[viewerLane] = NoFrame THEN NoLane ELSE Seen(preview[viewerLane])]
  /\ NextViewerLane("take")
  /\ UNCHANGED <<poolVars, workerVars, buffers_, pipelineVars, LatestRenderFrame,
                 frames, lastRenderedFrames>>

takeRenderFrame ==
  /\ viewerPc = "take"
  /\ frames' = [frames EXCEPT ![viewerLane] = LatestRenderFrame[viewerLane]]
  /\ LatestRenderFrame' = [LatestRenderFrame EXCEPT ![viewerLane] = NoFrame]
  /\ NextViewerLane("render")
  /\ UNCHANGED <<poolVars, workerVars, buffers_, pipelineVars, previewFrames,
                 lastRenderedFrames>>

(* An analysed frame is drawn and released; a lane that has shown nothing  *)
(* yet shows its preview.                                                  *)
render ==
  /\ viewerPc = "render"
  /\ IF frames[viewerLane] # NoFrame
     THEN /\ lastRenderedFrames' = [lastRenderedFrames EXCEPT ![viewerLane] =
                                      Seen(frames[viewerLane])]
          /\ release(frames[viewerLane])
     ELSE /\ lastRenderedFrames' = [lastRenderedFrames EXCEPT ![viewerLane] =
                                      IF @ = NoLane THEN previewFrames[viewerLane] ELSE @]
          /\ UNCHANGED poolVars
  /\ frames' = [frames EXCEPT ![viewerLane] = NoFrame]
  /\ previewFrames' = [previewFrames EXCEPT ![viewerLane] = NoLane]
  /\ NextViewerLane("preview")
  /\ UNCHANGED <<workerVars, buffers_, pipelineVars, LatestRenderFrame>>

-----------------------------------------------------------------------------
WorkerStep(l) ==
  \/ acquire(l) \/ CaptureFails(l) \/ Retrieve(l) \/ exchange(l) \/ ReleaseOld(l)

PipelineStep ==
  take \/ accept \/ HandOver \/ ReleaseRendered \/ broadcastSnapshot

ViewerStep == latestPreviewFrame \/ takeRenderFrame \/ render

Next == (\E l \in Lanes : WorkerStep(l)) \/ PipelineStep \/ ViewerStep

Spec == Init /\ [][Next]_vars

-----------------------------------------------------------------------------
(* Every variable has its type. *)
FramesTypeOK ==
  /\ free_list \in Seq(Frames)
  /\ FrameId \in [Frames -> Nat]
  /\ image \in [Frames -> Lanes \cup {NoLane}]
  /\ workerPc \in [Lanes -> {"acquire", "decode", "exchange", "release", "ended"}]
  /\ workerFrame \in [Lanes -> MaybeFrame]
  /\ localFrameCounter \in [Lanes -> Nat]
  /\ preview \in [Lanes -> MaybeFrame]
  /\ buffers_ \in [Lanes -> MaybeFrame]
  /\ pipelinePc \in {"take", "accept", "exchange", "release", "publish"}
  /\ laneId \in Lanes /\ engineFrame \in MaybeFrame
  /\ Metrics \in [Lanes -> Nat] /\ published \in [Lanes -> Nat]
  /\ LatestRenderFrame \in [Lanes -> MaybeFrame]
  /\ viewerPc \in {"preview", "take", "render"} /\ viewerLane \in Lanes
  /\ previewFrames \in [Lanes -> Lanes \cup {NoLane, Torn}]
  /\ frames \in [Lanes -> MaybeFrame]
  /\ lastRenderedFrames \in [Lanes -> Lanes \cup {NoLane, Torn}]

(* Each frame is in the hands of exactly one thread, in one slot, or free  *)
(* once: no path through a failing grab, a replaced frame or a cycle of    *)
(* the viewer loses a frame or gives it back twice.                        *)
Places ==
  {<<"free", i>> : i \in 1..Len(free_list)}
  \cup ({"worker", "slot", "render", "viewer"} \X Lanes)
  \cup {<<"engine", 0>>}

Held(p) ==
  CASE p[1] = "free"   -> free_list[p[2]]
    [] p[1] = "worker" -> workerFrame[p[2]]
    [] p[1] = "slot"   -> buffers_[p[2]]
    [] p[1] = "engine" -> engineFrame
    [] p[1] = "render" -> LatestRenderFrame[p[2]]
    [] p[1] = "viewer" -> frames[p[2]]

OneOwner ==
  \A f \in Frames : \E p \in Places : \A q \in Places : Held(q) = f <=> q = p

(* A worker never finds the pool empty, however slow the pipeline and the  *)
(* viewer are: no capture is skipped for want of a frame.                  *)
PoolNeverEmpty ==
  \A l \in Lanes : workerPc[l] = "acquire" => free_list # <<>>

(* No buffer is decoded into while it is analysed or drawn, and no lane    *)
(* shows the picture of another, not even as a preview, whose buffer is    *)
(* shared with a frame that has gone its way.                              *)
RightImage ==
  /\ pipelinePc = "accept" => Seen(engineFrame) = laneId
  /\ \A l \in Lanes :
       /\ frames[l] # NoFrame => Seen(frames[l]) = l
       /\ lastRenderedFrames[l] \in {NoLane, l}

(* A snapshot never says something older of a lane than an earlier one.    *)
SnapshotsForward ==
  [][ \A l \in Lanes : published'[l] >= published[l] ]_vars

=============================================================================
