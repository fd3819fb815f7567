----------------------------- MODULE Detections -----------------------------
(***************************************************************************)
(* From the answer of the model to the numbers of a lane: what one lane    *)
(* gets in InferenceEngine::runOneCycle, with the three backends           *)
(* (yolov8_backend.cpp, yolov8_oiv7_backend.cpp, rt_detrv2_backend.cpp)    *)
(* and the queue length of analyzer.h.                                     *)
(*                                                                         *)
(* The model is ONNX Runtime with a trained network: it answers with any   *)
(* anchors of a palette, in any order, or throws.  A box is a column of    *)
(* the lane and an extent of rows, the direction in which a queue grows;   *)
(* boxes of different columns do not overlap.  The region of interest is a *)
(* band of rows.  Confidences and thresholds are percentages, lengths are  *)
(* rows.  The occupancy, a count of pixels, is left out.  No backend keeps *)
(* anything from one frame for the next, so one frame is enough.           *)
(***************************************************************************)
EXTENDS Letterbox, Sequences, FiniteSets, SequencesExt, FiniteSetsExt

CONSTANTS
  Backend,               (* "yolov8", "yolov8_oiv7" or "rt_detrv2"         *)
  EmergencyClass,        (* emergencyClass_, by backend                    *)
  ConfThreshold,         (* confThreshold_ and confidenceThreshold_        *)
  NmsThreshold,          (* nmsThreshold_                                  *)
  FrameRows, FrameCols,  (* of the image, columns being the longer side    *)
  RoiTop, RoiBottom,     (* first and last row of the region               *)
  Palette,               (* what the model may see, by backend             *)
  MaxAnchors             (* bound: anchors of an answer                    *)

ASSUME DetectionsAssumption ==
  /\ Backend \subseteq {"yolov8", "yolov8_oiv7", "rt_detrv2"}
  /\ FrameCols \in Nat \ {0} /\ FrameRows \in 1..FrameCols
  /\ RoiTop \in Nat /\ RoiBottom \in Nat /\ RoiTop < RoiBottom /\ RoiBottom < FrameRows
  /\ Palette \in [Backend -> SUBSET [column : Nat, y1 : Int, y2 : Int,
                                     class : STRING, score : Int]]
  /\ MaxAnchors \in Nat

VARIABLES
  backend,     (* of the configuration                                     *)
  stage,       (* "runtime" while the model works, "published"             *)
  anchors,     (* the rows of output_tensors                               *)
  failed,      (* infer caught an exception                                *)
  Metrics      (* LaneMetrics of the lane, and of the snapshot             *)

vars == <<backend, stage, anchors, failed, Metrics>>

Coco == {"yolov8", "rt_detrv2"}
Yolo == {"yolov8", "yolov8_oiv7"}

-----------------------------------------------------------------------------
(* Boxes                                                                   *)

Height(d) == d.bottom - d.top
Common(d, e) ==
  IF d.column # e.column THEN 0
  ELSE Max({0, Min({d.bottom, e.bottom}) - Max({d.top, e.top})})

(* The overlap of two boxes is above the threshold; OpenCV lets two empty  *)
(* boxes coincide, wherever they are.                                      *)
Overlapping(d, e) ==
  LET union == Height(d) + Height(e) - Common(d, e)
  IN  Height(d) + Height(e) <= 0 \/ 100 * Common(d, e) > NmsThreshold * union

(* The members of a set of indices by their keys, equal ones as they were. *)
Ordered(I, key) ==
  LET before(i) == {j \in I : key[j] < key[i] \/ (key[j] = key[i] /\ j < i)}
  IN  [n \in 1..Cardinality(I) |-> CHOOSE i \in I : Cardinality(before(i)) = n - 1]

SortedBy(s, key) == LET order == Ordered(DOMAIN s, key) IN [n \in DOMAIN order |-> s[order[n]]]

(* The elements of a sequence at some of its indices.                      *)
ElementsAt(s, I) ==
  LET order == Ordered(I, [i \in I |-> i]) IN [n \in DOMAIN order |-> s[order[n]]]

(* cv::dnn::NMSBoxes: from the most confident box on, those are kept that  *)
(* overlap none kept before.                                               *)
Sooner(s, i, j) ==
  s[i].confidence > s[j].confidence \/ (s[i].confidence = s[j].confidence /\ i < j)

Kept(s) ==
  CHOOSE K \in SUBSET DOMAIN s :
    \A j \in DOMAIN s : j \in K <=> ~\E i \in K : Sooner(s, i, j) /\ Overlapping(s[i], s[j])

NMSBoxes(s) ==
  LET order == Ordered(Kept(s), [i \in DOMAIN s |-> -s[i].confidence])
  IN  [n \in DOMAIN order |-> s[order[n]]]

-----------------------------------------------------------------------------
(* Backends                                                                *)

isEmergencyClass(b, c) == c = EmergencyClass[b]

(* Mutant: the emergency class must be one of the vehicles as well.        *)
isVehicleClassMutant(b, c) ==
  c \in {"Bicycle", "Car", "Bus", "Truck"} \cup (IF b \in Coco THEN {"Motorcycle"} ELSE {"Van"})

isVehicleClass(b, c) ==
  \/ isEmergencyClass(b, c)
  \/ c \in {"Bicycle", "Car", "Bus", "Truck"}
  \/ c = (IF b \in Coco THEN "Motorcycle" ELSE "Van")

populateDetection(b, a, top, bottom) ==
  [column |-> a.column, top |-> top, bottom |-> bottom, class |-> a.class,
   confidence |-> a.score, isVehicle |-> isVehicleClass(b, a.class),
   isEmergency |-> isEmergencyClass(b, a.class)]

(* The loop over the anchors of a YOLO model.                              *)
Decoded(b, as) ==
  LET confident == ElementsAt(as, {i \in DOMAIN as : as[i].score > ConfThreshold[b]})
      row(y) == scaleBack(y, FrameRows, FrameCols)
  IN  [i \in DOMAIN confident |->
         LET a == confident[i] IN populateDetection(b, a, row(a.y1), row(a.y2))]

(* What the loop over the indices of the YOLOv8 backend keeps: no persons, *)
(* but a motorcycle for each person that there are more than motorcycles,  *)
(* the most confident ones.                                                *)
WithRiders(kept) ==
  LET ofClass(c)  == ElementsAt(kept, {i \in DOMAIN kept : kept[i].class = c})
      vehicles    == {i \in DOMAIN kept : kept[i].class # "Person" /\ kept[i].isVehicle}
      persons     == ofClass("Person")
      missing     == Len(persons) - Len(ofClass("Motorcycle"))
  IN  ElementsAt(kept, vehicles)
        \o [i \in 1..Max({0, missing}) |->
              [persons[i] EXCEPT !.class = "Motorcycle", !.isVehicle = TRUE,
                                 !.isEmergency = FALSE]]

(* Mutant: persons are told apart before the boxes that overlap are.       *)
postprocessYoloV8Mutant(as) ==
  LET found   == Decoded("yolov8", as)
      persons == {i \in DOMAIN found : found[i].class = "Person"}
  IN  WithRiders(NMSBoxes(ElementsAt(found, DOMAIN found \ persons))
                   \o ElementsAt(found, persons))

postprocessYoloV8(as) == WithRiders(NMSBoxes(Decoded("yolov8", as)))

(* The OIV7 model's motorcycles are not reliable: they are dropped, and    *)
(* none is made up.                                                        *)
postprocessOIV7(as) ==
  LET kept == NMSBoxes(Decoded("yolov8_oiv7", as))
  IN  ElementsAt(kept, {i \in DOMAIN kept : kept[i].class # "Motorcycle" /\ kept[i].isVehicle})

(* RT-DETR answers in pixels of the frame and does not repeat itself.      *)
postprocessRtDetr(as) ==
  LET b == "rt_detrv2"
      clamp(y) == Min({Max({0, y}), FrameRows})
      found == [i \in DOMAIN as |->
                  populateDetection(b, as[i], clamp(as[i].y1), clamp(as[i].y2))]
  IN  ElementsAt(found, {i \in DOMAIN found : /\ found[i].confidence >= ConfThreshold[b]
                                              /\ found[i].top < found[i].bottom
                                              /\ found[i].isVehicle})

Detected(b, as) ==
  CASE b = "yolov8"      -> postprocessYoloV8(as)
    [] b = "yolov8_oiv7" -> postprocessOIV7(as)
    [] b = "rt_detrv2"   -> postprocessRtDetr(as)

-----------------------------------------------------------------------------
(* The lane                                                                *)

(* pointPolygonTest of the middle of the lower edge; the edge counts.      *)
InRoi(d) == d.bottom \in RoiTop..RoiBottom

RoiHeight == RoiBottom - RoiTop + 1

VehicleHeight(d) == Max({0, Height(d)})

TotalHeight(s) ==
  LET sum[i \in 0..Len(s)] == IF i = 0 THEN 0 ELSE sum[i - 1] + VehicleHeight(s[i])
  IN  sum[Len(s)]

(* The gap is longer than one and a half times the mean height.            *)
Apart(s, gap) == TotalHeight(s) > 0 /\ 2 * Len(s) * gap > 3 * TotalHeight(s)

(* updateBestCluster, on sorted vehicles; a cluster is its first and its   *)
(* last index.                                                             *)
Better(v, best, c) ==
  LET span(x) == v[x[2]].bottom - v[x[1]].bottom
      count(x) == x[2] - x[1]
  IN  IF count(c) > count(best) \/ (count(c) = count(best) /\ span(c) > span(best))
      THEN c ELSE best

(* The scan over the gaps, with the best cluster so far and the begin of   *)
(* the present one.                                                        *)
Visited(s, v, scan, i) ==
  IF i > 1 /\ Apart(s, v[i].bottom - v[i - 1].bottom)
  THEN [best |-> Better(v, scan.best, <<scan.start, i - 1>>), start |-> i]
  ELSE scan

Scanned(s, v) ==
  LET scan[i \in 0..Len(v)] ==
        IF i = 0 THEN [best |-> <<1, 1>>, start |-> 1] ELSE Visited(s, v, scan[i - 1], i)
  IN  scan[Len(v)]

(* Mutant: the last cluster is never compared.                             *)
BestClusterMutant(s, v) == Scanned(s, v).best

BestCluster(s, v) ==
  LET scan == Scanned(s, v) IN Better(v, scan.best, <<scan.start, Len(v)>>)

calculateQueueLength(s) ==
  LET v == SortedBy(s, [i \in DOMAIN s |-> s[i].bottom])
      c == BestCluster(s, v)
  IN  IF s = <<>> THEN 0
      ELSE Min({RoiHeight, IF c[1] = c[2] THEN VehicleHeight(v[c[1]])
                           ELSE v[c[2]].bottom - v[c[1]].bottom})

buildLaneMetrics(s) ==
  [detections |-> s, QueueLength |-> calculateQueueLength(s),
   EmergencyDetected |-> \E i \in DOMAIN s : s[i].isEmergency]

-----------------------------------------------------------------------------
Init == /\ backend \in Backend /\ stage = "runtime" /\ anchors = <<>>
        /\ failed = FALSE /\ Metrics = buildLaneMetrics(<<>>)

(* The model sees one thing more.                                          *)
ModelAnswers(a) ==
  /\ stage = "runtime" /\ Len(anchors) < MaxAnchors /\ a \notin ToSet(anchors)
  /\ anchors' = Append(anchors, a)
  /\ UNCHANGED <<backend, stage, failed, Metrics>>

(* The rest of the cycle for this lane: the filters of the engine, accept  *)
(* and the snapshot of the lane's metrics.                                 *)
InLane(result) ==
  ElementsAt(result, {i \in DOMAIN result : result[i].isVehicle /\ InRoi(result[i])})

Finish(result) ==
  /\ stage = "runtime" /\ stage' = "published"
  /\ Metrics' = buildLaneMetrics(InLane(result))
  /\ UNCHANGED <<backend, anchors>>

Infer        == Finish(Detected(backend, anchors)) /\ UNCHANGED failed

(* An exception of the model, of preprocess or of postprocess: the result  *)
(* has no detections, and the cycle goes on with it.                       *)
InferFails   == Finish(<<>>) /\ failed' = TRUE

Next == Infer \/ InferFails \/ \E a \in Palette[backend] : ModelAnswers(a)

Spec == Init /\ [][Next]_vars

-----------------------------------------------------------------------------
Published == stage = "published" /\ ~failed

(* A set of the lane's vehicles without a gap.                             *)
Continuous(s, C) ==
  \A i, j \in C : \/ ~Apart(s, s[j].bottom - s[i].bottom)
                  \/ \E k \in C : s[i].bottom < s[k].bottom /\ s[k].bottom < s[j].bottom

(* The queue of a lane is the longest of the largest groups of vehicles    *)
(* that stand without a gap; a vehicle by itself is as long as it is high  *)
(* (calculateQueueLength scans the sorted gaps once).                      *)
QueueIsLongestCluster ==
  LET s == Metrics.detections
      groups  == {C \in SUBSET DOMAIN s : C # {} /\ Continuous(s, C)}
      largest == {C \in groups : \A D \in groups : Cardinality(D) <= Cardinality(C)}
      span(C) == Max({s[i].bottom : i \in C}) - Min({s[i].bottom : i \in C})
      lengths == IF \E C \in largest : Cardinality(C) = 1
                 THEN {VehicleHeight(s[i]) : i \in DOMAIN s}
                 ELSE {Max({span(C) : C \in largest})}
  IN  Metrics.QueueLength \in {Min({RoiHeight, l}) : l \in IF s = <<>> THEN {0} ELSE lengths}

(* An emergency is reported exactly for what the model saw of the          *)
(* configured class in the region, unless something at least as confident  *)
(* covers it: a class that is none of the vehicles, like the ambulance, is *)
(* not lost between the decoding, the vehicle filter and the lane.         *)
EmergencyNotMissed ==
  Published =>
    LET found   == IF backend \in Yolo THEN ToSet(Decoded(backend, anchors))
                   ELSE ToSet(postprocessRtDetr(anchors))
        urgent  == {d \in found : d.class = EmergencyClass[backend] /\ InRoi(d)}
        covered == {d \in urgent : \E e \in found \ {d} : /\ backend \in Yolo
                                                          /\ e.confidence >= d.confidence
                                                          /\ Overlapping(d, e)}
    IN  /\ urgent \ covered # {} => Metrics.EmergencyDetected
        /\ Metrics.EmergencyDetected => urgent # {}

(* The configured emergency class is none that its backend puts aside      *)
(* whether it is an emergency or not; the program does not check it.       *)
EmergencyIsCounted ==
  /\ "yolov8" \in Backend => EmergencyClass["yolov8"] # "Person"
  /\ "yolov8_oiv7" \in Backend => EmergencyClass["yolov8_oiv7"] # "Motorcycle"

(* A YOLO backend counts nothing twice: no two vehicles of the lane        *)
(* overlap, the motorcycles made up for their riders included.             *)
CountedOnce ==
  backend \in Yolo =>
    \A i, j \in DOMAIN Metrics.detections :
      i # j => ~Overlapping(Metrics.detections[i], Metrics.detections[j])

(* "Perception reports failures and avoids publishing an observation that  *)
(* falsely appears successful" (traffic_perception_component_design.rst,   *)
(* line 171): no snapshot tells the numbers of a lane whose inference has  *)
(* failed.                                                                 *)
FailureNotPublished == failed => stage # "published"

=============================================================================
