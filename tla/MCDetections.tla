---------------------------- MODULE MCDetections ----------------------------
(***************************************************************************)
(* Detections for TLC.  A frame has 25 rows and 32 columns and the model   *)
(* 16, so that the letterbox halves the frame and has an odd border to     *)
(* share; RT-DETR sees the same things in the frame.                       *)
(***************************************************************************)
EXTENDS Detections

(* Things at rows 2 * first to 2 * last of the frame.  The boxes of a car  *)
(* or of a rider and of what is beside it overlap more than the threshold. *)
Thing(column, first, last, class, score) ==
  [column |-> column, y1 |-> first, y2 |-> last, class |-> class, score |-> score]

Things(emergency) ==
  {Thing(1, 0, 1, "Car", 90),       Thing(1, 2, 4, "Car", 60),
   Thing(1, 5, 7, "Car", 90),       Thing(1, 9, 12, "Car", 50),
   Thing(2, 6, 8, "Car", 30),       Thing(1, 9, 13, "Car", 60),
   Thing(1, 4, 7, emergency, 60),   Thing(2, 10, 12, emergency, 60),
   Thing(2, 3, 5, "Person", 90),    Thing(2, 0, 1, "Person", 60),
   Thing(2, 3, 5, "Motorcycle", 60), Thing(1, 7, 9, "Motorcycle", 60)}

Seen(things, row(_)) == {[t EXCEPT !.y1 = row(@), !.y2 = row(@)] : t \in things}

MCEmergencyClass == [yolov8 |-> "Truck", yolov8_oiv7 |-> "Ambulance", rt_detrv2 |-> "Truck"]
MCConfThreshold  == [yolov8 |-> 50, yolov8_oiv7 |-> 20, rt_detrv2 |-> 50]
MCPalette ==
  [b \in Backend |-> IF b \in Yolo THEN Seen(Things(EmergencyClass[b]), LAMBDA y : y + 1)
                                   ELSE Seen(Things(EmergencyClass[b]), LAMBDA y : 2 * y)]

(* The class of the run is one that reaches the lane.                      *)
ASSUME MCEmergencyClassCounts == EmergencyIsCounted

=============================================================================
