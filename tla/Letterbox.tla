----------------------------- MODULE Letterbox ------------------------------
(***************************************************************************)
(* How a YOLO backend fits a frame into the square input of its model and  *)
(* brings the boxes back (preprocess and the first half of postprocess in  *)
(* yolov8_backend.cpp and yolov8_oiv7_backend.cpp), for one of the two     *)
(* directions.  Pixels are integers, a quotient is rounded where the code  *)
(* rounds.                                                                 *)
(***************************************************************************)
EXTENDS Integers

CONSTANT InputSize             (* rows and columns of the model, 640       *)

ASSUME InputSizeAssumption == InputSize \in Nat \ {0}

(* std::round(n / d), for what is not below -1/2.                          *)
Rounded(n, d) == (2 * n + d) \div (2 * d)

(* new_unpad_w and new_unpad_h: rows or columns of a frame whose longer    *)
(* side is `longer`, after the resize.                                     *)
new_unpad(size, longer) == Rounded(size * InputSize, longer)

(* left and top, right and bottom: half of what is missing, 0.1 less and   *)
(* 0.1 more.                                                               *)
padBefore(unpad) == Rounded(5 * (InputSize - unpad) - 1, 10)
padAfter(unpad)  == Rounded(5 * (InputSize - unpad) + 1, 10)

(* A coordinate of the input in the frame: without the border, scaled back,*)
(* clipped to the frame, rounded.                                          *)
scaleBack(x, size, longer) ==
  LET n == (x - padBefore(new_unpad(size, longer))) * longer
  IN  IF n < 0 THEN 0 ELSE IF n > size * InputSize THEN size ELSE Rounded(n, InputSize)

=============================================================================
