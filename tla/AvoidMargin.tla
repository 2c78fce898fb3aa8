----------------------------- MODULE AvoidMargin ------------------------------
(***************************************************************************)
(* The lateral part of filterTargetObjects (src/unnamed/part_002, lines    *)
(* 1088-1126): the avoid margin chosen between the object and the road     *)
(* shoulder, the shift length it gives (calcShiftLength, lines 322-328)    *)
(* and the two rejections that read it (isShiftNecessary, lines 330-354,   *)
(* and lateral_execution_threshold).                                       *)
(*                                                                         *)
(* Lateral distances are integers in units of 0.25 m.  An object is        *)
(* [onRight, overhang, toRoadShoulder, distanceFactor]: isOnRight, the     *)
(* signed lateral position of its overhang point (left positive), the      *)
(* distance from its envelope to the road shoulder on the side ego would   *)
(* shift to, and its distance_factor.                                      *)
(***************************************************************************)
EXTENDS Integers

CONSTANTS HalfVehicleWidth,           \* 0.5 * vehicle_width
          SafetyBufferLateral,        \* safety_buffer_lateral
          AvoidMarginLateral,         \* avoid_margin_lateral
          SoftRoadShoulderMargin,     \* soft_road_shoulder_margin
          HardRoadShoulderMargin,     \* hard_road_shoulder_margin
          LateralExecutionThreshold   \* lateral_execution_threshold

(* Lines 1090-1097. *)
MaxAvoidMargin(o) ==
  SafetyBufferLateral * o.distanceFactor + AvoidMarginLateral + HalfVehicleWidth
MinAvoidMargin == SafetyBufferLateral + HalfVehicleWidth
SoftLateralDistanceLimit(o) == o.toRoadShoulder - SoftRoadShoulderMargin - HalfVehicleWidth
HardLateralDistanceLimit(o) == o.toRoadShoulder - HardRoadShoulderMargin - HalfVehicleWidth

(* The avoid_margin lambda (lines 1099-1112): {} for boost::none.          *)
AvoidMarginSkipHardCheck(o) ==
  IF SoftLateralDistanceLimit(o) < MinAvoidMargin THEN {MinAvoidMargin}
  ELSE IF SoftLateralDistanceLimit(o) < MaxAvoidMargin(o) THEN {SoftLateralDistanceLimit(o)}
  ELSE {MaxAvoidMargin(o)}

AvoidMargin(o) ==
  IF HardLateralDistanceLimit(o) < MinAvoidMargin THEN {}
  ELSE IF SoftLateralDistanceLimit(o) < MinAvoidMargin THEN {MinAvoidMargin}
  ELSE IF SoftLateralDistanceLimit(o) < MaxAvoidMargin(o) THEN {SoftLateralDistanceLimit(o)}
  ELSE {MaxAvoidMargin(o)}

(* calcShiftLength (lines 322-328).  Its snap of |shift| <= 1e-3 m to 0 is *)
(* below the unit, so on integer units it keeps every value.              *)
CalcShiftLength(isObjectOnRight, overhangDist, avoidMargin) ==
  IF isObjectOnRight THEN overhangDist + avoidMargin ELSE overhangDist - avoidMargin

(* isShiftNecessary (lines 330-354). *)
IsShiftNecessary(isObjectOnRight, shiftLength) ==
  /\ ~(isObjectOnRight /\ shiftLength < 0)
  /\ ~(~isObjectOnRight /\ shiftLength > 0)

(* The verdict of lines 1114-1126 on an object with an avoid margin: the   *)
(* two rejections into other_objects, or on to the later checks.           *)
ShiftVerdict(o, avoidMargin) ==
  LET shiftLength == CalcShiftLength(o.onRight, o.overhang, avoidMargin)
  IN  IF ~IsShiftNecessary(o.onRight, shiftLength) THEN "NotNeedAvoidance"
      ELSE IF shiftLength < LateralExecutionThreshold
              /\ -shiftLength < LateralExecutionThreshold
           THEN "LessThanExecutionThreshold"
      ELSE "Avoid"
================================================================================
