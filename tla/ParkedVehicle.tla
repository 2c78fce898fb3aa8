---------------------------- MODULE ParkedVehicle -----------------------------
(***************************************************************************)
(* The last checks of filterTargetObjects on a vehicle (src/unnamed/       *)
(* part_002, lines 1182-1310): the centre-line check, and for a vehicle    *)
(* whose centroid lies in the ego lanelet the parked-vehicle judgement by  *)
(* shiftable_ratio, measured against the outermost lanelet of the road on  *)
(* the object's side.                                                      *)
(*                                                                         *)
(* One lateral cross-section at the object, in units of 0.25 m, left       *)
(* positive.  An object is a record:                                       *)
(*   lateral      o.lateral, the signed offset of the object from the path *)
(*   centroid     the signed distance of its centroid from the centre line *)
(*                of the overhang lanelet (arc_coordinates.distance)       *)
(*   halfWidth    0.5 * o.object.shape.dimensions.y                        *)
(*   inEgoLane    the centroid lies within the overhang lanelet            *)
(*   turn         the turn_direction attribute of that lanelet             *)
(*   road         for each side, what the route handler gives there:      *)
(*     bound      the distance from the centre line to the outer bound of *)
(*                getMostLeftLanelet / getMostRightLanelet                 *)
(*     subtype    the subtype of that most-left (most-right) road lanelet *)
(*     shoulder   the width of a road_shoulder lanelet that shares that   *)
(*                bound (findUsages), or 0 when there is none              *)
(*                                                                         *)
(* Abstracted: the lanelet geometry beyond this cross-section.  The ratio  *)
(* is compared as IEEE doubles compare it, divisors zero and negative      *)
(* included.                                                               *)
(***************************************************************************)
EXTENDS Integers

CONSTANTS CenterThreshold,      \* threshold_distance_object_is_on_center
          MinRoadShoulderWidth, \* object_check_min_road_shoulder_width
          RatioNum, RatioDen    \* object_check_shiftable_ratio = RatioNum / RatioDen

ASSUME RatioDen > 0

Sides == {"left", "right"}

(* isOnRight (lines 257-260). *)
IsOnRight(o) == o.lateral < 0

(* num / den > RatioNum / RatioDen, for a double division: a zero divisor *)
(* gives +inf, -inf or NaN by the sign of num, and NaN compares false.    *)
RatioExceeds(num, den) ==
  \/ den > 0 /\ num * RatioDen > RatioNum * den
  \/ den < 0 /\ num * RatioDen < RatioNum * den
  \/ den = 0 /\ num > 0

(***************************************************************************)
(* object_shiftable_distance on one side (lines 1227-1255, 1262-1290): the *)
(* distance from the centre line to the left (right) bound of the most-   *)
(* left (most-right) lanelet, a road_shoulder lanelet on that bound taking *)
(* its place, less half the object's width.  The sub_type the lambda       *)
(* returns is the one declared before its loop: the loop's own sub_type    *)
(* shadows it, so it is the subtype of the road lanelet, never of the      *)
(* shoulder the loop found.  Unless that is road_shoulder, the minimum     *)
(* road-shoulder width is added.                                           *)
(***************************************************************************)
ShiftableDistance(o, side) ==
  LET r == o.road[side]
  IN  r.bound + r.shoulder - o.halfWidth
        + (IF r.subtype # "road_shoulder" THEN MinRoadShoulderWidth ELSE 0)

(* is_left_side_parked_vehicle, is_right_side_parked_vehicle: the ratio   *)
(* is the centroid's offset toward that side over the shiftable distance. *)
IsLeftSideParkedVehicle(o) ==
  ~IsOnRight(o) /\ RatioExceeds(o.centroid, ShiftableDistance(o, "left"))

IsRightSideParkedVehicleUnflipped(o) ==
  IsOnRight(o) /\ RatioExceeds(o.centroid, ShiftableDistance(o, "right"))

IsRightSideParkedVehicle(o) ==
  IsOnRight(o) /\ RatioExceeds(-o.centroid, ShiftableDistance(o, "right"))

(***************************************************************************)
(* The reason a vehicle that reached line 1182 gets, or "target" when it   *)
(* joins target_objects (lines 1306-1310).                                 *)
(***************************************************************************)
ParkedVehicleVerdict(o) ==
  IF o.lateral < CenterThreshold /\ -o.lateral < CenterThreshold
  THEN "TOO_NEAR_TO_CENTERLINE"
  ELSE IF ~o.inEgoLane THEN "target"
  ELSE IF o.turn \in {"right", "left", "straight"} THEN "NOT_PARKING_OBJECT"
  ELSE IF ~IsLeftSideParkedVehicle(o) /\ ~IsRightSideParkedVehicle(o)
       THEN "NOT_PARKING_OBJECT"
  ELSE "target"
================================================================================
