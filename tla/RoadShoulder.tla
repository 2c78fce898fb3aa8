----------------------------- MODULE RoadShoulder -----------------------------
(***************************************************************************)
(* The distance from an object to the road shoulder on the side ego would  *)
(* shift to (filterTargetObjects, src/unnamed/part_002 lines 1044-1086),   *)
(* and its extension over hatched road markings and intersection areas    *)
(* (extendToRoadShoulderDistanceWithPolygon, lines 1315-1399).             *)
(*                                                                         *)
(* Everything is measured on the ray the extension casts: from the         *)
(* object's overhang point (0) through the closest point of the target     *)
(* line, in 0.25 m units.  The ray runs 100 m past that line, beyond every *)
(* position here.  An input is a record:                                   *)
(*   bound         for each lanelet of current, previous, next that the    *)
(*                 route handler returns, the distance from the envelope   *)
(*                 to its furthest line on that side (Absent otherwise)    *)
(*   hatched       for each of them, how far past that line a hatched     *)
(*                 road marking on it reaches along the ray (0 for none);  *)
(*                 the marking starts one unit inside the line             *)
(*   intersection  the intersection_area polygon of the overhang lanelet  *)
(*                 along the ray, [near, far], or NoArea                   *)
(*   useHatched, useIntersection  the two parameters                       *)
(* A polygon is an interval [near, far] of the ray; its edges are the      *)
(* crossings tier4_autoware_utils::intersect can find.                     *)
(***************************************************************************)
EXTENDS Integers, FiniteSetsExt

Absent == -1
NoArea == [near |-> 0, far |-> -1]

(* The order in which the lambda is called: current, previous, next. *)
Lanelets == <<"current", "previous", "next">>

Present(in) == {i \in 1..3 : in.bound[Lanelets[i]] # Absent}

(***************************************************************************)
(* update_road_to_shoulder_distance over the three lanelets (lines         *)
(* 1052-1076): the least distance, and target_line, the line of the first *)
(* lanelet to reach it, since only a strictly smaller d replaces it.      *)
(***************************************************************************)
ToRoadShoulderDistance(in) == Min({in.bound[Lanelets[i]] : i \in Present(in)})

TargetLanelet(in) ==
  Lanelets[Min({i \in Present(in) : in.bound[Lanelets[i]] = ToRoadShoulderDistance(in)})]

(* expandable_polygons (lines 1321-1348): the hatched markings found at   *)
(* the points of target_line (exist_polygon keeps one copy of each) and   *)
(* the overhang lanelet's intersection area.                               *)
ExpandablePolygons(in) ==
  LET d == ToRoadShoulderDistance(in)
      h == in.hatched[TargetLanelet(in)]
  IN  (IF in.useHatched /\ h > 0 THEN {[near |-> d - 1, far |-> d + h]} ELSE {})
        \cup (IF in.useIntersection /\ in.intersection # NoArea THEN {in.intersection} ELSE {})

(* intersect_dist_vec of one polygon (lines 1374-1389): the edges the     *)
(* segment from the overhang point crosses, as distances from it.         *)
Crossings(p) == {x \in {p.near, p.far} : x >= 0}

(* intersect_dist_vec.back() after std::sort (lines 1395-1397). *)
PolygonExtensionFront(p) == Min(Crossings(p))

PolygonExtension(p) == Max(Crossings(p))

(***************************************************************************)
(* extendToRoadShoulderDistanceWithPolygon (lines 1315-1399).  For d = 0   *)
(* ratio = 100.0 / d is +inf (lines 1365-1369): lat_offset_overhang_pos   *)
(* has infinite or NaN coordinates, every intersection is NaN or none,    *)
(* and std::max(d, NaN) is d.                                              *)
(***************************************************************************)
ExtendToRoadShoulderDistanceWithPolygon(d, polygons) ==
  LET crossed == {p \in polygons : Crossings(p) # {}}
  IN  IF polygons = {} \/ d = 0 THEN d
      ELSE Max({d} \cup {PolygonExtension(p) : p \in crossed})

(* o.to_road_shoulder_distance after lines 1044-1086. *)
RoadShoulderDistance(in) ==
  ExtendToRoadShoulderDistanceWithPolygon(ToRoadShoulderDistance(in), ExpandablePolygons(in))
================================================================================
