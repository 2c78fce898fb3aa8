---------------------------- MODULE DrivableLanes ----------------------------
(***************************************************************************)
(* generateExpandDrivableLanes (src/unnamed/part_002, lines 1719-1857):     *)
(* the lanes the avoidance module may use around one lanelet of the route. *)
(*                                                                         *)
(* A road is the part of the lane graph the function queries:              *)
(*  - leftOf[l]: the lane sharing l's left boundary (0 for none), so that  *)
(*    getAllLeftSharedLinestringLanelets is the chain of leftOf from the   *)
(*    nearest lane to the leftmost, and getAllRight... the chain of the    *)
(*    inverse relation;                                                    *)
(*  - nexts: the successors of the one previous lane of the route, in the  *)
(*    order getNextLanelets returns them; a lane has that previous lane    *)
(*    within the route exactly when it is one of them;                     *)
(*  - connected: the pairs <<left, right>> for which isEndPointsConnected  *)
(*    holds.                                                               *)
(* The result is [left, right, middle], middle a sequence as in the code.  *)
(***************************************************************************)
EXTENDS Integers, SequencesExt

(* The recursion cap, max_recursive_search_num. *)
MaxRecursiveSearchNum == 3

RightOf(road, l) ==
    IF \E r \in DOMAIN road.leftOf : road.leftOf[r] = l
    THEN CHOOSE r \in DOMAIN road.leftOf : road.leftOf[r] = l
    ELSE 0

RECURSIVE AllLeft(_, _)
AllLeft(road, l) ==
    IF road.leftOf[l] = 0 THEN <<>> ELSE <<road.leftOf[l]>> \o AllLeft(road, road.leftOf[l])

RECURSIVE AllRight(_, _)
AllRight(road, l) ==
    IF RightOf(road, l) = 0 THEN <<>> ELSE <<RightOf(road, l)>> \o AllRight(road, RightOf(road, l))

(* pushUniqueVector (lines 250-254): appends, whether or not the lanes are *)
(* already there.                                                         *)
PushUniqueVector(base, additional) == base \o additional

(* update_left_lanelets and update_right_lanelets (lines 1734-1753). *)
UpdateSide(d, all, side) ==
    IF all = <<>> THEN d
    ELSE [d EXCEPT ![side] = all[Len(all)],
                   !.middle = PushUniqueVector(@, SubSeq(all, 1, Len(all) - 1))]

UpdateLeftLanelets(road, d, target) == UpdateSide(d, AllLeft(road, target), "left")
UpdateRightLanelets(road, d, target) == UpdateSide(d, AllRight(road, target), "right")

(* get_next_lanes_from_same_previous_lane (lines 1759-1773). *)
NextLanesFromSamePreviousLane(road, lane) ==
    IF lane \in ToSet(road.nexts) THEN road.nexts ELSE <<>>

(* The test of a next lane in update_drivable_lanes (lines 1784-1795): it *)
(* is not the edge lane, and its end points meet the edge lane's on the    *)
(* side being expanded.                                                    *)
IsNewEdgeSwapped(road, edge, n, isLeft) ==
    /\ n # edge
    /\ IF isLeft THEN <<edge, n>> \in road.connected ELSE <<n, edge>> \in road.connected

IsNewEdge(road, edge, n, isLeft) ==
    /\ n # edge
    /\ IF isLeft THEN <<n, edge>> \in road.connected ELSE <<edge, n>> \in road.connected

(* Whether the edge joins the middle lanes (lines 1803-1818): not if it  *)
(* is there already, nor if it is the opposite edge.  edge_lane (line     *)
(* 1785) is a reference to the member assigned at line 1798 or 1800, so   *)
(* from there on it names the new edge, and the new edge is the one       *)
(* tested and pushed.                                                     *)
PushesEdge(middle, edge, opposite) == edge \notin ToSet(middle) /\ opposite # edge

(* update_drivable_lanes (lines 1782-1823): the first fitting next lane    *)
(* becomes the new edge.  Returns the lanes and is_update_kept.            *)
UpdateDrivableLanes(road, d, nexts, isLeft) ==
    LET edge == IF isLeft THEN d.left ELSE d.right
        hits == {k \in 1..Len(nexts) : IsNewEdge(road, edge, nexts[k], isLeft)}
    IN  IF hits = {} THEN [lanes |-> d, kept |-> FALSE]
        ELSE LET n == nexts[CHOOSE k \in hits : \A j \in hits : k <= j]
                 d1 == IF isLeft THEN [d EXCEPT !.left = n] ELSE [d EXCEPT !.right = n]
                 opposite == IF isLeft THEN d1.right ELSE d1.left
             IN  [lanes |-> IF PushesEdge(d.middle, n, opposite)
                            THEN [d1 EXCEPT !.middle = Append(@, n)] ELSE d1,
                  kept |-> TRUE]

(* expand_drivable_area_recursively (lines 1825-1842). *)
RECURSIVE ExpandDrivableAreaRecursively(_, _, _, _, _)
ExpandDrivableAreaRecursively(road, d, nexts, isLeft, i) ==
    IF i >= MaxRecursiveSearchNum THEN d
    ELSE LET r == UpdateDrivableLanes(road, d, nexts, isLeft)
         IN  IF ~r.kept THEN r.lanes
             ELSE ExpandDrivableAreaRecursively(road, r.lanes, nexts, isLeft, i + 1)

(* Step 4 (lines 1848-1853): the lanelet itself joins the middle lanes     *)
(* unless it is one of the edges.                                          *)
CompensateCurrentLane(d, lanelet) ==
    IF d.left # lanelet /\ d.right # lanelet
    THEN [d EXCEPT !.middle = Append(@, lanelet)]
    ELSE d

(* The lanes before the expansion (lines 1723-1726), and after step 1    *)
(* (lines 1756-1757).                                                     *)
InitialDrivableLanes(lanelet) == [left |-> lanelet, right |-> lanelet, middle |-> <<>>]

SideLanelets(road, lanelet) ==
    UpdateRightLanelets(road, UpdateLeftLanelets(road, InitialDrivableLanes(lanelet), lanelet), lanelet)

GenerateExpandDrivableLanes(road, lanelet, useAdjacentLane) ==
    LET d0 == InitialDrivableLanes(lanelet)
        d1 == SideLanelets(road, lanelet)
        nextsForRight == NextLanesFromSamePreviousLane(road, d1.right)
        nextsForLeft == NextLanesFromSamePreviousLane(road, d1.left)
        d2 == ExpandDrivableAreaRecursively(road, d1, nextsForRight, FALSE, 0)
        d3 == ExpandDrivableAreaRecursively(road, d2, nextsForLeft, TRUE, 0)
        d4 == UpdateLeftLanelets(road, d3, d3.left)
        d5 == UpdateRightLanelets(road, d4, d4.right)
    IN  IF ~useAdjacentLane THEN d0 ELSE CompensateCurrentLane(d5, lanelet)
================================================================================
