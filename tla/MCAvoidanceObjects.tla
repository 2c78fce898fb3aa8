------------------------- MODULE MCAvoidanceObjects -------------------------
(* Model-checking instance of AvoidanceObjects: two objects, two or three  *)
(* position cells, thresholds of one to two planning cycles.              *)
EXTENDS AvoidanceObjects, TLC

CONSTANTS a, b

MCIds == {a, b}
\* Two cells 0 and 1 are within POS_THR of each other, 0 and 2 are not.
MCPositions == {0, 2}
MCPositionsNear == {0, 1}
MCClearances == {0, 1, 2}
MCFilterResults == {"target", "ignored", "no_lanelet"}

Symmetry == Permutations(MCIds)
=============================================================================
