-------------------------- MODULE ShiftLineHelpers --------------------------
(***************************************************************************)
(* The shift-line helpers of the avoidance utilities (src/unnamed/part_002)*)
(* as operators.  Lengths along the path and lateral shifts are integers   *)
(* in units of 0.25 m, so the tolerances of the code (1.0 m, 0.5 m) are    *)
(* exact values of the model.  A pose on the reference path is its arc     *)
(* length, so calcDistance2d between two poses is the difference of their  *)
(* arc lengths.                                                            *)
(***************************************************************************)
EXTENDS Integers, SequencesExt

(* Tolerances of combineRawShiftLinesWithUniqueCheck, lines 1467-1478. *)
SimilarPositionTolerance == 4   \* 1.0 m
SimilarShiftTolerance == 2      \* 0.5 m

AbsoluteValue(x) == IF x < 0 THEN -x ELSE x

(***************************************************************************)
(* findPathIndexFromArclength (lines 379-392), with 1-based sequences: the *)
(* index of the first point whose arc length exceeds the target, the last  *)
(* point when none does, and the first index for an empty table.           *)
(***************************************************************************)
FindPathIndexFallbackFirst(arcs, target) ==
    IF \E i \in 1..Len(arcs) : arcs[i] > target
    THEN CHOOSE i \in 1..Len(arcs) : arcs[i] > target /\ \A j \in 1..i - 1 : arcs[j] <= target
    ELSE 1

FindPathIndexFromArclength(arcs, target) ==
    IF arcs = <<>> THEN 1
    ELSE IF \E i \in 1..Len(arcs) : arcs[i] > target
         THEN CHOOSE i \in 1..Len(arcs) : arcs[i] > target /\ \A j \in 1..i - 1 : arcs[j] <= target
         ELSE Len(arcs)

(* findNearestIndex of motion_utils (not in the repository): the path point *)
(* nearest to a pose, the first of equally near ones.                      *)
FindNearestIndex(arcs, pos) ==
    CHOOSE i \in 1..Len(arcs) :
        /\ \A j \in 1..Len(arcs) : AbsoluteValue(arcs[i] - pos) <= AbsoluteValue(arcs[j] - pos)
        /\ \A j \in 1..i - 1 : AbsoluteValue(arcs[j] - pos) > AbsoluteValue(arcs[i] - pos)

(***************************************************************************)
(* fillAdditionalInfoFromLongitudinal (lines 1439-1448, 1451-1462): the    *)
(* indices of a line's ends from its longitudinal interval, and the poses  *)
(* of those path points; then fillAdditionalInfoFromPoint (lines 1413-      *)
(* 1428): the indices of the points nearest those poses, and their arc     *)
(* lengths.  A line is [startLon, endLon]; the result also carries the      *)
(* indices.                                                                *)
(***************************************************************************)
FillAdditionalInfoFromLongitudinal(arcs, line) ==
    LET si == FindPathIndexFromArclength(arcs, line.startLon)
        ei == FindPathIndexFromArclength(arcs, line.endLon)
    IN  [startIdx |-> si, startPos |-> arcs[si], endIdx |-> ei, endPos |-> arcs[ei]]

FillAdditionalInfoFromPoint(arcs, line) ==
    LET si == FindNearestIndex(arcs, line.startPos)
        ei == FindNearestIndex(arcs, line.endPos)
    IN  [startIdx |-> si, startLon |-> arcs[si], endIdx |-> ei, endLon |-> arcs[ei]]

(***************************************************************************)
(* lerpShiftLengthOnArc (lines 424-434) as a fraction [num, den].  The     *)
(* interval is half-open: at the end of the line, and outside it, the      *)
(* value is 0.  The "relative longitudinal < 1e-5" branch needs an         *)
(* interval shorter than the model's unit, so it is the empty interval.    *)
(***************************************************************************)
LerpShiftLengthOnArc(arc, ap) ==
    LET span == ap.endLon - ap.startLon
    IN  IF ap.startLon <= arc /\ arc < ap.endLon
        THEN [num |-> (ap.endLon - arc) * ap.startShift + (arc - ap.startLon) * ap.endShift,
              den |-> span]
        ELSE [num |-> 0, den |-> 1]

(***************************************************************************)
(* combineRawShiftLinesWithUniqueCheck (lines 1464-1500): the base lines,  *)
(* then every added line for which no base line has the same object id and *)
(* is similar (start and end within 1.0 m, end shift within 0.5 m).  A     *)
(* line is [id, start, end, shift].                                        *)
(***************************************************************************)
IsSimilar(a, b) ==
    /\ AbsoluteValue(a.start - b.start) <= SimilarPositionTolerance
    /\ AbsoluteValue(a.end - b.end) <= SimilarPositionTolerance
    /\ AbsoluteValue(a.shift - b.shift) <= SimilarShiftTolerance

CombineRawShiftLinesWithUniqueCheck(baseLines, addedLines) ==
    baseLines \o SelectSeq(addedLines,
                   LAMBDA added : ~\E i \in 1..Len(baseLines) :
                                      /\ added.id = baseLines[i].id
                                      /\ IsSimilar(added, baseLines[i]))

================================================================================
