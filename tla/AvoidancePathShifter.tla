------------------------- MODULE AvoidancePathShifter -------------------------
(***************************************************************************)
(* The shift-line state of AvoidanceModule (avoidance_module.hpp) and of   *)
(* its PathShifter: the base offset, the committed shift lines, the        *)
(* registered left and right RTC (cooperative approval) entries, and the   *)
(* candidate's approval status.                                            *)
(*                                                                         *)
(* Positions are path indices, shifts integers in 0.25 m units.  A shift   *)
(* line [start, end, shift] moves the path from the previous line's end    *)
(* shift (the base offset for the first line) to its own end shift between *)
(* start and end.  The shift at ego is kept scaled by Scale so that the    *)
(* interpolation over a span of 1 or 2 indices is exact.                   *)
(*                                                                         *)
(* One planning cycle (design section 5: atomic, single-threaded) is one   *)
(* step: ego's new position, then either the planning branch (candidate    *)
(* RTC status, registration of an approved candidate) or the yield branch  *)
(* (removeRegisteredShiftLines), then postProcess.  The RTC operator's     *)
(* approval arrives between cycles.                                        *)
(***************************************************************************)
EXTENDS Integers, Sequences

CONSTANTS PathEnd,      \* the last index of the reference path
          ShiftValues,  \* end shift lengths a candidate line may have
          MinSpan,      \* the shortest line, in path indices
          MaxSpan,      \* the longest line, in path indices
          MaxLines      \* bound on the committed lines

ASSUME MinSpan \in {1, 2} /\ MaxSpan \in MinSpan..2 /\ PathEnd \in Nat /\ MaxLines \in Nat

Scale == 2
Sides == {"left", "right"}

(* removeRegisteredShiftLines: THRESHOLD = 0.1 m is below one unit, so a *)
(* base offset exceeds it exactly when it is not zero.                  *)
BaseOffsetThreshold == 0

VARIABLES
    ego,           \* the ego index on the reference path
    base,          \* path_shifter_ base offset
    lines,         \* path_shifter_ shift lines, in longitudinal order
    rawRegistered, \* registered_raw_shift_lines_ (length)
    leftArray,     \* left_shift_array_ (length)
    rightArray,    \* right_shift_array_ (length)
    rtcRegistered, \* sides whose RTC interface holds a status of the current uuid
    candidateSide, \* the side candidate_uuid_ belongs to, or "none"
    approved,      \* sides whose current uuid the operator has approved
    step           \* the last step taken

vars == <<ego, base, lines, rawRegistered, leftArray, rightArray,
          rtcRegistered, candidateSide, approved, step>>

(* The state a cycle transforms, as one record. *)
Av == [ego |-> ego, base |-> base, lines |-> lines, raw |-> rawRegistered,
       left |-> leftArray, right |-> rightArray, rtc |-> rtcRegistered,
       cand |-> candidateSide, appr |-> approved]

Line == [start : 0..PathEnd, end : 0..PathEnd, shift : ShiftValues]
NoLine == [start |-> 0, end |-> 0, shift |-> 0]

(* The end shift before a line appended after the committed ones. *)
LastShift(s) == IF s.lines = <<>> THEN s.base ELSE s.lines[Len(s.lines)].shift
LastEnd(s) == IF s.lines = <<>> THEN 0 ELSE s.lines[Len(s.lines)].end

(***************************************************************************)
(* The shift at a path index, scaled (PathShifter, design section 4.4).    *)
(***************************************************************************)
Frac(l, x) ==
    IF x <= l.start THEN 0
    ELSE IF x >= l.end THEN Scale
    ELSE ((x - l.start) * Scale) \div (l.end - l.start)

RECURSIVE ShiftAcc(_, _, _)
ShiftAcc(ls, prev, x) ==
    IF ls = <<>> THEN 0
    ELSE (Head(ls).shift - prev) * Frac(Head(ls), x) + ShiftAcc(Tail(ls), Head(ls).shift, x)

ShiftAt(s, x) == s.base * Scale + ShiftAcc(s.lines, s.base, x)

ShiftAtEgo == ShiftAt(Av, ego)

(***************************************************************************)
(* The candidate lines of a cycle: ahead of ego, after the committed lines *)
(* (design section 8: committed lines do not overlap), or none.            *)
(***************************************************************************)
Candidates(s) ==
    {c \in Line : /\ c.start > s.ego /\ c.start >= LastEnd(s)
                  /\ c.end - c.start \in MinSpan..MaxSpan}
      \cup {NoLine}

(* updateCandidateRTCStatus (hpp 81-101): the sign of the candidate's     *)
(* lateral shift picks the RTC interface whose current uuid gets the      *)
(* status; a zero shift only logs "Direction is UNKNOWN".                 *)
UpdateCandidateRTCStatus(s, c) ==
    LET lateral == IF c = NoLine THEN 0 ELSE c.shift - LastShift(s)
        side == IF lateral > 0 THEN "left" ELSE "right"
    IN  IF lateral = 0 THEN s
        ELSE [s EXCEPT !.rtc = @ \cup {side}, !.cand = side]

(* The registration of an approved candidate (AvoidanceModule::           *)
(* addNewShiftLines, not in the repository): the line joins the shifter   *)
(* and the raw registered lines, a RegisteredShiftLine with the approved  *)
(* uuid joins its side's array, and the side gets a fresh uuid with no    *)
(* status and no approval.                                                *)
RegisterApprovedUnbounded(s, c) ==
    IF /\ c # NoLine /\ s.cand \in s.appr
       /\ (c.shift > LastShift(s)) = (s.cand = "left")
    THEN [s EXCEPT !.lines = Append(@, c), !.raw = @ + 1,
                   !.left = IF s.cand = "left" THEN @ + 1 ELSE @,
                   !.right = IF s.cand = "right" THEN @ + 1 ELSE @,
                   !.rtc = @ \ {s.cand}, !.appr = @ \ {s.cand}, !.cand = "none"]
    ELSE s

RegisterApproved(s, c) ==
    IF /\ c # NoLine /\ s.cand \in s.appr /\ Len(s.lines) < MaxLines
       /\ (c.shift > LastShift(s)) = (s.cand = "left")
    THEN [s EXCEPT !.lines = Append(@, c), !.raw = @ + 1,
                   !.left = IF s.cand = "left" THEN @ + 1 ELSE @,
                   !.right = IF s.cand = "right" THEN @ + 1 ELSE @,
                   !.rtc = @ \ {s.cand}, !.appr = @ \ {s.cand}, !.cand = "none"]
    ELSE s

(* removeRegisteredShiftLines (hpp 528-548). *)
RemoveRegisteredShiftLines(s) ==
    IF s.base > BaseOffsetThreshold \/ s.base < -BaseOffsetThreshold THEN s
    ELSE [s EXCEPT !.left = IF s.lines # <<>> THEN 0 ELSE @,
                   !.right = IF s.lines # <<>> THEN 0 ELSE @,
                   !.rtc = IF s.lines # <<>> THEN {} ELSE @,
                   !.appr = IF s.lines # <<>> THEN {} ELSE @,
                   !.cand = IF s.lines # <<>> THEN "none" ELSE @,
                   !.raw = 0, !.lines = <<>>]

(* PathShifter::removeBehindShiftLineAndSetBaseOffset (not in the         *)
(* repository, design section 4.4): the lines whose end lies behind ego   *)
(* leave, and the base offset becomes the end shift of the last of them.  *)
RemoveBehindShiftLineAndSetBaseOffset(s, idx) ==
    LET behind == {i \in 1..Len(s.lines) : s.lines[i].end < idx}
        last == CHOOSE i \in behind : \A j \in behind : j <= i
    IN  IF behind = {} THEN s
        ELSE [s EXCEPT !.base = s.lines[last].shift,
                       !.lines = SelectSeq(@, LAMBDA l : l.end >= idx)]

(* postProcess (hpp 553-557). *)
PostProcess(s) == RemoveBehindShiftLineAndSetBaseOffset(s, s.ego)

Assign(s, name) ==
    /\ ego' = s.ego /\ base' = s.base /\ lines' = s.lines
    /\ rawRegistered' = s.raw /\ leftArray' = s.left /\ rightArray' = s.right
    /\ rtcRegistered' = s.rtc /\ candidateSide' = s.cand /\ approved' = s.appr
    /\ step' = name

Advance(d) == [Av EXCEPT !.ego = @ + d]

-----------------------------------------------------------------------------

Init == /\ ego = 0 /\ base = 0 /\ lines = <<>>
        /\ rawRegistered = 0 /\ leftArray = 0 /\ rightArray = 0
        /\ rtcRegistered = {} /\ candidateSide = "none" /\ approved = {}
        /\ step = "init"

(* A planning cycle that plans: ego advances by d (0 while stopped). *)
PlanCycle(d, c) ==
    LET s1 == Advance(d)
    IN  /\ c \in Candidates(s1)
        /\ Assign(PostProcess(RegisterApproved(UpdateCandidateRTCStatus(s1, c), c)), "plan")

(* A planning cycle in which the module yields to an object it cannot     *)
(* pass, and resets its registered shift lines.                           *)
YieldCycle(d) == Assign(PostProcess(RemoveRegisteredShiftLines(Advance(d))), "yield")

(* The operator approves the request of the candidate's side. *)
Approve ==
    /\ candidateSide \in rtcRegistered \ approved
    /\ approved' = approved \cup {candidateSide}
    /\ step' = "approve"
    /\ UNCHANGED <<ego, base, lines, rawRegistered, leftArray, rightArray,
                   rtcRegistered, candidateSide>>

Next ==
    \/ \E d \in 0..2 : ego + d <= PathEnd /\ \E c \in Line \cup {NoLine} : PlanCycle(d, c)
    \/ \E d \in 0..2 : ego + d <= PathEnd /\ YieldCycle(d)
    \/ Approve

Spec == Init /\ [][Next]_vars
-----------------------------------------------------------------------------

TypeOK ==
    /\ ego \in 0..PathEnd /\ base \in ShiftValues
    /\ lines \in Seq(Line) /\ Len(lines) <= MaxLines
    /\ \A i \in 1..Len(lines) - 1 : lines[i].end <= lines[i + 1].start
    /\ rawRegistered \in Nat /\ leftArray \in Nat /\ rightArray \in Nat
    /\ rtcRegistered \subseteq Sides /\ approved \subseteq rtcRegistered
    /\ candidateSide \in Sides \cup {"none"}
    /\ step \in {"init", "plan", "yield", "approve"}
================================================================================
