---------------------------- MODULE MCAlgorithms -----------------------------
(***************************************************************************)
(* Checks the pure algorithms of the repository over bounded inputs.  Each *)
(* initial state is one input of one algorithm, tagged with it:           *)
(*  - "path": an arc-length table of a short path, strictly increasing as  *)
(*    the arc length from ego of successive path points is, and a line     *)
(*    whose ends lie on or around the path, for the resynchronisation      *)
(*    (fillAdditionalInfoFromLongitudinal, fillAdditionalInfoFromPoint)    *)
(*    of a line;                                                           *)
(*  - "oscillation": the inversion flags of an NDT alignment of up to      *)
(*    MaxFlags + 2 iterations, for validate_local_optimal_solution_        *)
(*    oscillation;                                                         *)
(*  - "lanes": a road around a lanelet of the route (see DrivableLanes)    *)
(*    and the use_adjacent_lane parameter, for                             *)
(*    generateExpandDrivableLanes;                                         *)
(*  - "stopped": the observations of one object over up to MaxCycles       *)
(*    planning cycles, perceived in the last, the enable flag of force     *)
(*    avoidance and the distances to the next traffic light and crosswalk, *)
(*    for fillObjectMovingTime and the force-avoidance branch of           *)
(*    filterTargetObjects (see StoppedObjects);                            *)
(*  - "margin": an object's side, overhang, distance to the road shoulder  *)
(*    and distance factor, for the avoid margin and shift-length checks    *)
(*    of filterTargetObjects (see AvoidMargin);                            *)
(*  - "parked": a vehicle's offsets, width, lanelet and the road on both   *)
(*    sides of it, for the parked-vehicle judgement (see ParkedVehicle);   *)
(*  - "envelope": the footprints of one object over up to                  *)
(*    MaxEnvelopeCycles cycles, a target in the last, for the envelope     *)
(*    smoothing of fillObjectEnvelopePolygon (see Envelope);               *)
(*  - "shoulder": the lanelet bounds, markings and intersection area on    *)
(*    the shoulder side of an object, for its distance to the road         *)
(*    shoulder (see RoadShoulder).                                         *)
(***************************************************************************)
EXTENDS ShiftLineHelpers, NdtValidation, DrivableLanes, StoppedObjects,
        AvoidMargin, ParkedVehicle, Envelope, RoadShoulder

CONSTANTS Shifts,
          Positions, MaxPoints, MaxFlags, NumLanes, MaxCycles,
          MaxEnvelopeCycles

(* Line ends and arc lengths from one unit before the path to one unit     *)
(* after it.                                                               *)
Targets == -1..5

(* Arc-length tables of at least one point, strictly increasing. *)
ArcTables ==
    {s \in BoundedSeq(Positions, MaxPoints) :
        s # <<>> /\ \A i \in 1..Len(s) - 1 : s[i] < s[i + 1]}

PathLines ==
    {l \in [startLon : Targets, endLon : Targets, startShift : Shifts, endShift : Shifts] :
        l.startLon <= l.endLon}

PathInputs == [kind : {"path"}, arcs : ArcTables, line : PathLines]

VARIABLE input

vars == <<input>>

OscillationInputs == [kind : {"oscillation"}, flags : BoundedSeq(BOOLEAN, MaxFlags)]

Lanes == 1..NumLanes

(* Chains of lanes, as a lane -> its left neighbour map (0 for none):      *)
(* no lane is its own neighbour, none has two right neighbours, and no     *)
(* chain comes back to its start.                                          *)
RECURSIVE Follow(_, _, _)
Follow(f, l, k) == IF k = 0 \/ l = 0 THEN l ELSE Follow(f, f[l], k - 1)

LaneChains ==
    {f \in [Lanes -> 0..NumLanes] :
        /\ \A a, b \in Lanes : f[a] = f[b] /\ f[a] # 0 => a = b
        /\ \A l \in Lanes : \A k \in 1..NumLanes : Follow(f, l, k) # l}

(* Roads whose geometry is consistent: lanes sharing a boundary also meet  *)
(* at their end points, and the end-point adjacency is itself a chain.     *)
Roads ==
    {[leftOf |-> x.leftOf, nexts |-> x.nexts,
      connected |-> {<<x.endLeftOf[l], l>> : l \in {m \in Lanes : x.endLeftOf[m] # 0}}] :
        x \in {y \in [leftOf : LaneChains, endLeftOf : LaneChains,
                      nexts : {s \in BoundedSeq(Lanes, NumLanes) : IsInjective(s)}] :
                 \A l \in Lanes : y.leftOf[l] # 0 => y.endLeftOf[l] = y.leftOf[l]}}

LanesInputs == [kind : {"lanes"}, road : Roads, lanelet : Lanes, useAdjacentLane : BOOLEAN]

(* Distances on both sides of the ignore sections, a crosswalk behind the  *)
(* object included.                                                        *)
Distances == -2..1

StoppedInputs ==
    [kind : {"stopped"},
     history : {h \in BoundedSeq(Observations, MaxCycles) : h # <<>> /\ Last(h) # "unseen"},
     enable : BOOLEAN, toTrafficLight : Distances, toCrosswalk : Distances]

(* Overhangs on both sides of the path and shoulder distances across all   *)
(* three branches of the avoid margin; distance_factor is at least 1.      *)
MarginInputs ==
    [kind : {"margin"}, onRight : BOOLEAN, overhang : -12..12,
     toRoadShoulder : 0..18, distanceFactor : {1, 2}]

(* Objects on, left and right of the centre line, centroids on both sides *)
(* of it, and widths that leave the shiftable distance positive, zero or   *)
(* negative against roads with and without a shoulder lanelet.             *)
RoadSides == [bound : {2, 4}, subtype : {"road", "road_shoulder"}, shoulder : {0, 2}]

ParkedInputs ==
    [kind : {"parked"}, lateral : -2..2, centroid : -3..3, halfWidth : {2, 4, 7},
     inEgoLane : BOOLEAN, turn : {"right", "else"}, road : [Sides -> RoadSides]]

(* Unit boxes on a 5 x 5 grid: with a buffer of one unit their envelopes  *)
(* overlap, share an edge, touch at a corner or lie apart.                 *)
Footprints == {[xlo |-> x, xhi |-> x + 1, ylo |-> y, yhi |-> y + 1] : x, y \in 0..4}

EnvelopeInputs ==
    [kind : {"envelope"},
     history : {h \in BoundedSeq(Footprints \cup {NoBox}, MaxEnvelopeCycles) :
                  h # <<>> /\ Last(h) # NoBox}]

(* Bounds touching the envelope or up to 0.5 m from it, previous and next *)
(* lanelets present or not, markings up to 0.5 m wide, and intersection   *)
(* areas from behind the overhang point to 1 m out.                        *)
ShoulderInputs ==
    [kind : {"shoulder"},
     bound : {b \in [{"current", "previous", "next"} -> {Absent, 0, 1, 2}] : b["current"] # Absent},
     hatched : [{"current", "previous", "next"} -> 0..2],
     intersection : {NoArea} \cup {a \in [near : -1..1, far : 0..4] : a.near < a.far},
     useHatched : BOOLEAN, useIntersection : BOOLEAN]

Init == input \in PathInputs \cup OscillationInputs \cup LanesInputs
                  \cup StoppedInputs \cup MarginInputs \cup ParkedInputs
                  \cup EnvelopeInputs \cup ShoulderInputs

Next == UNCHANGED vars

(* The design's invariant of an AvoidLine, start_longitudinal <=          *)
(* end_longitudinal, survives a resynchronisation: the indices found from  *)
(* the longitudinal interval are ordered, and resynchronising from the     *)
(* poses of those points gives back the same points, in order.            *)
ResyncKeepsLineOrdered ==
    input.kind = "path" =>
        LET fromLon == FillAdditionalInfoFromLongitudinal(input.arcs, input.line)
            fromPoint == FillAdditionalInfoFromPoint(input.arcs, fromLon)
        IN  /\ fromLon.startIdx <= fromLon.endIdx
            /\ fromPoint.startIdx = fromLon.startIdx
            /\ fromPoint.endIdx = fromLon.endIdx
            /\ fromPoint.startLon <= fromPoint.endLon

(* The loop at lines 99-116 of the NDT scan matcher reports oscillation    *)
(* exactly when the input has a run of more than oscillation_threshold_ + 2 *)
(* inversions.                                                             *)
OscillationMatchesReference ==
    input.kind = "oscillation" =>
        ValidateLocalOptimalSolutionOscillation(input.flags) = OscillationReference(input.flags)

DrivableResult == GenerateExpandDrivableLanes(input.road, input.lanelet, input.useAdjacentLane)

(* The lanes reachable from a lane by k or fewer steps to the left, or to  *)
(* the right, along lanes whose end points meet.                           *)
RECURSIVE LeftReach(_, _, _)
LeftReach(road, x, k) ==
    {x} \cup IF k = 0 THEN {}
             ELSE UNION {LeftReach(road, p[1], k - 1) : p \in {q \in road.connected : q[2] = x}}

RECURSIVE RightReach(_, _, _)
RightReach(road, x, k) ==
    {x} \cup IF k = 0 THEN {}
             ELSE UNION {RightReach(road, p[2], k - 1) : p \in {q \in road.connected : q[1] = x}}

(* generateExpandDrivableLanes widens the drivable lanes outwards only:    *)
(* its left lane is the lanelet or a lane to its left, and its right lane  *)
(* the lanelet or a lane to its right, through the shared-boundary         *)
(* neighbours, the split lanes of step 2 and the neighbours of step 3.     *)
EdgesOnTheirSides ==
    input.kind = "lanes" =>
        /\ DrivableResult.left \in LeftReach(input.road, input.lanelet, NumLanes)
        /\ DrivableResult.right \in RightReach(input.road, input.lanelet, NumLanes)

(* The lanes a DrivableLanes holds: its edges and its middle lanes. *)
HeldLanes(d) == {d.left, d.right} \cup ToSet(d.middle)

(* An edge the expansion of step 2 moves past is kept among the middle    *)
(* lanes (lines 1803-1818: unless it is already there or is the opposite  *)
(* edge), so every lane of the left and right lanes found at step 1 is    *)
(* still in the drivable lanes returned.                                   *)
SideLanesKept ==
    input.kind = "lanes" /\ input.useAdjacentLane =>
        HeldLanes(SideLanelets(input.road, input.lanelet)) \subseteq HeldLanes(DrivableResult)

(* The start of the object's current stop: the last cycle in which it was  *)
(* perceived slow with no stop before it, or with a MOVING_OBJECT verdict  *)
(* (fast for longer than moving_time_threshold since that stop) between.   *)
PreviousSlow(h, s) ==
    LET before == {u \in 1..s - 1 : h[u] = "slow"}
    IN  IF before = {} THEN 0 ELSE Max(before)

StopStarts(h, s) ==
    /\ h[s] = "slow"
    /\ \/ PreviousSlow(h, s) = 0
       \/ \E u \in PreviousSlow(h, s) + 1..s - 1 :
             h[u] = "fast" /\ u - PreviousSlow(h, s) > MovingTimeThreshold

StopStart(h) == Max({s \in 1..Len(h) : StopStarts(h, s)})

(* Spec section 4.1, step 6: a vehicle is made a target by the force-      *)
(* avoidance branch exactly when, enabled and not waiting at a traffic     *)
(* light or crosswalk, it is perceived slow now and its stop began more    *)
(* than threshold_time_force_avoidance_for_stopped_vehicle ago; a stop     *)
(* ends only at a MOVING_OBJECT verdict, so cycles in which the object was *)
(* not perceived, or fast for less than moving_time_threshold, count as    *)
(* stopped.                                                                *)
StopTimeMatchesEpisode ==
    input.kind = "stopped" =>
        LET h == input.history
        IN  ForceAvoidanceTarget(ObjectAfter(h), input.enable,
                                 input.toTrafficLight, input.toCrosswalk)
              <=> /\ Last(h) = "slow"
                  /\ Len(h) - StopStart(h) > ForceAvoidanceThreshold
                  /\ input.enable
                  /\ ~NotParkedObject(input.toTrafficLight, input.toCrosswalk)

(* The lateral distance from ego's centre at lateral position x to the     *)
(* object's overhang point, measured away from the object.                 *)
Clearance(o, x) == IF o.onRight THEN x - o.overhang ELSE o.overhang - x

(* Spec section 4.1 and the road shoulder margin of the glossary: for an   *)
(* object with an avoid margin, a path shifted to keep that margin from    *)
(* the object leaves at least hard_road_shoulder_margin between ego and    *)
(* the road shoulder; an object rejected as NotNeedAvoidance is already    *)
(* cleared by more than the margin on the unshifted path, and one rejected *)
(* as LessThanExecutionThreshold by more than the margin less the          *)
(* threshold; an object kept for avoidance gets a shift of at least the    *)
(* threshold that clears it by exactly the margin.                         *)
ShiftKeepsMargins ==
    input.kind = "margin" =>
        \A a \in AvoidMargin(input) :
            LET shift == CalcShiftLength(input.onRight, input.overhang, a)
                verdict == ShiftVerdict(input, a)
            IN  /\ a + HalfVehicleWidth + HardRoadShoulderMargin <= input.toRoadShoulder
                /\ verdict = "NotNeedAvoidance" => Clearance(input, 0) > a
                /\ verdict = "LessThanExecutionThreshold" =>
                      Clearance(input, 0) > a - LateralExecutionThreshold
                /\ verdict = "Avoid" =>
                      /\ Clearance(input, shift) = a
                      /\ shift \notin -LateralExecutionThreshold + 1..LateralExecutionThreshold - 1
(* The object and the road seen in a mirror: left and right swap. *)
Mirror(o) ==
    LET other(s) == IF s = "left" THEN "right" ELSE "left"
    IN  [o EXCEPT !.lateral = -@, !.centroid = -@,
                  !.road = [s \in Sides |-> o.road[other(s)]],
                  !.turn = CASE @ = "right" -> "left" [] @ = "left" -> "right" [] OTHER -> @]

(* The parked-vehicle judgement of filterTargetObjects is written twice,   *)
(* once per side, with the sign of the centroid's offset flipped on the    *)
(* right: a vehicle and its mirror image on a mirrored road get the same   *)
(* verdict, whatever the sign of the shiftable distance.                   *)
ParkedVerdictMirror ==
    input.kind = "parked" => ParkedVehicleVerdict(Mirror(input)) = ParkedVehicleVerdict(input)
(* The box of the buffered footprints of the cycles of h. *)
SeenHull(h) ==
    FoldLeft(LAMBDA acc, fp :
               IF fp = NoBox THEN acc
               ELSE IF acc = NoBox THEN CreateEnvelopePolygon(fp, EnvelopeBufferMargin)
               ELSE BoxHull(acc, CreateEnvelopePolygon(fp, EnvelopeBufferMargin)),
             NoBox, h)

(* fillObjectEnvelopePolygon smooths the envelope with the registered one *)
(* of the same id and keeps only unions.front(): whatever the object did   *)
(* in earlier cycles, its envelope covers its buffered footprint of this   *)
(* cycle, and covers nothing outside the box of its buffered footprints    *)
(* so far.                                                                 *)
EnvelopeTracksFootprints ==
    input.kind = "envelope" =>
        \A e \in EnvelopesAfter(input.history) :
            /\ BoxWithin(CreateEnvelopePolygon(Last(input.history), EnvelopeBufferMargin), e)
            /\ BoxWithin(e, SeenHull(input.history))
(* Section 4.2 of the design: the distance to the road shoulder is the     *)
(* distance to the nearest bound of the current, previous and next         *)
(* lanelets, extended outward to the outer edge of a hatched marking on    *)
(* that bound and of the intersection area, with the division by the      *)
(* distance guarded: an envelope that touches the bound keeps distance 0,  *)
(* as the NaN of ratio = 100.0 / 0 makes extendToRoadShoulderDistance-     *)
(* WithPolygon leave it.                                                   *)
ShoulderExtendedOverMarkings ==
    input.kind = "shoulder" =>
        LET b == input.bound
            d == Min({b[l] : l \in {l \in DOMAIN b : b[l] # Absent}})
            nearest == {l \in DOMAIN b : b[l] = d}
            reach(l) ==
                (IF input.useHatched /\ input.hatched[l] > 0 THEN {d + input.hatched[l]} ELSE {})
                  \cup (IF input.useIntersection /\ input.intersection # NoArea
                        THEN {input.intersection.far} ELSE {})
        IN  RoadShoulderDistance(input) \in {IF d = 0 THEN 0 ELSE Max({d} \cup reach(l)) : l \in nearest}
================================================================================
