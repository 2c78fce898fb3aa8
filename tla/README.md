# TLA+ models of the avoidance planner and its neighbours

This directory holds TLA+ models of the code under `src/`. Each model has TLC
configurations that check it. `PROJECT.json` lists:

- which source lines each definition models ("map");
- every run, with its expected outcome;
- the mutants that show each property can fail;
- the findings and the hazards.

## 1. The system

The repository is a slice of an Autoware stack. These parts are present:

| Part | Source | Character |
|------|--------|-----------|
| Avoidance utilities: object bookkeeping, filter, envelope, shift-line helpers, drivable lanes | `src/unnamed/part_002` | per-cycle transforms of persistent collections |
| Avoidance module header: RTC (cooperative approval) status, shift-line reset, post-processing, state fields; side-shift `run()` | `avoidance_module.hpp` | inline operations on module state |
| NDT scan matcher node (under a misleading file name) | `mu_successive_shortest_path.hpp`, lines 38-930 | callbacks in three callback groups, a detached diagnostic thread, two mutexes |
| MuSSP solver interface | same file, lines 1-36 | declaration only |
| Diagnostic graph aggregator `MainNode` | `src/unnamed/part_000` | timer and subscription on a single-threaded executor |
| Launch file, README | `part_001`, `part_003` | configuration |

### How the avoidance parts interact

In every planning cycle, `AvoidanceModule::updateData` does the following:

1. Builds one `ObjectData` per perceived object (`createObjectData`). This calls:
   - `fillObjectEnvelopePolygon`, which reads `registered_objects_`;
   - `fillObjectMovingTime`, which reads and writes `stopped_objects_`;
   - `fillAvoidanceNecessity`, which reads `registered_objects_`.
2. Partitions the objects into `target_objects` and `other_objects` (`filterTargetObjects`).
3. Judges each target stoppable (`fillObjectStoppableJudge`, which reads `registered_objects_`).
4. Refreshes the registry with the targets (`updateRegisteredObject`).
5. Appends to the targets the registered objects that were neither detected nor ignored (`compensateDetectionLost`).

`AvoidanceModule` is not in `src/`, so this composition follows spec §2 and §5, where cycles are atomic and single-threaded. Every function it composes is translated from `part_002`.

The only state carried across cycles is:

- `registered_objects_`;
- `stopped_objects_`;
- the timers stored in the records.

### State and operations that are hard to test

- **Registry refresh** (`updateRegisteredObject`): an entry is matched by id first, then by position within `POS_THR`. Lost entries are erased after `object_last_seen_threshold`, and new ids are appended.
- **Detection-lost compensation**: ghost targets are re-inserted from the registry.
- **Hysteresis** of `avoid_required` (expanded margin once required). Spec §8 names it as a testable property.
- **Stoppable latch**: `is_stoppable` is inherited from the registry when the object is now too close to stop.
- **Moving timer**: `move_time` is `now - last_stop` of the `stopped_objects_` entry. It decides `MOVING_OBJECT`.
- **Fail-soft cycle**: when the current lanelets are empty, `filterTargetObjects` returns with both lists empty (spec §5).
- **NDT node concurrency**:
  - the regularization pose deque is written by an unlocked callback in the default group and popped in the main group;
  - the diagnostic thread reads `state_ptr_` without a lock;
  - `is_activated_` is read outside the mutex;
  - the initial-pose array is ordered only against its front element.

## 2. Modules

### `AvoidanceObjects.tla`: the object bookkeeping of one planning cycle

**State:**

| Variable | Code |
|----------|------|
| `registered` | `registered_objects_`, a sequence of records `[id, pos, avoid_required, is_stoppable, lost]` |
| `stopped` | `stopped_objects_`, id -> cycles since `last_stop` |
| `objects` | this cycle's `ObjectData`, restricted to the fields the properties read |
| `targets`, `others`, `detected` | `data.target_objects` after compensation, `data.other_objects`, and the targets before compensation |
| `slowAge`, `targetAge` | history variables (not in the code) that record when an id was last slow and last a detected target; the properties refer to them |

**Action:**

- `PlanningCycle(order, perc, lanes)` is one whole cycle in the order of section 1.
- `order` is the perception order of the perceived ids.
- `perc` gives each perceived object:
  - a position cell;
  - fast or slow;
  - a clearance level;
  - the verdict of the filter checks after the moving check;
  - whether it is farther than the feasible stop distance.
- `lanes` says whether current lanelets exist.

Each operator is named after the function it translates:

| Operator | Code |
|----------|------|
| `MoveTime`, `StoppedAfter`, `AgedStopped` | `fillObjectMovingTime` |
| `AvoidRequired`, `CheckNecessity` | `fillAvoidanceNecessity` |
| `IsStoppable` | `fillObjectStoppableJudge` |
| `IsMoving`, `IsTarget`, `IsOther` | `filterTargetObjects` |
| `UpdateIfDetectedNow`, `UpdateRegisteredObject` | `updateRegisteredObject` |
| `CompensateDetectionLost` | `compensateDetectionLost` |

**Abstractions:**

- **Time.** Time is counted in cycles, and a timestamp is kept as its age. Every use in the code compares `now - t` with a threshold, so an age saturates at threshold + 1. The state space is therefore finite without a time bound.
- **Geometry.**
  - Positions are 1 m cells, and `Similar` is the `POS_THR = 1.5` m test.
  - The overhang distance is a clearance level.
  - The margin `0.5*vehicle_width + safety_buffer_lateral` is `SafetyMargin`, and its expansion by `hysteresis_factor_expand_rate` is `ExpandedMargin`.
  - The left/right distinction of `check_necessity` collapses into the level.
- **Filter checks.** The checks of `filterTargetObjects` after `MOVING_OBJECT` (lines 1011-1310) do not read persistent state. They are one input per object:
  - `"ignored"`: pushed to `other_objects`;
  - `"target"`: pushed to `target_objects`;
  - `"no_lanelet"`: the `continue` at line 1041, which leaves the object in neither list.

**Properties:**

| Property | Kind | Statement |
|----------|------|-----------|
| `TypeOK` | invariant | the variables have their types |
| `MovingClassification` | invariant | an object is `MOVING_OBJECT` exactly when it is fast now and was last perceived slow more than `moving_time_threshold` cycles ago, across losses and re-detections |
| `GhostTargetsFresh` | invariant | every compensated target was a detected target 1..`object_last_seen_threshold` cycles ago |
| `HysteresisKept` | action property | a target needing avoidance keeps needing it while its clearance stays inside the expanded margin |
| `StoppableLatch` | action property | a stoppable target that still needs avoidance stays stoppable |
| `LostTargetsDropped` | liveness | an object never detected again eventually leaves the targets forever |
| `RegistryKeyedByIdentity` | invariant, expected to fail | spec §3: the registry is keyed by identity |

### `NdtScanMatcher.tla`: the NDT scan matcher node's threads of control

The node (`mu_successive_shortest_path.hpp`, lines 38-930) runs callbacks in
three callback groups and a detached `std::thread`. The model assumes a
multi-threaded executor, the one the node is built for: it creates callback
groups precisely so that they can run in parallel.

| Thread of control | Code | Actions |
|-------------------|------|---------|
| initial-pose group | `callback_initial_pose` | `InitialPoseCheck` (the unlocked read of `is_activated_`), `InitialPosePush(s)` (the block under `initial_pose_array_mtx_`) |
| default group | `callback_regularization_pose` (its subscription has no options) | `RegularizationPushBegin`, `RegularizationPushEnd`: the unlocked `push_back` as a region |
| main group | `callback_sensor_points`, `service_trigger_node`, `service_ndt_align`, the map module | `SensorPointsBegin`, `RegularizationPop(n)`, `SensorPointsAlign(...)`, `TriggerNode(b)`, `NdtAlignService`, `MapLoaded` |
| diagnostic thread | `timer_diagnostic` | `DiagnosticRead` (the unlocked iteration of `*state_ptr_` as a region), `DiagnosticPublish` |

**State.** `active` is `is_activated_`; `poses` is the initial-pose array
(stamp, and whether it was pushed before the current activation); `regLen` is
the length of the regularization deque; `stateMap` holds the keys of
`*state_ptr_` that the diagnostic reads; `diag` is the last published level
with its skip count and oscillation flag. `ipPc`, `regPc`, `mainPc` and
`diagPc` are the program counters of the regions. `wrote` records that the
main group wrote `state_ptr_` in its current step.

**Abstractions.** Point clouds, TF, the NDT optimisation and the particle search
of `align_pose` are their outcomes, chosen with `\E`: iteration count within
the limit, score above threshold, likelihood below threshold, execution time
above the warning limit, and an oscillation verdict computed by
`NdtValidation` from a sequence of transform-probability flags. Each block under
`initial_pose_array_mtx_` or `ndt_ptr_mtx_` is one atomic step.
`skipping_publish_num` is a function-static counter; it saturates at 5 because
no rule distinguishes larger values.

**Properties.**

| Property | Kind | Statement |
|----------|------|-----------|
| `TypeOK` | invariant | the variables have their types |
| `AlignUsesCurrentActivationPoses` | action property | a scan is aligned only with initial poses received after the latest activation (the trigger service clears the array) |
| `InitialPosesSorted` | invariant, expected to fail | the initial-pose array is ordered by stamp |
| `RegularizationDequeRaceFree` | invariant, expected to fail | the regularization deque is never popped while a push is in progress |
| `StateMapRaceFree` | invariant, expected to fail | `state_ptr_` is never written while the diagnostic thread iterates it |
| `SkipLimitReportedAsError` | invariant, expected to fail | five skipped publications are reported as ERROR |

### `NdtValidation.tla`: the oscillation check

`ValidateLocalOptimalSolutionOscillation` translates
`validate_local_optimal_solution_oscillation` (lines 92-118) as a `RECURSIVE`
loop over the flags. `MCAlgorithms` enumerates every flag sequence of
length up to 7 as initial states and checks the loop against
`OscillationReference`: "some run of more than threshold + 2 consecutive
oscillating transforms".

### `ShiftLineHelpers.tla`: shift-line helpers

Pure operators from `part_002`, on integer arc lengths and shifts in 0.25 m
units, so the code's tolerances (1.0 m, 0.5 m) are exact:

| Operator | Code |
|----------|------|
| `FindPathIndexFromArclength` | `findPathIndexFromArclength` (379-392), 1-based |
| `FindNearestIndex` | `motion_utils::findNearestIndex`, not in the repository, from its contract |
| `FillAdditionalInfoFromLongitudinal`, `FillAdditionalInfoFromPoint` | the resync functions (1402-1462) |
| `LerpShiftLengthOnArc` | `lerpShiftLengthOnArc` (424-434), as a fraction |
| `IsSimilar`, `CombineRawShiftLinesWithUniqueCheck` | `combineRawShiftLinesWithUniqueCheck` (1464-1500) |

A pose on the path is its arc length, so `calcDistance2d` is a difference. The
driver `MCAlgorithms` makes every bounded input of a resynchronisation an
initial state and checks `ResyncKeepsLineOrdered` on it. `LerpShiftLengthOnArc`
and `CombineRawShiftLinesWithUniqueCheck` are translated but no run checks them.
A property of either alone would restate its definition. Their callers, which
would give a property something to say, are in `avoidance_module.cpp`, and
that file is not in the repository.

### `AvoidancePathShifter.tla`: the committed shift lines

`AvoidancePathShifter` models the shift-line state of the avoidance module and
its path shifter: the committed lines, the base offset, the registered arrays
and the RTC (cooperative approval) statuses.

**State.**

| Variable | Code |
|----------|------|
| `base`, `lines` | `path_shifter_`: base offset and shift lines `[start, end, shift]` in path indices |
| `rawRegistered`, `leftArray`, `rightArray` | lengths of `registered_raw_shift_lines_`, `left_shift_array_`, `right_shift_array_` |
| `rtcRegistered`, `candidateSide`, `approved` | the RTC statuses of the current uuids, the side of `candidate_uuid_`, the operator's approvals |
| `ego`, `step` | the ego index, and which step was taken last (history) |

**Actions.** A planning cycle is one step (design section 5). Each function of
the header is an operator on the module's state, and a cycle composes them:

- `PlanCycle(d, c)`: ego advances by `d`, then `UpdateCandidateRTCStatus` (hpp 81-101), then `RegisterApproved` when the candidate's side is approved, then `PostProcess` (hpp 553-557);
- `YieldCycle(d)`: ego advances, then `RemoveRegisteredShiftLines` (hpp 528-548), then `PostProcess`;
- `Approve`: the operator approves the candidate's RTC request.

`PathShifter`, the registration code (`addNewShiftLines`) and the RTC interface
are not in the repository. They are modelled from the design: a line moves the
shift from the previous end shift to its own over `[start, end]`
(interpolated linearly, scaled by 2 to stay integer), committed lines do not
overlap (section 8), and `removeBehindShiftLineAndSetBaseOffset` drops the lines
whose end is behind ego and makes the last one's end shift the base offset.

**Properties.**

| Property | Kind | Statement |
|----------|------|-----------|
| `TypeOK` | invariant | types; the committed lines are ordered, disjoint and at most `MaxLines`; approvals only of registered statuses |

Only the type invariant is checked. Whether the shift at ego stays continuous
depends on the parts modelled from the design. Candidates start ahead of ego,
and `removeBehindShiftLineAndSetBaseOffset` folds exactly the shift of the line
it drops, so continuity while planning holds by construction. A reset that
jumps needs a yield while ego is inside a line. The callers that decide when to
yield are in `avoidance_module.cpp`, and the header declares `canYieldManeuver`
(hpp 301-305) to gate that transition, so the model cannot tell whether that
state is reachable. The hazard at hpp 530 records this.

### `DrivableLanes.tla`: widening the drivable lanes around a lanelet

`GenerateExpandDrivableLanes` translates `generateExpandDrivableLanes`
(part_002, 1719-1857) step by step: the shared-boundary neighbours (step 1),
the recursive expansion over the lanes split from the same previous lane, at
most `max_recursive_search_num = 3` times per side (step 2), the neighbours of
the new edges (step 3), and the compensation for the lanelet (step 4).
`pushUniqueVector` (lines 250-254) appends without removing duplicates, as
in the code. In step 2, `edge_lane` (line 1785) is a reference to the member
`left_lane` or `right_lane`. Once line 1798 or 1800 assigns the new edge, the
test against the middle lanes, the opposite-edge test and the `push_back`
(1803-1818) all see the new edge. `PushesEdge` and `UpdateDrivableLanes` follow
the code: the new edge is pushed, and the edge it replaced is not.

`EdgesOnTheirSides` holds: the left and right lanes only move outwards.
`SideLanesKept` says every lane found at step 1 is still among the lanes
returned. It is violated (see Findings). The route handler is not in the repository. A road is its
contract: chains of shared-boundary neighbours, the successors of one previous
lane in the order `getNextLanelets` returns them, and the end-point adjacency
that `isEndPointsConnected` tests. `MCAlgorithms` enumerates every consistent
road of four lanes. Lanes sharing a boundary meet at their ends, and end
adjacency is itself a chain.

### `StoppedObjects.tla`: the stop timer and force avoidance

`FillObjectMovingTime` translates `fillObjectMovingTime` (part_002, 731-780)
on one `stopped_objects_` entry: a slow object creates or refreshes the entry
(`last_stop`) and gets `stop_time = now - last_move`; a fast one gets
`move_time = now - last_stop`, and its entry is erased once that exceeds
`moving_time_threshold`. The function touches only the entry of its own id,
so the history of one object is the whole story: `ObjectAfter(h)` folds a
sequence of per-cycle observations (slow, fast, unseen) with
`FoldLeftDomain`, time being the cycle index. `ForceAvoidanceTarget` is the
`MOVING_OBJECT` check (1002-1009) followed by the force-avoidance branch
(1146-1179) with its traffic-light and crosswalk ignore sections.
`StopTimeMatchesEpisode` (in `MCAlgorithms`) says an object is a
force-avoidance target exactly when it is slow now, has been stopped for
longer than the threshold since the start of its stop episode, and is
outside the ignore sections. An episode ends only at a move longer than
`moving_time_threshold`: a short move keeps the entry, so the stop time of
slow, fast, slow, slow counts from the first cycle (the hazard at
`part_002:758`).

### `AvoidMargin.tla`: the avoid margin and the shift it gives

The lateral part of `filterTargetObjects` (part_002, 1088-1126) on integer
lateral distances in 0.25 m units: the maximum and minimum margins, the
soft and hard limits to the road shoulder, the three steps of the
`avoid_margin` lambda (the empty set for `boost::none`), `calcShiftLength`
(322-328), `isShiftNecessary` (330-354) and the execution-threshold
rejection. The 1e-3 m snap of `calcShiftLength` is below the unit.
`ShiftKeepsMargins` says that every margin the lambda returns leaves at
least `hard_road_shoulder_margin` to the shoulder, that an object rejected
as `NotNeedAvoidance` is already cleared by more than the margin, that one
rejected by the execution threshold is cleared within the threshold of it,
and that an avoided object is cleared by exactly the margin by a shift at
least the threshold. It holds when `soft_road_shoulder_margin` is at least
`hard_road_shoulder_margin`, which the code never checks (hazard at
`part_002:1108`).

### `ParkedVehicle.tla`: the parked-vehicle judgement

The last checks of `filterTargetObjects` on a vehicle (part_002, 1182-1311)
on one lateral cross-section, in 0.25 m units. They are the centre-line
check, the lanelet's `turn_direction`, and `shiftable_ratio`: the
centroid's offset from the centre line over `object_shiftable_distance`,
the room to the edge of the outermost lanelet on the object's side less
half the object's width. The ratio is compared as doubles compare it: a
zero divisor gives an infinity or NaN, and a negative one flips the sign.
The `sub_type` the lambdas return is the road lanelet's, because the
loop's own `sub_type` shadows it. So the minimum shoulder width is added
even when a shoulder lanelet was found (hazard at `part_002:1249`).
`ParkedVerdictMirror` says the two copies of the check, one per side, give
a vehicle and its mirror image on a mirrored road the same verdict. It
holds because the centre threshold keeps an object at lateral 0, which
`isOnRight` sends to the left copy, out of the check. With a threshold of
0 it fails.

### `Envelope.tla`: the envelope and its smoothing

`createEnvelopePolygon` (part_002, 503-548) takes the axis-aligned box of
the object's polygon in the frame of the closest path pose and expands it
by the buffer. So an envelope is a box, and a footprint is the box of the
polygon. `FillObjectEnvelopePolygon` (688-729) has four outcomes:
- a fresh envelope when the id is not registered;
- the registered envelope when the new one lies within it;
- otherwise the box of `unions.front()` of `boost::geometry::union_`.

For two boxes that share more than a point, that front is their hull. For
boxes apart, boost outputs the rings of its first input first, which is the
new envelope. Boxes touching at a corner may come out either way.
`EnvelopesAfter` folds the outcomes over the cycles in which the object is
a target. The registered entry is the last such cycle's copy, as in
`updateRegisteredObject`.

`EnvelopeTracksFootprints` says every envelope the object may have covers
its buffered footprint of this cycle, and nothing outside the box of its
buffered footprints so far. Keeping the registered envelope first in the
union, when the object jumps, breaks it (hazard at `part_002:728`).
Abstracted: the frame of the closest pose does not rotate between cycles.

### `RoadShoulder.tla`: the distance to the road shoulder

`RoadShoulderDistance` follows `filterTargetObjects` (part_002, 1044-1086)
and `extendToRoadShoulderDistanceWithPolygon` (1315-1399) on the ray that
the extension casts, from the overhang point through the target line.

1. The distance is the least over the current, previous and next lanelets
   that the route handler returns. `target_line` is the first lanelet to
   reach that least distance.
2. The expandable polygons are the hatched markings on that line and the
   overhang lanelet's intersection area.
3. Each polygon contributes the farthest edge the ray crosses, and the
   distance becomes the largest of these and the original.

For a distance of 0, `ratio = 100.0 / 0` is +inf. Every crossing is then
NaN or none, and `std::max` keeps 0, so the missing guard of hazard
`part_002:1365` acts as a guard that skips the extension.
`ShoulderExtendedOverMarkings` compares the result with design section
4.2: the nearest bound, pushed out to the outer edge of the markings on it
and of the intersection area, and 0 for an envelope that touches the
bound. Taking the first crossing after the sort instead of the last breaks
it.

## 3. Runs

| Run | cfg | Inputs | Shows |
|-----|-----|--------|-------|
| `hysteresis` | `MCAvoidanceObjects.cfg` | 2 slow objects in one cell, clearance 0..2, both stop-distance verdicts, lanelets present or missing | `TypeOK`, `HysteresisKept`, `StoppableLatch` hold |
| `registry` | `MCAvoidanceObjectsRegistry.cfg` | 2 objects in cells {0, 2}, fast or slow, all three filter verdicts, lanelets present or missing | `MovingClassification`, `GhostTargetsFresh` hold |
| `lost_targets_dropped` | `MCAvoidanceObjectsLiveness.cfg` | as `registry` with slow objects and `LostThreshold = 2` | `LostTargetsDropped` holds under `WF_vars(Next)` |
| `registry_identity` | `MCAvoidanceObjectsIdentity.cfg` | 2 slow targets in one cell | `RegistryKeyedByIdentity` is violated (see Findings) |
| `ndt_interleavings` | `MCNdtScanMatcher.cfg` | stamps {1, 2}, 2 poses, 1 regularization pose, transform flags of length up to 6 | `TypeOK` and `AlignUsesCurrentActivationPoses` hold over every interleaving of the four threads |
| `ndt_pose_order` | `MCNdtScanMatcherSorted.cfg` | stamps {1, 2, 3}, 3 poses | `InitialPosesSorted` is violated |
| `ndt_regularization_race` | `MCNdtScanMatcherRegularization.cfg` | 1 regularization pose | `RegularizationDequeRaceFree` is violated |
| `ndt_state_map_race` | `MCNdtScanMatcherStateMap.cfg` | one stamp | `StateMapRaceFree` is violated |
| `ndt_diagnostic_level` | `MCNdtScanMatcherDiagnostic.cfg` | NVTL criterion | `SkipLimitReportedAsError` is violated |
| `algorithms` | `MCAlgorithms.cfg` | path: every increasing arc table of up to 3 points in 0..4, line ends and arcs in -1..5, shifts {0, 2, 3}; lanes: every consistent road of 4 lanes, every lanelet, `use_adjacent_lane` both ways; oscillation: every flag sequence of length up to 7, threshold 1; stopped: every history of up to 6 cycles ending in a perceived cycle, thresholds 1 and 2 cycles, ignore-section distances -2..1; margin: both sides, overhang -3..3 m, shoulder distance 0..4.5 m, distance factor 1 or 2; parked: lateral and centroid offsets on both sides, half widths 0.5, 1 and 1.75 m, roads with and without a shoulder lanelet; envelope: histories of up to 3 unit footprints on a 5 x 5 grid, buffer 1; shoulder: bounds 0..0.5 m from the envelope, previous and next lanelets present or not, markings up to 0.5 m, intersection areas | `ResyncKeepsLineOrdered`, `OscillationMatchesReference`, `EdgesOnTheirSides`, `StopTimeMatchesEpisode`, `ShiftKeepsMargins`, `ParkedVerdictMirror`, `EnvelopeTracksFootprints` and `ShoulderExtendedOverMarkings` hold |
| `path_shifter` | `MCAvoidancePathShifter.cfg` | path of 9 indices, lines of 2 indices, shifts {0, 0.5 m}, at most 2 lines, ego advancing 0..2 per cycle | `TypeOK` holds |
| `drivable_lanes_kept` | `MCAlgorithmsDrivable.cfg` | as `algorithms` | `SideLanesKept` is violated (see Findings) |

**Bounds.**

- **Objects.** Two objects are the fewest for which identity and the position fallback can interact.
- **Cells.** Cells {0, 2} let two objects be similar (same cell) or not; a single cell forces similarity.
- **Thresholds.** Thresholds of 1 and 2 cycles exercise, for each timer, the values below, at and above the threshold. The timers saturate at threshold + 1, so larger thresholds add only longer runs of the same shape.
- **Registry length.** `MaxRegistered = 3` bounds the registry, which the code leaves unbounded (see the `resource_bound` hazard at `part_002:912`). With two ids, a third entry already requires a duplicate.
- **NDT bounds.** Two stamps and two poses are enough for a clear, a push after a clear, and a pose left from before a deactivation. One regularization pose lets a push overlap a pop. Transform-flag sequences of length up to 6 give every oscillation verdict with threshold 1. `MaxPoses` caps the initial-pose array, which the code leaves unbounded between scans.
- **Shift-line bounds.** Line ends one unit before and after the path reach both fallbacks of `findPathIndexFromArclength`.
- **Path-shifter bounds.** Two lines of two indices fit in a path of 9 indices with room for ego to be before, inside and past each; Ego advancing 0, 1 or 2 indices per cycle covers standing still and passing a line end between two cycles.
- **Stop-timer bounds.** Six cycles with `moving_time_threshold = 1` and a force threshold of 2 fit a stop, a short move that keeps the entry, a long move that erases it, and a new stop long enough to force avoidance (slow, fast, slow, slow already forces it, from the first stop).
- **Margin bounds.** With a half width of 1 m, buffer 0.5 m, margin 0.5 m, soft 0.5 m and hard 0.25 m, shoulder distances 0..4.5 m reach all three steps of `avoid_margin` and `boost::none`, and overhangs of ±3 m reach all three verdicts on both sides.
- **Parked-vehicle bounds.** Road edges 0.5 and 1 m from the centre line, shoulders of 0 and 0.5 m and half widths up to 1.75 m give shiftable distances that are positive, zero and negative. Centroids of ±0.75 m take the ratio past 0.6 both ways.
- **Envelope bounds.** With a one-unit buffer, unit footprints up to 4 units apart give envelopes that overlap, share an edge, touch at a corner, or lie apart. Three cycles reach a registration, a growth or a kept envelope, and then a jump.
- **Shoulder bounds.** Bounds of 0, 1 and 2 units with absent neighbours give ties between lanelets and a zero distance. Markings of 1 and 2 units and intersection areas starting behind the overhang point reach every branch of the extension.
- **Symmetry.** Symmetry is not used: the liveness run cannot use it, and the other runs are small enough without it.

**Fairness.** The behaviour path planner runs `updateData` from a periodic timer, so a cycle is always eventually taken; this is weak fairness on `Next`. `Next` is always enabled (an empty perception is a legal cycle), so deadlock is checked in every run.

The NDT runs check safety only, so they assume no fairness; deadlock is checked, and every thread can always take a step.

## 4. Findings

**`registry_identity`.** `updateRegisteredObject` overwrites a registered entry with a different detected object when that object lies within `POS_THR`. TLC's trace:

1. Two targets `a` and `b` share a cell.
2. `b` is missed for one cycle.
3. `registered_objects_` now holds `a` twice.
4. `b` leaves both the registry and the targets at once, instead of surviving `object_last_seen_threshold` cycles.

Spec §3 says the registry is keyed by identity, with the position fallback only "when identity tracking drops". The code applies the fallback to any object near the lost one, including an object whose own id is tracked. Every later flicker of `b` appends one more entry.

**`ndt_pose_order`.** The comment at line 369 says the initial-pose buffer is cleared when time goes back (a rosbag restart). The code compares a new stamp only with the front, with a strict `>`: pushing stamps 1, 2 and then 1 appends the last pose after 2, and the array is no longer sorted.

**`ndt_regularization_race`.** The regularization subscription has no options (lines 215-218), so it runs in the default callback group, and its `push_back` (line 397) takes no lock. `callback_sensor_points`, in the main group, pops the same `std::deque` (lines 735-742). Under a multi-threaded executor the two overlap: a data race.

**`ndt_state_map_race`.** The detached diagnostic thread iterates `*state_ptr_` (line 296) with no lock while `callback_sensor_points` and both services insert and assign keys. A first insert rebalances the `std::map` under the iterator. The diagnostic thread is a `std::thread`, so this holds for any executor.

**`ndt_diagnostic_level`.** `timer_diagnostic` sets ERROR when `skipping_publish_num >= 5` (lines 322-327), but later rules assign the level rather than raise it. Under the NVTL criterion an alignment rejected for its score also has a low likelihood, so the "score is unreliably low" rule (lines 328-333) sets WARN: after five such scans the published level is WARN, although the message says the skip limit was exceeded.

**`drivable_lanes_kept`.** In `update_drivable_lanes`, `edge_lane` (part_002:1785) is a reference to `current_drivable_lanes.left_lane` (or `right_lane`). After line 1798 (or 1800) assigns the new edge, lines 1803-1818 test and push the new edge, not the one it replaces. Those tests (already a middle lane, or the opposite edge) only make sense for the replaced edge. The step-4 comment says the current lane must stay among the left, right and middle lanes. Both show the replaced edge is meant to be kept.

TLC's counterexample:

1. Lanelet 4 has lane 1 sharing its left boundary, so step 1 gives left 1, right 4.
2. The previous lane's successors are `<<1, 2>>`, and lane 2 is end-adjacent to the left of lane 1.
3. Step 2 moves the left edge to lane 2 and pushes lane 2 into the middle lanes.
4. The result is left 2, right 4, middle `<<2>>`.

Lane 1, between the ego lane and the new left edge, is no longer among the drivable lanes, and lane 2 is listed twice.

## 5. Not modelled, and the plan

Modelled in part (see `PROJECT.json` for what is left out of each):

- the NDT node: its callbacks, services and diagnostic thread, without the map modules;
- the shift-line state of `avoidance_module.hpp`, with `PathShifter`, registration and RTC from the design;
- `generateExpandDrivableLanes`, with the route handler from its contract;
- the shift-line helpers: all but `isSameDirectionShift` (a signed-zero question its callers, not in the repository, would settle) and the parent-id helpers;
- `filterTargetObjects`: the stop timer, force avoidance, the avoid margin and the parked-vehicle judgement, with the polygon checks as one nondeterministic verdict.

Planned modules, in order:

1. **Shift-line generation.** `generateAvoidOutline` and the merge, fill-gap and trim processes are declared in `avoidance_module.hpp`, but their bodies are in `avoidance_module.cpp`, which is not in the repository. They can only be modelled from the design.

Not planned:

- Polygon geometry beyond boxes (`separateObjectsByPath`, `getSafetyCheckTargetObjects`), which is beyond TLC.
- Message conversions and markers.
- `MainNode`, which is thin I/O whose `Graph` is not in the repository.
- The MuSSP declaration, which has no body.
- The launch file and README.

Most of `avoidance_module.hpp` is declarations, together with the `SideShiftModule` header, and their bodies are in `.cpp` files that are not in the repository. The inline bodies that change the module's state (`updateCandidateRTCStatus`, `removeRegisteredShiftLines`, `postProcess`) are modelled. The rest are the RTC reporting helpers, whose effect lies in the RTC interface, also not in the repository, and `SideShiftModule::run`, which only calls `updateData` and then `plan` or `planWaitingApproval`.

The envelope, its smoothing and the road-shoulder distance are modelled in full, with the geometry reduced to boxes in one frame and to one ray. That reduction is described in the module sections above.
