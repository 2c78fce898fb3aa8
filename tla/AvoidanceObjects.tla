--------------------------- MODULE AvoidanceObjects ---------------------------
(***************************************************************************)
(* The avoidance module's bookkeeping of perceived objects across planning *)
(* cycles (behavior_path_planner::utils::avoidance, src/unnamed/part_002). *)
(*                                                                         *)
(* One step is one planning cycle: every perceived object is turned into   *)
(* ObjectData (fillObjectMovingTime, fillAvoidanceNecessity), partitioned  *)
(* into targets and others (filterTargetObjects), the targets are judged   *)
(* stoppable (fillObjectStoppableJudge), the registry is refreshed with    *)
(* the targets (updateRegisteredObject) and registered objects that were   *)
(* not detected are put back into the targets (compensateDetectionLost).   *)
(* The three persistent collections are registered_objects_,              *)
(* stopped_objects_ and, inside each record, the timers.                  *)
(*                                                                         *)
(* Time is counted in planning cycles.  A timestamp t is kept as its age,  *)
(* now - t, which is all the code ever compares against a threshold; an    *)
(* age that only matters through "> threshold" saturates at threshold + 1. *)
(* Geometry is abstracted: a position is a 1 m cell on the path, the       *)
(* overhang point is a clearance level, and the geometric checks of        *)
(* filterTargetObjects after the moving check are one input per object.    *)
(***************************************************************************)
EXTENDS Integers, SequencesExt

CONSTANTS
  Ids,                 \* object_id of perceived objects (model values)
  Positions,           \* object positions, cells 1 m apart along the path
  Clearances,          \* lateral clearance of the overhang point, in levels
  FilterResults,       \* outcomes of the checks after the moving check
  Speeds,              \* values of "faster than moving_speed_threshold"
  StopFarValues,       \* values of "to_stop_line > feasible_stop_distance"
  SafetyMargin,        \* 0.5 * vehicle_width + safety_buffer_lateral, in levels
  ExpandedMargin,      \* SafetyMargin * hysteresis_factor_expand_rate
  MovingTimeThreshold, \* moving_time_threshold, in cycles
  LostThreshold,       \* object_last_seen_threshold, in cycles
  ReliablePolicy,      \* policy_deceleration == "reliable"
  LaneletValues,       \* values of "data.current_lanelets is not empty"
  MaxRegistered        \* bound on Len(registered_objects_) explored by TLC

ASSUME /\ Positions \subseteq Int /\ Clearances \subseteq Nat
       /\ FilterResults \subseteq {"target", "ignored", "no_lanelet"}
       /\ Speeds \subseteq BOOLEAN /\ StopFarValues \subseteq BOOLEAN
       /\ SafetyMargin \in Nat /\ ExpandedMargin \in Nat
       /\ MovingTimeThreshold \in Nat /\ LostThreshold \in Nat
       /\ ReliablePolicy \in BOOLEAN /\ MaxRegistered \in Nat
       /\ LaneletValues \subseteq BOOLEAN

VARIABLES
  registered,  \* registered_objects_: sequence of registry records
  stopped,     \* stopped_objects_: object id -> cycles since last_stop
  objects,     \* ObjectData made this cycle: perceived id -> record
  targets,     \* data.target_objects after compensateDetectionLost
  others,      \* ids in data.other_objects this cycle
  detected,    \* ids in data.target_objects before compensateDetectionLost
  slowAge,     \* history: cycles since the id was last perceived slow
  targetAge    \* history: cycles since the id was last a detected target

vars == <<registered, stopped, objects, targets, others, detected, slowAge,
          targetAge>>

\* "Infinity" for a timer that is only compared with MovingTimeThreshold.
Forever == MovingTimeThreshold + 1

\* One perceived object: its position, whether it is faster than
\* moving_speed_threshold, its clearance, the verdict of the later filter
\* checks, and whether to_stop_line > feasible_stop_distance.
Observation == [pos: Positions, fast: Speeds, clear: Clearances,
                result: FilterResults, stopFar: StopFarValues]

\* An entry of registered_objects_ (and of target_objects): the fields of
\* ObjectData that later cycles read, lost = now - last_seen.
Record == [id: Ids, pos: Positions, avoid_required: BOOLEAN,
           is_stoppable: BOOLEAN, lost: 0..LostThreshold]

\* calcDistance2d(r_pos, o_pos) < POS_THR (1.5 m) on 1 m cells.
Similar(p, q) == p - q \in {-1, 0, 1}

HasId(seq, x) == \E i \in 1..Len(seq) : seq[i].id = x

\* std::find_if by object_id: the first entry with that id.
FirstWithId(seq, x) == seq[SelectInSeq(seq, LAMBDA r : r.id = x)]

-----------------------------------------------------------------------------
(* fillObjectMovingTime, for all perceived objects of one cycle.  The     *)
(* stopped table is first aged by the cycle that has passed.              *)

\* Variant for mutation analysis: the timer is aged without saturating.
AgedStoppedUnsaturated == [x \in DOMAIN stopped |-> stopped[x] + 1]

AgedStopped == [x \in DOMAIN stopped |-> IF stopped[x] < Forever
                                         THEN stopped[x] + 1 ELSE Forever]

\* move_time of an object: 0 when slow, now - last_stop of its stopped
\* entry when fast and known, infinity when fast and new.
MoveTime(x, v) ==
  IF ~v.fast THEN 0
  ELSE IF x \in DOMAIN AgedStopped THEN AgedStopped[x] ELSE Forever

\* stopped_objects_ after the cycle: slow objects are (re)stamped, a fast
\* known object whose move_time exceeds the threshold is erased.
\* Variant for mutation analysis: a known object perceived slow again keeps
\* its old last_stop.
StoppedAfterNoRestamp(perc) ==
  LET slow == {x \in DOMAIN perc : ~perc[x].fast}
      erase == {x \in DOMAIN perc \cap DOMAIN AgedStopped :
                  perc[x].fast /\ AgedStopped[x] > MovingTimeThreshold}
  IN [x \in (DOMAIN AgedStopped \cup slow) \ erase |->
        IF x \in slow \ DOMAIN AgedStopped THEN 0 ELSE AgedStopped[x]]

StoppedAfter(perc) ==
  LET slow  == {x \in DOMAIN perc : ~perc[x].fast}
      erase == {x \in DOMAIN perc \cap DOMAIN AgedStopped :
                  perc[x].fast /\ AgedStopped[x] > MovingTimeThreshold}
  IN [x \in (DOMAIN AgedStopped \cup slow) \ erase |->
        IF x \in slow THEN 0 ELSE AgedStopped[x]]

(* fillAvoidanceNecessity: the first time, and while not required, the    *)
(* object needs avoidance inside the safety margin; once required, inside *)
(* the margin expanded by the hysteresis factor.                          *)
CheckNecessity(v, margin) == v.clear < margin

\* Variant for mutation analysis: the hysteresis factor is never applied.
AvoidRequiredNoHysteresis(x, v) == CheckNecessity(v, SafetyMargin)

AvoidRequired(x, v) ==
  IF ~HasId(registered, x) THEN CheckNecessity(v, SafetyMargin)
  ELSE IF ~FirstWithId(registered, x).avoid_required
       THEN CheckNecessity(v, SafetyMargin)
       ELSE CheckNecessity(v, ExpandedMargin)

\* createObjectData for a perceived object.
ObjectData(x, v) ==
  [id |-> x, pos |-> v.pos, clear |-> v.clear, fast |-> v.fast,
   move_time |-> MoveTime(x, v), avoid_required |-> AvoidRequired(x, v),
   result |-> v.result, stopFar |-> v.stopFar]

(* filterTargetObjects: MOVING_OBJECT first, then the remaining checks.   *)
(* An object whose closest lanelet is not found is in neither list.       *)
IsMoving(o) == o.move_time > MovingTimeThreshold
IsTarget(o) == ~IsMoving(o) /\ o.result = "target"
IsOther(o)  == IsMoving(o) \/ o.result = "ignored"

(* fillObjectStoppableJudge, reading the registry of the previous cycle.  *)
\* Variant for mutation analysis: the registered judgement is not reused.
IsStoppableNoRegistry(o) ==
  IF ReliablePolicy THEN TRUE
  ELSE IF ~o.avoid_required THEN FALSE
  ELSE o.stopFar

IsStoppable(o) ==
  IF ReliablePolicy THEN TRUE
  ELSE IF ~o.avoid_required THEN FALSE
  ELSE IF o.stopFar THEN TRUE
  ELSE IF ~HasId(registered, o.id) THEN FALSE
  ELSE FirstWithId(registered, o.id).is_stoppable

\* The part of an ObjectData that later cycles' checks are stated over.
Observed(o) == [fast |-> o.fast, clear |-> o.clear, move_time |-> o.move_time,
                avoid_required |-> o.avoid_required, result |-> o.result]

ToRecord(o) == [id |-> o.id, pos |-> o.pos, avoid_required |-> o.avoid_required,
                is_stoppable |-> IsStoppable(o), lost |-> 0]

(* updateRegisteredObject: each entry is replaced by the detected object  *)
(* of the same id, else by the first detected object within POS_THR,      *)
(* else its lost time grows; entries lost too long are erased; detected   *)
(* objects whose id is not registered are appended.                       *)
\* Variants for mutation analysis: a match by position only marks the
\* entry as seen; the lost time is never counted up.
UpdateIfDetectedNowKeepId(r, now) ==
  LET byId  == SelectInSeq(now, LAMBDA n : n.id = r.id)
      byPos == SelectInSeq(now, LAMBDA n : Similar(r.pos, n.pos))
  IN IF byId # 0 THEN now[byId]
     ELSE IF byPos # 0 THEN [r EXCEPT !.lost = 0]
     ELSE [r EXCEPT !.lost = r.lost + 1]

UpdateIfDetectedNowNoLostCount(r, now) ==
  LET byId == SelectInSeq(now, LAMBDA n : n.id = r.id)
  IN IF byId # 0 THEN now[byId] ELSE r

UpdateIfDetectedNow(r, now) ==
  LET byId  == SelectInSeq(now, LAMBDA n : n.id = r.id)
      byPos == SelectInSeq(now, LAMBDA n : Similar(r.pos, n.pos))
  IN IF byId # 0 THEN now[byId]
     ELSE IF byPos # 0 THEN now[byPos]
     ELSE [r EXCEPT !.lost = r.lost + 1]

UpdateRegisteredObject(reg, now) ==
  LET refreshed == [i \in 1..Len(reg) |-> UpdateIfDetectedNow(reg[i], now)]
      kept      == SelectSeq(refreshed, LAMBDA r : r.lost <= LostThreshold)
  IN kept \o SelectSeq(now, LAMBDA n : ~HasId(kept, n.id))

(* compensateDetectionLost: registered objects neither detected now nor   *)
(* ignored are appended to the targets.                                   *)
CompensateDetectionLost(reg, now, ignored) ==
  now \o SelectSeq(reg, LAMBDA r : ~HasId(now, r.id) /\ r.id \notin ignored)

-----------------------------------------------------------------------------
Init ==
  /\ registered = <<>>
  /\ stopped = [x \in {} |-> 0]
  /\ objects = [x \in {} |-> 0]
  /\ targets = <<>>
  /\ others = {}
  /\ detected = {}
  /\ slowAge = [x \in Ids |-> Forever]
  /\ targetAge = [x \in Ids |-> LostThreshold + 1]

(* One planning cycle on the perception list `order` (distinct ids, in    *)
(* the order perception delivers them) with observations `perc`; without  *)
(* current lanelets filterTargetObjects returns before filling any list.  *)
PlanningCycle(order, perc, lanes) ==
  LET objs   == [x \in DOMAIN perc |-> ObjectData(x, perc[x])]
      data   == [i \in 1..Len(order) |-> objs[order[i]]]
      tgt    == IF lanes THEN SelectSeq(data, IsTarget) ELSE <<>>
      now    == [i \in 1..Len(tgt) |-> ToRecord(tgt[i])]
      ign    == IF lanes THEN {x \in DOMAIN objs : IsOther(objs[x])} ELSE {}
      newReg == UpdateRegisteredObject(registered, now)
  IN /\ Len(newReg) <= MaxRegistered
     /\ registered' = newReg
     /\ stopped' = StoppedAfter(perc)
     /\ objects' = [x \in DOMAIN objs |-> Observed(objs[x])]
     /\ targets' = CompensateDetectionLost(newReg, now, ign)
     /\ others' = ign
     /\ detected' = {now[i].id : i \in 1..Len(now)}
     /\ slowAge' = [x \in Ids |->
                      IF x \in DOMAIN perc /\ ~perc[x].fast THEN 0
                      ELSE IF slowAge[x] < Forever THEN slowAge[x] + 1
                      ELSE Forever]
     /\ targetAge' = [x \in Ids |->
                        IF HasId(now, x) THEN 0
                        ELSE IF targetAge[x] <= LostThreshold
                             THEN targetAge[x] + 1 ELSE targetAge[x]]

\* The possible perceptions of one cycle: a set of distinct objects in the
\* order perception lists them, with an observation of each.
Perceptions ==
  UNION {{<<order, perc>> : order \in SetToSeqs(S), perc \in [S -> Observation]} :
           S \in SUBSET Ids}

Next ==
  \E p \in Perceptions, lanes \in LaneletValues : PlanningCycle(p[1], p[2], lanes)

\* The planner is invoked periodically by its timer.
Spec == Init /\ [][Next]_vars /\ WF_vars(Next)

-----------------------------------------------------------------------------
TypeOK ==
  /\ registered \in Seq(Record)
  /\ \E D \in SUBSET Ids : stopped \in [D -> 0..Forever]
  /\ targets \in Seq(Record)
  /\ others \subseteq Ids
  /\ detected \subseteq Ids
  /\ slowAge \in [Ids -> 0..Forever]
  /\ targetAge \in [Ids -> 0..LostThreshold + 1]

DetectedTargets == detected

\* fillObjectMovingTime / filterTargetObjects: an object is rejected as
\* MOVING_OBJECT exactly when it is fast now and has not been perceived slow
\* for more than moving_time_threshold, however it was lost and re-perceived
\* in between.
MovingClassification ==
  \A x \in DOMAIN objects :
    IsMoving(objects[x]) <=> (objects[x].fast /\ slowAge[x] > MovingTimeThreshold)

\* compensateDetectionLost / updateRegisteredObject: a target that was not
\* detected this cycle (a compensated one) was a detected target no more
\* than object_last_seen_threshold cycles ago.
GhostTargetsFresh ==
  \A i \in 1..Len(targets) :
    targets[i].id \notin DetectedTargets =>
      targetAge[targets[i].id] \in 1..LostThreshold

\* fillAvoidanceNecessity: an object that was a target needing avoidance
\* last cycle keeps needing it while its clearance stays inside the
\* expanded margin (hysteresis against flicker).
HysteresisKept ==
  [][\A x \in DOMAIN objects' :
       (\E i \in 1..Len(targets) : targets[i].id = x /\ targets[i].avoid_required)
       /\ objects'[x].clear < ExpandedMargin
       => objects'[x].avoid_required]_vars

\* fillObjectStoppableJudge: a target judged stoppable stays stoppable in
\* the next cycle while it is a target that still needs avoidance, even when
\* it is now closer than the feasible stop distance.
StoppableLatch ==
  [][\A x \in Ids :
       (\E i \in 1..Len(targets) :
          targets[i].id = x /\ targets[i].is_stoppable /\ targets[i].avoid_required)
       /\ x \in detected'
       /\ objects'[x].avoid_required
       => FirstWithId(targets', x).is_stoppable]_vars

\* updateRegisteredObject: an object that is never again a detected target
\* stops being compensated into the targets.
LostTargetsDropped ==
  \A x \in Ids : (<>[](x \notin DetectedTargets)) => <>[](~HasId(targets, x))

\* Section 3 of the spec: the registry is keyed by identity, one entry per
\* object id.
RegistryKeyedByIdentity ==
  \A i, j \in 1..Len(registered) : i # j => registered[i].id # registered[j].id
=============================================================================
