--------------------------- MODULE StoppedObjects ----------------------------
(***************************************************************************)
(* The stop timer of one object and the force-avoidance branch that reads  *)
(* it (behavior_path_planner::utils::avoidance, src/unnamed/part_002):     *)
(* fillObjectMovingTime (lines 731-780) keeps a stopped_objects_ entry     *)
(* with last_stop and last_move, and filterTargetObjects (lines 1146-1179) *)
(* makes a vehicle whose stop_time exceeds                                 *)
(* threshold_time_force_avoidance_for_stopped_vehicle a target, unless it  *)
(* waits at a traffic light or a crosswalk.                                *)
(*                                                                         *)
(* fillObjectMovingTime reads and writes only the entry of the object's    *)
(* own id, so the history of one object is the whole story.  Time is the   *)
(* index of the planning cycle: the timestamps of rclcpp::Clock::now() of  *)
(* successive cycles, with thresholds that are multiples of the period.    *)
(***************************************************************************)
EXTENDS Integers, SequencesExt

CONSTANTS MovingTimeThreshold,      \* moving_time_threshold, in cycles
          ForceAvoidanceThreshold,  \* threshold_time_force_avoidance_for_stopped_vehicle
          TrafficLightFront,        \* object_ignore_section_traffic_light_in_front_distance
          CrosswalkFront,           \* object_ignore_section_crosswalk_in_front_distance
          CrosswalkBehind           \* object_ignore_section_crosswalk_behind_distance

(* What a planning cycle sees of the object: perceived at most as fast as  *)
(* moving_speed_threshold, perceived faster, or not perceived at all.      *)
Observations == {"slow", "fast", "unseen"}

(* No entry of this id in stopped_objects_. *)
NoEntry == [present |-> FALSE, last_stop |-> 0, last_move |-> 0]

(* move_time = infinity (line 767): move_time is only compared with        *)
(* moving_time_threshold, so any larger value stands for it.              *)
InfiniteMoveTime == MovingTimeThreshold + 1

(***************************************************************************)
(* fillObjectMovingTime (lines 731-780) at time now: the new entry, and    *)
(* the move_time and stop_time of the ObjectData.                          *)
(***************************************************************************)
FillObjectMovingTimeNoErase(e, fast, now) ==
  IF ~fast
  THEN IF ~e.present
       THEN [entry |-> [present |-> TRUE, last_stop |-> now, last_move |-> now],
             move_time |-> 0, stop_time |-> 0]
       ELSE [entry |-> [e EXCEPT !.last_stop = now],
             move_time |-> 0, stop_time |-> now - e.last_move]
  ELSE IF ~e.present
       THEN [entry |-> e, move_time |-> InfiniteMoveTime, stop_time |-> 0]
       ELSE [entry |-> e, move_time |-> now - e.last_stop, stop_time |-> 0]

FillObjectMovingTime(e, fast, now) ==
  IF ~fast
  THEN IF ~e.present
       THEN [entry |-> [present |-> TRUE, last_stop |-> now, last_move |-> now],
             move_time |-> 0, stop_time |-> 0]
       ELSE [entry |-> [e EXCEPT !.last_stop = now],
             move_time |-> 0, stop_time |-> now - e.last_move]
  ELSE IF ~e.present
       THEN [entry |-> e, move_time |-> InfiniteMoveTime, stop_time |-> 0]
       ELSE LET moveTime == now - e.last_stop
            IN  [entry |-> IF moveTime > MovingTimeThreshold THEN NoEntry ELSE e,
                 move_time |-> moveTime, stop_time |-> 0]

(* The ObjectData of the last cycle of a history h of observations, cycle  *)
(* i at time i.  An unseen object is not passed to fillObjectMovingTime,   *)
(* and its entry stays as it is.                                           *)
ObjectAfter(h) ==
  FoldLeftDomain(
    LAMBDA acc, i : IF h[i] = "unseen" THEN [acc EXCEPT !.move_time = 0, !.stop_time = 0]
                    ELSE FillObjectMovingTime(acc.entry, h[i] = "fast", i),
    [entry |-> NoEntry, move_time |-> 0, stop_time |-> 0], h)

(***************************************************************************)
(* filterTargetObjects: the MOVING_OBJECT check (lines 1002-1009), then,   *)
(* for a vehicle that passed the checks between, the force-avoidance       *)
(* branch (lines 1146-1179).  Distances are in the units of the ignore     *)
(* sections.                                                               *)
(***************************************************************************)
IsMovingObject(o) == o.move_time > MovingTimeThreshold

NotParkedObject(toTrafficLight, toCrosswalk) ==
  \/ toTrafficLight < TrafficLightFront
  \/ toCrosswalk < CrosswalkFront /\ toCrosswalk > -CrosswalkBehind

ForceAvoidanceTarget(o, enable, toTrafficLight, toCrosswalk) ==
  /\ ~IsMovingObject(o)
  /\ o.stop_time > ForceAvoidanceThreshold
  /\ enable
  /\ ~NotParkedObject(toTrafficLight, toCrosswalk)
================================================================================
