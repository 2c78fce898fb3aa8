--------------------------- MODULE NdtScanMatcher ---------------------------
(***************************************************************************)
(* The concurrency of NDTScanMatcher (mu_successive_shortest_path.hpp,     *)
(* lines 38-930).  Four threads of control share the node's state:         *)
(*   - the initial-pose callback group (callback_initial_pose);            *)
(*   - the node's default group (callback_regularization_pose, whose       *)
(*     subscription is created without options);                           *)
(*   - main_callback_group (callback_sensor_points, service_trigger_node,  *)
(*     service_ndt_align and the map module), mutually exclusive;          *)
(*   - the detached diagnostic thread (timer_diagnostic).                  *)
(* The node is run by a multi-threaded executor, which is what its         *)
(* callback groups are made for.  A block under initial_pose_array_mtx_ is *)
(* one step; every access outside a mutex is a step of its own, or a       *)
(* region between two steps when another thread may act in between.       *)
(***************************************************************************)
EXTENDS Integers, SequencesExt, NdtValidation

CONSTANTS
    Stamps,                \* header stamps of initial poses and scans
    MaxPoses,              \* bound on initial_pose_msg_ptr_array_
    MaxRegularization,     \* bound on regularization_pose_msg_ptr_array_
    RegularizationEnabled, \* parameter regularization_enabled
    ConvergedParamType,    \* parameter converged_param_type
    TransformFlags         \* per-iteration inversion flags an alignment yields

ASSUME /\ Stamps \subseteq Nat /\ Stamps # {}
       /\ MaxPoses \in Nat /\ MaxRegularization \in Nat
       /\ RegularizationEnabled \in BOOLEAN
       /\ ConvergedParamType \in {"TRANSFORM_PROBABILITY",
                                  "NEAREST_VOXEL_TRANSFORMATION_LIKELIHOOD"}
       /\ TransformFlags \subseteq Seq(BOOLEAN)

VARIABLES
    active,     \* is_activated_
    poses,      \* initial_pose_msg_ptr_array_: [stamp, prev] records; prev
                \* marks a pose pushed before the latest trigger_node call
    ipPc,       \* callback_initial_pose: "idle" or "checked" (past line 363)
    regPc,      \* callback_regularization_pose: "idle" or inside push_back
    regLen,     \* length of regularization_pose_msg_ptr_array_
    mainPc,     \* callback_sensor_points: "idle", "regularize" (inside
                \* interpolate_regularization_pose) or "align" (line 462 on)
    hasMap,     \* ndt_ptr_->getInputTarget() != nullptr
    hasSource,  \* ndt_ptr_->getInputSource() != nullptr
    stateMap,   \* *state_ptr_, one field per key the diagnostic reads
    diagPc,     \* timer_diagnostic: "idle" or "reading" (lines 296-348)
    diag,       \* the last published diagnostic
    wrote       \* the last step wrote *state_ptr_

vars == <<active, poses, ipPc, regPc, regLen, mainPc, hasMap, hasSource,
          stateMap, diagPc, diag, wrote>>

Levels == {"OK", "WARN", "ERROR"}

(* skipping_publish_num is a size_t; timer_diagnostic only tells apart    *)
(* 0..1, 2..4 and >= 5, so the count saturates at 5.                      *)
SkipSaturation == 5

Pose == [stamp : Stamps, prev : BOOLEAN]

StateRecord == [state : {"Initializing", "Aligning", "Sleeping"},
                delay : BOOLEAN, skip : 0..SkipSaturation,
                lowNvtl : BOOLEAN, slowExe : BOOLEAN, osc : BOOLEAN]

(* The outcomes an alignment's transformation array can give. *)
OscillationOutcomes ==
    {ValidateLocalOptimalSolutionOscillation(f) : f \in TransformFlags}

(***************************************************************************)
(* timer_diagnostic, lines 304-348: every rule that fires ASSIGNS its      *)
(* level, so the last firing rule decides the published level.             *)
(***************************************************************************)
DiagnosticRules(m) ==
    << <<m.state = "Initializing", "WARN">>,
       <<m.delay, "WARN">>,
       <<m.skip > 1 /\ m.skip < 5, "WARN">>,
       <<m.skip >= 5, "ERROR">>,
       <<m.lowNvtl, "WARN">>,
       <<m.slowExe, "WARN">>,
       <<m.osc, "OK">> >>

DiagnosticLevel(m) ==
    LET rules == DiagnosticRules(m)
        last == SelectLastInSeq(rules, LAMBDA r : r[1])
    IN  IF last = 0 THEN "OK" ELSE rules[last][2]

(* pop_old_pose (util_func, not in the repository): drop front poses      *)
(* older than the scan.                                                    *)
RECURSIVE PopOldPose(_, _)
PopOldPose(s, t) ==
    IF s # <<>> /\ Head(s).stamp < t THEN PopOldPose(Tail(s), t) ELSE s

(* validate_converged_param (lines 704-725) against the diagnostic's      *)
(* "NDT score is unreliably low" test (lines 328-333): with the NVTL       *)
(* criterion, score > threshold excludes score < threshold.               *)
ScoreConsistent(scoreOk, lowNvtl) ==
    ConvergedParamType = "NEAREST_VOXEL_TRANSFORMATION_LIKELIHOOD"
        => ~(scoreOk /\ lowNvtl)

Init ==
    /\ active = FALSE
    /\ poses = <<>>
    /\ ipPc = "idle"
    /\ regPc = "idle"
    /\ regLen = 0
    /\ mainPc = "idle"
    /\ hasMap = FALSE
    /\ hasSource = FALSE
    /\ stateMap = [state |-> "Initializing", delay |-> FALSE, skip |-> 0,
                   lowNvtl |-> FALSE, slowExe |-> FALSE, osc |-> FALSE]
    /\ diagPc = "idle"
    /\ diag = [level |-> "OK", skip |-> 0, osc |-> FALSE]
    /\ wrote = FALSE

(* callback_initial_pose, line 363: the unlocked is_activated_ check.  An *)
(* inactive node returns, which changes nothing.                          *)
InitialPoseCheck ==
    /\ ipPc = "idle" /\ active
    /\ ipPc' = "checked"
    /\ wrote' = FALSE
    /\ UNCHANGED <<active, poses, regPc, regLen, mainPc, hasMap, hasSource,
                   stateMap, diagPc, diag>>

(* callback_initial_pose, lines 366-391, under initial_pose_array_mtx_:   *)
(* clear the array when its front is newer than the message ("rosbag      *)
(* restart"), then push the message (transformed to the map frame).      *)
InitialPosePush(s) ==
    /\ ipPc = "checked" /\ Len(poses) < MaxPoses
    /\ LET kept == IF poses # <<>> /\ Head(poses).stamp > s THEN <<>> ELSE poses
       IN  poses' = Append(kept, [stamp |-> s, prev |-> FALSE])
    /\ ipPc' = "idle"
    /\ wrote' = FALSE
    /\ UNCHANGED <<active, regPc, regLen, mainPc, hasMap, hasSource,
                   stateMap, diagPc, diag>>

(* callback_regularization_pose, line 397: an unlocked push_back, which   *)
(* is a region other threads can act inside.                              *)
RegularizationPushBegin ==
    /\ regPc = "idle" /\ regLen < MaxRegularization
    /\ regPc' = "pushing"
    /\ wrote' = FALSE
    /\ UNCHANGED <<active, poses, ipPc, regLen, mainPc, hasMap, hasSource,
                   stateMap, diagPc, diag>>

RegularizationPushEnd ==
    /\ regPc = "pushing"
    /\ regPc' = "idle" /\ regLen' = regLen + 1
    /\ wrote' = FALSE
    /\ UNCHANGED <<active, poses, ipPc, mainPc, hasMap, hasSource,
                   stateMap, diagPc, diag>>

(***************************************************************************)
(* callback_sensor_points, lines 400-460, for a non-empty scan stamped t   *)
(* ("Empty sensor points!" returns before any write).  It records the      *)
(* delay, sets the input source under ndt_ptr_mtx_, returns when inactive, *)
(* and, under initial_pose_array_mtx_, returns with one pose or fewer or   *)
(* when the interpolator fails; otherwise it pops the old poses.           *)
(***************************************************************************)
SensorPointsBegin(t, delay, interpolated) ==
    /\ mainPc = "idle"
    /\ stateMap' = [stateMap EXCEPT !.delay = delay]
    /\ hasSource' = TRUE
    /\ IF active /\ Len(poses) > 1 /\ interpolated
       THEN /\ poses' = PopOldPose(poses, t)
            /\ mainPc' = IF RegularizationEnabled THEN "regularize" ELSE "align"
       ELSE UNCHANGED <<poses, mainPc>>
    /\ wrote' = TRUE
    /\ UNCHANGED <<active, ipPc, regPc, regLen, hasMap, diagPc, diag>>

(* add_regularization_pose and interpolate_regularization_pose (lines     *)
(* 732-760): an empty deque gives no pose; otherwise pop_old_pose drops   *)
(* the regularization poses older than the scan, some prefix of the deque. *)
RegularizationPop(n) ==
    /\ mainPc = "regularize"
    /\ regLen' = IF regLen = 0 THEN 0 ELSE regLen - n
    /\ mainPc' = "align"
    /\ wrote' = FALSE
    /\ UNCHANGED <<active, poses, ipPc, regPc, hasMap, hasSource, stateMap,
                   diagPc, diag>>

(* The static skipping_publish_num (lines 498-503): reset on convergence, *)
(* counted up otherwise.                                                  *)
SkippingPublishNumUnsaturated(converged) ==
    IF converged THEN 0 ELSE stateMap.skip + 1

SkippingPublishNum(converged) ==
    IF converged THEN 0
    ELSE IF stateMap.skip < SkipSaturation THEN stateMap.skip + 1
         ELSE SkipSaturation

(***************************************************************************)
(* callback_sensor_points, lines 462-566.  "No MAP!" returns.  Otherwise   *)
(* the state goes Aligning then Sleeping around align, the static          *)
(* skipping_publish_num is reset on convergence and counted up otherwise,  *)
(* the oscillation test runs only when the iteration limit was hit, the    *)
(* pose is published when converged, and the result keys are written to   *)
(* *state_ptr_.  stateMap.skip is skipping_publish_num, which is written   *)
(* to the map in the same step that changes it.                            *)
(***************************************************************************)
SensorPointsAlign(iterOk, scoreOk, lowNvtl, slowExe, oscillation) ==
    /\ mainPc = "align"
    /\ mainPc' = "idle"
    /\ IF hasMap
       THEN LET converged == iterOk /\ scoreOk
            IN  /\ stateMap' =
                     [state |-> "Sleeping", delay |-> stateMap.delay,
                      skip |-> SkippingPublishNum(converged),
                      lowNvtl |-> lowNvtl, slowExe |-> slowExe,
                      osc |-> ~iterOk /\ oscillation]
                /\ wrote' = TRUE
       ELSE /\ UNCHANGED stateMap
            /\ wrote' = FALSE
    /\ UNCHANGED <<active, poses, ipPc, regPc, regLen, hasMap, hasSource,
                   diagPc, diag>>

(* service_trigger_node, lines 762-774: activation clears the initial    *)
(* poses under their mutex; deactivation marks the node Initializing.    *)
TriggerNodeKeeps(b) ==
    [i \in DOMAIN poses |-> [poses[i] EXCEPT !.prev = TRUE]]

TriggerNodeClears(b) ==
    IF b THEN <<>> ELSE [i \in DOMAIN poses |-> [poses[i] EXCEPT !.prev = TRUE]]

TriggerNode(b) ==
    /\ mainPc = "idle"
    /\ active' = b
    /\ poses' = TriggerNodeClears(b)
    /\ stateMap' = IF b THEN stateMap ELSE [stateMap EXCEPT !.state = "Initializing"]
    /\ wrote' = ~b
    /\ UNCHANGED <<ipPc, regPc, regLen, mainPc, hasMap, hasSource, diagPc, diag>>

(* service_ndt_align, lines 776-813: under ndt_ptr_mtx_, it fails without *)
(* a map or a scan; otherwise Aligning, align_pose, Sleeping.  It does    *)
(* not look at is_activated_.                                             *)
NdtAlignService ==
    /\ mainPc = "idle"
    /\ IF hasMap /\ hasSource
       THEN /\ stateMap' = [stateMap EXCEPT !.state = "Sleeping"]
            /\ wrote' = TRUE
       ELSE /\ UNCHANGED stateMap
            /\ wrote' = FALSE
    /\ UNCHANGED <<active, poses, ipPc, regPc, regLen, mainPc, hasMap,
                   hasSource, diagPc, diag>>

(* The map module (not in the repository) sets the NDT target in         *)
(* main_callback_group.                                                   *)
MapLoaded ==
    /\ mainPc = "idle" /\ ~hasMap
    /\ hasMap' = TRUE
    /\ wrote' = FALSE
    /\ UNCHANGED <<active, poses, ipPc, regPc, regLen, mainPc, hasSource,
                   stateMap, diagPc, diag>>

(* timer_diagnostic, line 296: the thread starts iterating *state_ptr_,   *)
(* with no lock.                                                          *)
DiagnosticRead ==
    /\ diagPc = "idle"
    /\ diagPc' = "reading"
    /\ wrote' = FALSE
    /\ UNCHANGED <<active, poses, ipPc, regPc, regLen, mainPc, hasMap,
                   hasSource, stateMap, diag>>

(* timer_diagnostic, lines 304-353: the level rules, then the publish.    *)
DiagnosticPublish ==
    /\ diagPc = "reading"
    /\ diagPc' = "idle"
    /\ diag' = [level |-> DiagnosticLevel(stateMap), skip |-> stateMap.skip,
                osc |-> stateMap.osc]
    /\ wrote' = FALSE
    /\ UNCHANGED <<active, poses, ipPc, regPc, regLen, mainPc, hasMap,
                   hasSource, stateMap>>

Next ==
    \/ InitialPoseCheck
    \/ \E s \in Stamps : InitialPosePush(s)
    \/ RegularizationPushBegin
    \/ RegularizationPushEnd
    \/ \E t \in Stamps, delay, interpolated \in BOOLEAN :
          SensorPointsBegin(t, delay, interpolated)
    \/ \E n \in 0..regLen : RegularizationPop(n)
    \/ \E iterOk, scoreOk, lowNvtl, slowExe \in BOOLEAN, o \in OscillationOutcomes :
          /\ ScoreConsistent(scoreOk, lowNvtl)
          /\ SensorPointsAlign(iterOk, scoreOk, lowNvtl, slowExe, o)
    \/ \E b \in BOOLEAN : TriggerNode(b)
    \/ NdtAlignService
    \/ MapLoaded
    \/ DiagnosticRead
    \/ DiagnosticPublish

Spec == Init /\ [][Next]_vars

-----------------------------------------------------------------------------
(* The variables have their types. *)
TypeOK ==
    /\ active \in BOOLEAN
    /\ poses \in Seq(Pose) /\ Len(poses) <= MaxPoses
    /\ ipPc \in {"idle", "checked"}
    /\ regPc \in {"idle", "pushing"}
    /\ regLen \in 0..MaxRegularization
    /\ mainPc \in {"idle", "regularize", "align"}
    /\ hasMap \in BOOLEAN /\ hasSource \in BOOLEAN
    /\ stateMap \in StateRecord
    /\ diagPc \in {"idle", "reading"}
    /\ diag \in [level : Levels, skip : 0..SkipSaturation, osc : BOOLEAN]
    /\ wrote \in BOOLEAN

(***************************************************************************)
(* After service_trigger_node activates the node, a scan is aligned only  *)
(* from initial poses pushed since that call: the clear at line 769 and   *)
(* the "size() <= 1" return at line 447 keep the poses of an earlier      *)
(* activation out of the interpolation, whatever the other callback group *)
(* does in between.                                                       *)
(***************************************************************************)
AlignUsesCurrentActivationPoses ==
    [][mainPc = "idle" /\ mainPc' \in {"regularize", "align"}
         => \A i \in 1..Len(poses) : ~poses[i].prev]_vars

(* The comment at line 369 says the buffer is cleared when time goes back *)
(* ("rosbag restart"): the initial poses stay ordered by stamp, which     *)
(* pop_old_pose and the interpolator rely on.                             *)
InitialPosesSorted ==
    \A i \in 1..Len(poses) - 1 : poses[i].stamp <= poses[i + 1].stamp

(* The regularization deque is never inside push_back (line 397, default  *)
(* group) while the sensor callback reads and pops it (lines 735-742,     *)
(* main group): std::deque is not safe for concurrent use.                *)
RegularizationDequeRaceFree ==
    ~(regPc = "pushing" /\ mainPc = "regularize")

(* No callback writes *state_ptr_ while the diagnostic thread iterates    *)
(* it (line 296): std::map is not safe for concurrent use.                *)
StateMapRaceFree ==
    ~(wrote /\ diagPc = "reading")

(* The branch at lines 322-327 reports ERROR once skipping_publish_num    *)
(* reaches 5: a published diagnostic whose snapshot has skipped 5 or more *)
(* publications, with no oscillation to ignore, has level ERROR.          *)
SkipLimitReportedAsError ==
    diag.skip >= SkipSaturation /\ ~diag.osc => diag.level = "ERROR"

================================================================================
