--------------------------- MODULE NdtValidation ----------------------------
(***************************************************************************)
(* validate_local_optimal_solution_oscillation (mu_successive_shortest_    *)
(* path.hpp, lines 92-118), the pure test callback_sensor_points runs on   *)
(* the pose array of an alignment that hit the iteration limit.            *)
(***************************************************************************)
EXTENDS Integers, Sequences

CONSTANT OscillationThreshold  \* oscillation_threshold_ (10 in the code)

ASSUME OscillationThreshold \in Nat

(***************************************************************************)
(* validate_local_optimal_solution_oscillation (lines 92-118).  The pose   *)
(* array of an alignment is abstracted to its inversion flags: flags[k] is *)
(* "prev_vec.dot(current_vec) < inversion_vector_threshold" for i = k + 1. *)
(***************************************************************************)
RECURSIVE OscillationLoop(_, _, _, _)
OscillationLoop(flags, k, prevOscillation, cnt) ==
    IF k > Len(flags) THEN FALSE
    ELSE IF prevOscillation /\ flags[k]
         THEN IF cnt > OscillationThreshold THEN TRUE
              ELSE OscillationLoop(flags, k + 1, flags[k], cnt + 1)
         ELSE OscillationLoop(flags, k + 1, flags[k], 0)

RECURSIVE OscillationLoopNonStrict(_, _, _, _)
OscillationLoopNonStrict(flags, k, prevOscillation, cnt) ==
    IF k > Len(flags) THEN FALSE
    ELSE IF prevOscillation /\ flags[k]
         THEN IF cnt >= OscillationThreshold THEN TRUE
              ELSE OscillationLoopNonStrict(flags, k + 1, flags[k], cnt + 1)
         ELSE OscillationLoopNonStrict(flags, k + 1, flags[k], 0)

ValidateOscillationNonStrict(flags) == OscillationLoopNonStrict(flags, 1, FALSE, 0)

ValidateLocalOptimalSolutionOscillation(flags) == OscillationLoop(flags, 1, FALSE, 0)

(* What validate_local_optimal_solution_oscillation is meant to detect: a *)
(* run of more than oscillation_threshold_ + 2 successive inversions of   *)
(* the update direction.                                                  *)
OscillationReference(flags) ==
    \E i, j \in 1..Len(flags) :
        /\ j - i + 1 >= OscillationThreshold + 3
        /\ \A k \in i..j : flags[k]


================================================================================
