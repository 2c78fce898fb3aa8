-------------------------- MODULE MCNdtScanMatcher --------------------------
(* Model-checking instance of NdtScanMatcher. *)
EXTENDS NdtScanMatcher

(* Inversion flags of alignments of up to 6 iterations. *)
MCTransformFlags == BoundedSeq(BOOLEAN, 6)

(* Alignments whose transformation array has fewer than three poses. *)
MCNoFlags == {<<>>}
================================================================================
