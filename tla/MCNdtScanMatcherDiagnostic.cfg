\* Repeated non-converged alignments under the NVTL convergence criterion.
CONSTANTS
    Stamps = {1, 2}
    MaxPoses = 2
    MaxRegularization = 0
    RegularizationEnabled = FALSE
    ConvergedParamType = "NEAREST_VOXEL_TRANSFORMATION_LIKELIHOOD"
    OscillationThreshold = 1
    TransformFlags <- MCNoFlags
INIT Init
NEXT Next
INVARIANT SkipLimitReportedAsError
