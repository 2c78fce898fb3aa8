\* An initial pose whose stamp falls between the front and the back of the array.
CONSTANTS
    Stamps = {1, 2, 3}
    MaxPoses = 3
    MaxRegularization = 0
    RegularizationEnabled = FALSE
    ConvergedParamType = "TRANSFORM_PROBABILITY"
    OscillationThreshold = 1
    TransformFlags <- MCNoFlags
INIT Init
NEXT Next
INVARIANT InitialPosesSorted
