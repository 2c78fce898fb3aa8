\* The regularization pose subscription against the sensor callback.
CONSTANTS
    Stamps = {1, 2}
    MaxPoses = 2
    MaxRegularization = 1
    RegularizationEnabled = TRUE
    ConvergedParamType = "TRANSFORM_PROBABILITY"
    OscillationThreshold = 1
    TransformFlags <- MCNoFlags
INIT Init
NEXT Next
INVARIANT RegularizationDequeRaceFree
