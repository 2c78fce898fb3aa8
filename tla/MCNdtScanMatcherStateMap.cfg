\* The diagnostic thread against the writers of state_ptr_.
CONSTANTS
    Stamps = {1}
    MaxPoses = 2
    MaxRegularization = 0
    RegularizationEnabled = FALSE
    ConvergedParamType = "TRANSFORM_PROBABILITY"
    OscillationThreshold = 1
    TransformFlags <- MCNoFlags
INIT Init
NEXT Next
INVARIANT StateMapRaceFree
