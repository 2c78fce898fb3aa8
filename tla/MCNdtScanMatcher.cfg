\* Callback interleavings of the NDT node with regularization enabled.
CONSTANTS
    Stamps = {1, 2}
    MaxPoses = 2
    MaxRegularization = 1
    RegularizationEnabled = TRUE
    ConvergedParamType = "TRANSFORM_PROBABILITY"
    OscillationThreshold = 1
    TransformFlags <- MCTransformFlags
INIT Init
NEXT Next
INVARIANT TypeOK
PROPERTY AlignUsesCurrentActivationPoses
