\* Lanes: four lanes, so that one side can take the three updates the recursion allows.
\* Stopped: histories of up to 6 cycles, moving threshold 1 and force threshold 2, so blips, gaps and erasures occur before a stop long enough.
\* Margin: 1 m half width, 0.5 m buffers, 0.5 and 0.25 m shoulder margins, 0.5 m execution threshold (units of 0.25 m); shoulders 0..4.5 m reach all three margin branches.
\* Parked: centre threshold 0.25 m, minimum shoulder width 0.5 m, shiftable ratio 0.6; half widths 0.5, 1 and 1.75 m against road edges 0.5 and 1 m from the centre line give shiftable distances of both signs and zero.
\* Envelope: unit footprints on a 5 x 5 grid, buffer 0.25 m, up to 3 cycles: envelopes overlap, share an edge, touch at a corner or lie apart, and a registered envelope can be kept, grown or replaced.
\* Shoulder: bounds 0..0.5 m from the envelope, markings up to 0.5 m wide, intersection areas from 0.25 m behind the overhang to 1 m out, so ties between lanelets, a zero distance and every extension occur.
\* Oscillation: every flag sequence of length at most 7, threshold 1, so runs of 3 and 4 inversions both occur.
CONSTANTS
    Shifts = {0, 2, 3}
    Positions = {0, 1, 2, 3, 4}
    MaxPoints = 3
    OscillationThreshold = 1
    MaxFlags = 7
    NumLanes = 4
    MaxCycles = 6
    MovingTimeThreshold = 1
    ForceAvoidanceThreshold = 2
    TrafficLightFront = 1
    CrosswalkFront = 1
    CrosswalkBehind = 1
    HalfVehicleWidth = 4
    SafetyBufferLateral = 2
    AvoidMarginLateral = 2
    SoftRoadShoulderMargin = 2
    HardRoadShoulderMargin = 1
    LateralExecutionThreshold = 2
    CenterThreshold = 1
    EnvelopeBufferMargin = 1
    MaxEnvelopeCycles = 3
    MinRoadShoulderWidth = 2
    RatioNum = 3
    RatioDen = 5
INIT Init
NEXT Next
INVARIANTS ResyncKeepsLineOrdered
    OscillationMatchesReference
    EdgesOnTheirSides
    StopTimeMatchesEpisode ShiftKeepsMargins ParkedVerdictMirror
    EnvelopeTracksFootprints ShoulderExtendedOverMarkings
