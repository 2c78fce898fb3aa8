CONSTANTS
    PathEnd = 8
    ShiftValues = {0, 2}
    MinSpan = 2
    MaxSpan = 2
    MaxLines = 2
INIT Init
NEXT Next
INVARIANT TypeOK

