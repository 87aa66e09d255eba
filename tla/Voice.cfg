SPECIFICATION Spec
CONSTANTS
    RingCap = 6
    MinNew = 3
    Lead = 2
    MaxWin = 5
    Guard = 1
    MinSeg = 2
    Hang = 2
    MaxSeg = 3
    TranscriptCap = 2
    MaxRuns = 2
    MaxQueue = 1
    Plans <- MCPlans
INVARIANTS LossIsCounted NoOldWindow RingOwn
PROPERTIES OverIsShipped
CHECK_DEADLOCK FALSE
