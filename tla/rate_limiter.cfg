\* Two keys; three calls per 3 seconds, two of them per second; six seconds.
CONSTANTS
    k1 = k1  k2 = k2
    Keys = {k1, k2}
    Limit = 3  Window = 3  BurstLimit = 2  BurstWindow = 1  MaxTime = 6
    NoAnswer = NoAnswer
SYMMETRY KeySymmetry
SPECIFICATION LimiterSpec
INVARIANTS LimitsHold
PROPERTY ImplementsThrottle
