SPECIFICATION Spec
CONSTANTS
    IntMax = 7
    UIntMax = 255
    NaN = NaN
    NoConfig = NoConfig
    Images <- OddImages
    Configs <- ManyConfigs
    MaxBatch = 1
INVARIANT ThresholdsInRange
