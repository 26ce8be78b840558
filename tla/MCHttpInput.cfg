SPECIFICATION HttpSpec
CONSTANTS
    IntMax = 7
    UIntMax = 255
    NaN = NaN
    NoConfig = NoConfig
    Images <- ManyImages
    Configs <- ManyConfigs
    MaxBatch = 2
    Documents <- SomeDocuments
    Requests <- SomeRequests
    MinRequestBytes = 8
    MaxRequestBytes = 30
    MaxPixels = 2
    MaxImages = 2
    FileOf <- SomeFile
CHECK_DEADLOCK FALSE
INVARIANTS
    PixelsInside
    
    ImagesArrive
