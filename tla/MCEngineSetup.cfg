SPECIFICATION MCSpec
CONSTANTS
    Concurrencies = {1, 3, 9}
    Manifests <- Packages
    CropWidths = {1, 320, 321, 980, 1280, 1281, 3000}
    Sides = {15, 48, 4096}
    Limits = {20, 960, 1000, 1008}
    MaxBoxes = 4
    MaxSteps = 5
    MaxText = 6
CHECK_DEADLOCK FALSE
INVARIANTS
    DeviceHonoured
    NothingOutlives
    RequestsForWorkers
    ShapesFit
    BoxClockwise
    ReadingOrder
    TextCollapsed
    Base64Exact
