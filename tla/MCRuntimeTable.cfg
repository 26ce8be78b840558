SPECIFICATION Spec
CONSTANTS
    Libraries <- SomeLibraries
    Installed <- SomeInstalled
    Missing <- NoLibrary
    MaxHeld = 2
INVARIANTS
    TableReadInside
    OwnedIsHeld
    ReleasesFit
