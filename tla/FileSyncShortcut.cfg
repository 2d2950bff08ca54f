CONSTANTS
    Devices = {1, 2}
    MaxEdits = 4
    MaxCrashes = 0
    Ticks = {1}
    Backdating = FALSE
    Touching = TRUE
SPECIFICATION Spec
INVARIANTS ScannedBeforeTouched
