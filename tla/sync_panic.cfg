CONSTANTS
    MaxUnits = 2
    MaxSessions = 2
    MaxMail = 2
    Capacity = 8
    Reserve = 1
    FlashCap = 3
    Cleanup = FALSE
    Modes <- AllModes
    Panics = TRUE
SPECIFICATION Spec
INVARIANTS SuccessIsShown
