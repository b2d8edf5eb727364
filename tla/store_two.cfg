CONSTANTS
    a = a
    b = b
    web = web
    fc = fc
    FCs <- SomeFCs
    Writers <- TwoWriters
    Web = web
    MaxRuns = 2
    MaxTime = 2
    Worlds <- OnlyTwo
SPECIFICATION Spec
PROPERTIES NoEraseBehindACleanup
CHECK_DEADLOCK FALSE
