CONSTANTS
    a = a
    b = b
    web = web
    fc = fc
    FCs <- SomeFCs
    Writers <- TwoWriters
    Web = web
    MaxRuns = 2
    MaxTime = 2
    Worlds <- SomeWorlds
SYMMETRY Symmetry
CONSTRAINT OneToDownload
SPECIFICATION Spec
INVARIANTS ManifestHasItsLog AnsweredDeleteIsGone DownloadIsTheLog
PROPERTIES ErasesBehindItsLog ListedUntilDeleted
CHECK_DEADLOCK FALSE
