SPECIFICATION BackendSpec
CONSTANTS
    Fragment = {f1, f2}
    MaxVersion = 3
    Limit = 2
    MaxMade = 3
    MaxQueue = 2
    MaxEvents = 1
    Models = 2
    Endpoints = 2
    Attempts = 2
    ProbeLimit = 1
    MaxClock = 1
    MaxStarts = 3
    Report = {f1, f2}
    Editor = {e1, e2}
    Fingerprint = {f}
    Submitter = {a1, a2}
    MaxAccepted = 1
    MaxDay = 2
    MaxTroubles = 1
SYMMETRY Symmetry
INVARIANTS
    TypeOK
    CommittedIsLoaded
    StartupNeverRaises
    ServicesTypeOK
    CategoryMarks
    HistoryCatchesUp
    CancelUnblocks
    BreakerFollowsResults
    SentIsStored
    RowsAreBacked
    NoRollback
PROPERTIES
    UndoIsLine
    PatchLandsOnce
    SkippedIsBroken
