SPECIFICATION FairSpec
CONSTANTS
    Task = {t1, t2}
    None = None
    Pill = Pill
    MaxAttempt = 2
    Again = {t1}
    MaxRound = 1
    Models = 1
    MaxFaults = 0
INVARIANTS
    QueuedIsReachable
    RunningIsOwned
PROPERTIES
    WorkSettles
