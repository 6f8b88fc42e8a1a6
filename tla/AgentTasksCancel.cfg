SPECIFICATION FairSpec
CONSTANTS
    Task = {t1, t2}
    None = None
    Pill = Pill
    MaxAttempt = 2
    Again = {}
    MaxRound = 1
    Models = 1
    MaxFaults = 0
PROPERTIES
    CancelSettles
