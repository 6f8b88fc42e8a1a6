SPECIFICATION AgentsSpec
CONSTANTS
    Task = {t1, t2}
    None = None
    Pill = Pill
    Unplaced = Unplaced
    MaxAttempt = 2
    Again = {t1}
    MaxRound = 1
    Models = 2
    MaxFaults = 1
    Fragment = {f1, f2}
    Character = {c1}
    Asset = {a1}
    Scene = {s1}
    MaxMade = 3
INVARIANTS
    TypeOK
    QueuedIsFresh
PROPERTIES
    AttemptRunsOnce
    TerminalIsFinal
    CheckpointSurvives
    FirstPatchKeepsEdits
