SPECIFICATION StorySpec
CONSTANTS
    Releases <- Three
    Fragment = {"start", "side", "loop", "spin", "gone"}
    Entry = "start"
    Unset = Unset
    Var = {"key", "n"}
    Shared = {"key"}
    Value = {0, 1, 2}
    MaxSettle = 8
    MaxRollbacks = 2
    MaxTrace = 6
    MaxTurns = 9
    Stories <- SmallStories
    MaxPaths = 5
    MaxSteps = 7
    MaxScenarios = 3
    Projects <- Drafts
    Interval = 2
    MaxFragments = 2
    MaxHot = 1
    MaxResults = 2
    MaxCheckpoints = 2
    MaxSeeks = 4
    NoJob = NoJob
    MaxIds = 3
    MaxCommands = 3
    MaxTabs = 2
    MaxWaiting = 2
    MaxClips = 1
INVARIANTS
    TypeOK
    Presented
    FramesFollowCalls
    CursorAtMoment
    ReportIsRight
    StaysSaveable
    JumpsLand
PROPERTIES
    SeekIsFresh
CHECK_DEADLOCK FALSE
