SPECIFICATION Spec
CONSTANTS
    Releases <- One
    Fragment = {"start"}
    Entry = "start"
    Unset = Unset
    Var = {"key"}
    Shared = {"key"}
    Value = {0, 1}
    MaxSettle = 4
    MaxRollbacks = 2
    MaxTrace = 6
    MaxTurns = 5
PROPERTIES
    StoredByBlock
CHECK_DEADLOCK FALSE
