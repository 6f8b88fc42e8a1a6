SPECIFICATION CallsSpec
CONSTANTS
    Models = 1
    Endpoints = 1
    Attempts = 2
    ProbeLimit = 1
    MaxClock = 1
    MaxStarts = 2
CHECK_DEADLOCK FALSE
INVARIANTS
    StreamIsAnswer
