SPECIFICATION PlansSpec
CONSTANTS
    Unplaced = Unplaced
    Fragment = {f1, f2}
    Character = {c1}
    Asset = {a1}
    Scene = {s1}
    MaxMade = 3
PROPERTIES
    PatchKeepsEdits
CHECK_DEADLOCK FALSE
