SPECIFICATION Spec
CONSTANTS
    Fragment = {f1, f2}
    MaxVersion = 2
SYMMETRY Symmetry
INVARIANTS
    LoadIsWhole
