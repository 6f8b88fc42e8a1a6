SPECIFICATION Spec
CONSTANTS
    Path = {p, q}
    First = p
    None = None
    Switcher = {s1}
    MaxEdit = 2
    MaxToken = 1
    MaxSum = 3
    MaxBusy = 2
PROPERTIES
    RefusesToOverwrite
