SPECIFICATION DesktopSpec
CONSTANTS
    None = None
    Path = {p, q}
    First = p
    Switcher = {s1, s2}
    MaxEdit = 2
    MaxToken = 2
    MaxSum = 2
    MaxBusy = 2
    Newest = 2
    Stable = {1, 2}
    Kept = 2
    MaxFailures = 1
    MaxCalls = 3
    Routine = {s1, s2}
    MaxSaves = 2
    MaxTrouble = 1
SYMMETRY Alike
INVARIANTS
    DirtyIsHandled
    SwitchIsAwaited
    DownloadInstallable
    AckedIsFound
    DeletedIsGone
PROPERTIES
    NoCrossWrite
    SlotIsRegister
