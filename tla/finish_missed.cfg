SPECIFICATION Spec
CONSTANTS
    Task <- One
    IndexOf <- OneIndex
    PlatformOf <- OnePlatform
    ArchOf <- OneArch
    RefOf <- OneRef
    Src = "src"
    Independent = {}
    Results <- Built
    Worker = {w1, w2}
    User = {u1}
    MaxRestarts = 0
    MaxCrashes = 0
    MaxRepeats = 0
    None = None
INVARIANTS
    LastTaskClosesBuild
CHECK_DEADLOCK FALSE
