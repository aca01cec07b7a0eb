SPECIFICATION Spec
CONSTANTS
    Task <- Two
    IndexOf <- TwoIndex
    PlatformOf <- TwoPlatform
    ArchOf <- TwoArch
    RefOf <- TwoRef
    Src = "src"
    Independent = {"el8"}
    Results <- Built
    Worker = {w1, w2}
    User = {u1, u2}
    MaxRestarts = 2
    MaxCrashes = 1
    MaxRepeats = 1
    None = None
SYMMETRY Alike
CONSTRAINT StillPromised
INVARIANTS
    OneWorkerCloses
    OpenOnlyAfterOverlap
PROPERTIES
    CommitsScheduleSteps
CHECK_DEADLOCK FALSE
