SPECIFICATION FairSpec
CONSTANTS
    Task <- Two
    IndexOf <- TwoIndex
    PlatformOf <- TwoPlatform
    ArchOf <- TwoArch
    RefOf <- TwoRef
    Src = "src"
    Independent = {}
    Requests <- TwoRequests
    Results <- Mixed
    MaxRestarts = 1
    MaxCancels = 1
    MaxFaults = 1
INVARIANTS
    BuildNeverBlocked
    StopsWithItsSource
    FinishedBuildIsClosed
PROPERTIES
    ImplementsSchedule
    EventuallyFinished
CHECK_DEADLOCK FALSE
CONSTRAINT OneDisturbance
