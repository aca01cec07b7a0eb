CONSTANTS
    I686 = "i686"
    WeakOf <- WeakArches
    Release = {1, 2}
    BuildId = {0, 1, 2}
    BuildOf <- Releases
    Beta = {2}
    Package <- Packages
    PlatformRepo <- PlatformRepos
    ProductRepo <- ProductRepos
    PriorityArch = {"x86_64", "aarch64"}
    Answers <- Answered
    Production <- Older
    MaxRequests = 3
    MaxEdits = 1
    Nothing = Nothing
SPECIFICATION PlanSpec
INVARIANTS
    OneCopy
    BestAnswerIsPlanned
CHECK_DEADLOCK FALSE
