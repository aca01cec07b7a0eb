CONSTANTS
    Component <- Components
    Renamed = {"lib++"}
    WithArches = {"doc"}
    PackagesOf <- Packages
    Filtered = {"lib-static"}
    I686 = "i686"
    X86 = "x86_64"
    Build = {1, 2, 3, 4}
    Worker = {w1, w2}
    P1 = P1
    P2 = P2
    Platform = {P1, P2}
    Request <- Requests
    NoDist = NoDist
    UserDist = UserDist
    TagDist = TagDist
    None = None
    Knowledge <- Known
    Failures <- Failing
    MaxBuilds = 2
    MaxChanges = 1
    MaxCrashes = 1
    MaxFailures = 1
SPECIFICATION StartSpec
SYMMETRY WorkerSymmetry
CONSTRAINT TwoDisturbances
INVARIANTS
    TasksAreGrid
    DistIsOwn
    PrebuiltIsWhole
CHECK_DEADLOCK FALSE
