SPECIFICATION FairTestSpec
CONSTANTS
    BuildTask = {x86_64}
    TestPackage = {p}
    Creator = {c1,c2}
    Batch = 1
    MaxRuns = 2
    MaxCancels = 1
    MaxFaults = 1
    NoTxn = NoTxn
INVARIANTS
    RevisionIsOneRun
    CancelHolds
PROPERTIES
    EveryTestEnds
CHECK_DEADLOCK FALSE
