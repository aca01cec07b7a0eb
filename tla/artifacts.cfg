CONSTANTS
    a1 = a1  x1 = x1  c1 = c1  x2 = x2
    Task = {a1, x1, c1, x2}
    IndexOf <- Indexes
    ArchOf <- Arches
    I686 = I686  X86 = X86  Arm = Arm
    Multilib = {1}
    Worker = {w1, w2}
    MaxRestarts = 1
    MaxFaults = 1
    None = None
SPECIFICATION Spec
SYMMETRY Alike
CONSTRAINT Bounded
INVARIANTS
    NoarchIsShared
    
    RowsArePublished
CHECK_DEADLOCK FALSE
