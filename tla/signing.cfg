SPECIFICATION FairSpec
CONSTANTS
    GenTask = {g1, g2}
    Node = {n1, n2}
    MaxKeyFaults = 1
    None = None
    SignTask = {t1, t2}
    Package = {p1, p2}
    Retries = 1
    MaxSignFaults = 2
INVARIANTS
    OneActiveKey
    RowsNameRepository
    SignedIsWhole
PROPERTIES
    EverySignTaskEnds
CONSTRAINT KeysFirstInOrder
CHECK_DEADLOCK FALSE
