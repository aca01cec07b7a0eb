CONSTANTS
    r1 = r1  r2 = r2  p1 = p1  p2 = p2  q = q  b1 = b1  b2 = b2  x86 = x86  arm = arm
    Record <- Records
    Package <- Packages
    Build = {b1, b2}
    Repo = {x86, arm}
    RecordOf <- Owner
    SourceOf <- Owner
    Candidates <- Built
    Adoptable <- Adopted
    ReposOf <- Homes
    Foreign <- Strange
    Original <- Originals
    Generated <- Generations
    Named <- Names
    Issued = {r2}
    Editor = {e1}
    MaxEvents = 3
    None = None
SPECIFICATION Spec
INVARIANTS
    ReleasedIsPublished
    InProgressIsOwned
    
    OneBuildApproved
    OvalIsClosed
    OvalKeepsMeaning
CHECK_DEADLOCK FALSE
