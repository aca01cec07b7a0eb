CONSTANTS
    goods = goods  tp = tp  ann = ann
    User = {ann, bob}
    Team = {tp}
    Superuser = {}
    ManagerNamed = {}
    ContributorNamed = {tp}
    Product = {goods}
    Build = {b1, b2}
    Repo = {x86, arm}
    Worker = {w1, w2}
    TeamOf <- Teams
    OwnerOf <- Owners
    NamedAfter <- Names
    ReposOf <- Homes
    RoleSets <- NamedRoles
    MaxEvents = 3
    None = None  New = New  Gone = Gone  Queued = Queued
SPECIFICATION Spec
SYMMETRY Alike
INVARIANTS
    ProductHoldsItsBuilds
    MembersKeepRepositories
    OwnerManages
CHECK_DEADLOCK FALSE
