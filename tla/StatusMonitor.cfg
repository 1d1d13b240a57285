\* A conversation about each of two resources, one restart.
SPECIFICATION Spec
CONSTANTS
    c1 = c1
    c2 = c2
    c3 = c3
    r1 = r1
    r2 = r2
    Conv = {c1, c3}
    Resource = {r1, r2}
    ResourceOf <- MCResourceOf
    ReportsOf <- TwoReports
    Reclaimed = {r1}
    Pending = Pending
    None = None
    MaxRestarts = 1
INVARIANTS
    TypeOK
    SendsToOwnResource
    LastStatusAgrees
    IInv
CHECK_DEADLOCK FALSE
