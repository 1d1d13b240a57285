\* A restart after a second conversation has taken over the row of a first.
SPECIFICATION Spec
CONSTANTS
    c1 = c1
    c2 = c2
    c3 = c3
    r1 = r1
    r2 = r2
    Conv = {c1, c2}
    Resource = {r1}
    ResourceOf <- MCResourceOf
    ReportsOf <- TwoReports
    Reclaimed = {r1}
    Pending = Pending
    None = None
    MaxRestarts = 1
PROPERTIES
    ReloadsActive
CHECK_DEADLOCK FALSE
