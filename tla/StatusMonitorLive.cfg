\* Two conversations about one resource, fairness.
SPECIFICATION FairSpec
CONSTANTS
    c1 = c1
    c2 = c2
    c3 = c3
    r1 = r1
    r2 = r2
    Conv = {c1, c2}
    Resource = {r1}
    ResourceOf <- MCResourceOf
    ReportsOf <- OneEnded
    Reclaimed = {}
    Pending = Pending
    None = None
    MaxRestarts = 0
PROPERTIES
    LastStatusIsPosted
    TerminalIsDropped
CHECK_DEADLOCK FALSE
