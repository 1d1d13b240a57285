\* Two workspaces that may find the same port free, the second one keeps its
\* Job; one failure.
SPECIFICATION Spec
CONSTANTS
    w1 = w1
    w2 = w2
    p1 = p1
    p2 = p2
    Workspace = {w1, w2}
    Port = {p1, p2}
    NoPort = NoPort
    NoOne = NoOne
    Kept = {w2}
    MaxFaults = 1
SYMMETRY Symmetry
INVARIANTS
    TypeOK
    NothingIsLeaked
    HealthyIsOwn
    IInv
CHECK_DEADLOCK FALSE
