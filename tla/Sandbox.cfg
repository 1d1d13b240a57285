\* Two requests about one sandbox; one call to Kubernetes may fail. The model
\* stops when the session keys, of which there are two, have been used up.
SPECIFICATION Spec
CONSTANTS
    s1 = s1
    k1 = k1
    k2 = k2
    r1 = r1
    r2 = r2
    SandboxId = {s1}
    Request = {r1, r2}
    NoRequest = NoRequest
    Rendered <- MCRendered
    Preserved = {s1}
    Key = {k1, k2}
    NoKey = NoKey
    MaxFaults = 1
SYMMETRY Symmetry
INVARIANTS
    TypeOK
    JobIsServed
    KeyOpensSandbox
    IInv
PROPERTIES
    RecreateSparesJob
    OnlyDeleteTakesClaim
    KeepsContract
CHECK_DEADLOCK FALSE
