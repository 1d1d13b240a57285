\* One sandbox and its conversation; one call of the cleanup may fail.
SPECIFICATION Spec
CONSTANTS
    s1 = s1
    k1 = k1
    k2 = k2
    SandboxId = {s1}
    Key = {k1, k2}
    NoKey = NoKey
    Rendered = {"job", "service"}
    Preserved = {s1}
    PageSize = 1
    MaxFaults = 1
SYMMETRY Symmetry
INVARIANTS
    TypeOK
    InUseIsSpared
    YoungIsSpared
    IInv
