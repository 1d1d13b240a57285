\* Two tasks; a token lives for six ticks and is renewed two ticks early.
SPECIFICATION Spec
CONSTANTS
    t1 = t1
    t2 = t2
    Task = {t1, t2}
    None = None
    Life = 6
    Slack = 2
    Lag = 1
    MaxTime = 9
SYMMETRY Symmetry
INVARIANTS
    TypeOK
    ValidWhileFresh
    IInv
PROPERTIES
    NewerTokenIsNearlyKept
