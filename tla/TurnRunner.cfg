CONSTANTS
    m1 = m1
    m2 = m2
    m3 = m3
    None = None
    History <- LongOnly
    Injected = {m1, m2, m3}
    MaxIterations = 3
    MaxCalls = 2
    Caller = {"turn", "subagent"}
    MaxEmptyRetries = 2
    MaxLengthRecoveries = 1
    MaxInjectionCycles = 2
    MaxPerDrain = 2
    Images <- Picture
    Attached <- SecondAttaches
SPECIFICATION Spec
SYMMETRY Symmetry
CHECK_DEADLOCK FALSE
INVARIANTS
    ListLegal
    InjectedOnce
    AttachedOnce
