SPECIFICATION FairSpec
CONSTANTS
    MaxJobs = 2
    MaxTicks = 2
    MaxNow = 2
    MaxRestarts = 1
    AtDelay = 1
    Period = 1
    MaxSleep = 2
    Kinds <- MCKinds
    NoTick = NoTick
    User = User
    Free = Free
INVARIANTS
    TimerCovers
    StoreKeepsWord
    ExecutedOnce
PROPERTIES
    DueIsRun
CHECK_DEADLOCK FALSE
