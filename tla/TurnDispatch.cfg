SPECIFICATION LiveSpec
CONSTANTS
    a1 = a1  a2 = a2  b1 = b1
    alice = alice  bob = bob
    Task <- MCAll
    User <- MCUser
    owner <- MCAllOwner
    MaxConcurrent = 1
    NoTask = NoTask
    NeedsMcp <- MCSecond
    SerialUser <- MCBob
    MayHang <- MCBobs
CHECK_DEADLOCK FALSE
INVARIANTS
    LocksSound
    ActiveTurnsServe
PROPERTIES
    OneReport
    MutexSpec
    Answered
    CancellationEnds
