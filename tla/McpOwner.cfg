SPECIFICATION LiveSpec
CONSTANTS
    \* messages that connect, a tool call that finds its session dead, a close
    Connector = {c1, c2}
    Caller = {r1}
    Closer = {k1}
    MaxOwner = 1
    MaxConn = 2
CHECK_DEADLOCK FALSE
INVARIANTS
    OneConnection
PROPERTIES
    RefreshIsRight
    EveryCallEnds
    CloseLeavesNothing
