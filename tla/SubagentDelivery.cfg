SPECIFICATION DeliveryLiveSpec
CONSTANTS
    m1 = m1  m2 = m2  s1 = s1  s2 = s2  s3 = s3
    chatA = chatA  chatB = chatB
    Message <- MCMessage
    MaxRunning = 1
    QueueRoom = 1
    NoTurn = NoTurn
    NoSession = NoSession
    Sub <- MCSub
    Session <- MCSession
    session <- MCsession
CHECK_DEADLOCK FALSE
INVARIANTS
    OnceInBufferOrHistory
    LimitRespected
PROPERTIES
    WaitingTurnTakesResults
