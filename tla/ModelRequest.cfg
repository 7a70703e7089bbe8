SPECIFICATION LiveSpec
CONSTANTS
    q1 = q1  q2 = q2
    Request = {q1, q2}
    Streams = {q1}
    WithImages = {q2}
    Fallbacks = 2
    Broken = {}
    Errors <- MCErrors
    Retries = 1
    Threshold = 2
    Cooldown = 1
    ProbeInterval = 1
    MaxNow = 1
INVARIANTS
    FailoverSound
    RequestsLegal
PROPERTIES
    Returns
CHECK_DEADLOCK FALSE
