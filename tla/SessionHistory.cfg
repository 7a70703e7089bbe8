SPECIFICATION Spec
CONSTANTS
    t1 = t1  t2 = t2  cron = cron
    chatA = chatA  r1 = r1
    None = None
    Turn = {t1, t2, cron}
    Fresh = {cron}
    Trigger = {t2}
    Result = {r1}
    Chat <- MCChat
    chat <- OneChat
    Trace <- MCTrace
    MaxMessages = 5
    Keep = {3}
    RawIsKey = TRUE
    MaxArchives = 2
    MaxCrashes = 1
CHECK_DEADLOCK FALSE
INVARIANTS
    HistoryLegal
    ResetIsCleanAlone
PROPERTIES
    StoredIsKept
