SPECIFICATION LiveSpec
CONSTANTS
    svc1 = svc1
    svc2 = svc2
    p1 = p1
    p2 = p2
    port1 = port1
    NoPid = NoPid
    Directories <- MCDirectories
    DefaultPort = port1
    Port = {port1}
    Pid = {p1, p2}
    Command = {svc1, svc2}
    Kinds = {"start", "stop", "restart", "status"}
    MaxCommands = 2
    MaxFaults = 2
CHECK_DEADLOCK FALSE
INVARIANT PidFilesSound
PROPERTY CommandsEnd
