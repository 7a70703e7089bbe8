SPECIFICATION AuditedLiveSpec
CONSTANTS
    Turn <- MCTurn
    ToolName <- MCTool
    Registered = {"read", "web", "edit", "message"}
    Silent = {"message"}
    Safe = {"read", "web"}
    ThrottledTool = {"web"}
    Offered = {"read", "web", "edit", "message"}
    MaxLookups = 1
    MaxViolations = 0
    MaxRounds = 1
    MaxCalls = 2
    Plans <- MCPlans
    Faults = {"workspace"}
    NoTurn = 0
    Unnamed = 99
INVARIANTS
    RecordsSound
    CallsEndWithTurn
PROPERTIES
    EveryTurnRecorded
