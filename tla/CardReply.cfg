SPECIFICATION ReplySpec
CONSTANTS
    Received <- MCReceived
    NoMessage = NoMessage
    NoText = ""
    MaxAttempts = 2
    Modes = {"v2", "legacy", "push", "sse", "json", "cli"}
    MaxDeltas <- MCMaxDeltas
    t1 = t1
    t2 = t2
    Tools <- MCTools
    ToolRounds = 1
    MaxFailures = 2
    MaxSteps = 1
    BlockSize = 1
    BufferMax = 2
    EmojiAttempts = 3
    Parcels <- MCParcels
    MediaMax = 2
    ChunkThreshold = 1
    ChunkDefault = 1
INVARIANTS
    MessageAnswered
    PumpSound
    CardSettles
