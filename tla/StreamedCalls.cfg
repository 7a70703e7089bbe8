SPECIFICATION Spec
CONSTANTS
    EditTools = {"write_file", "edit_file", "apply_patch"}
    Dialects = {"chat", "responses", "anthropic", "bedrock"}
    Answers <- MCAllAnswers
    Attempts = 2
INVARIANTS
    AnswerIsKept
    FlushShowsAll
    RowsClosed
CHECK_DEADLOCK FALSE
