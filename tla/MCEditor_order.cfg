CONSTANTS
    Char = {"x", "y"}
    NL = "nl"
    CommandChar = {}
    EDITOR_MAX_LINES = 4
    EDITOR_MAX_LINE_LENGTH = 3
    VIEW_LINES = 2
    TEXT_COLUMN = 1
    VGA_WIDTH = 3
    MAX_COMMAND = 0
    Files <- MCFiles
SPECIFICATION Spec
INVARIANTS SavedTextOpens BackspaceUndoes MoveShowsCursor
CHECK_DEADLOCK FALSE
