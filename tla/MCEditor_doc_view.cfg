CONSTANTS
    Char = {"x"}
    NL = "nl"
    CommandChar = {"w", "q", "!", "other"}
    EDITOR_MAX_LINES = 4
    EDITOR_MAX_LINE_LENGTH = 3
    VIEW_LINES = 2
    TEXT_COLUMN = 1
    VGA_WIDTH = 3
    MAX_COMMAND = 2
    Files <- MCFiles
SPECIFICATION Spec
INVARIANT LineShown
CHECK_DEADLOCK FALSE
