SPECIFICATION Spec
CONSTANTS
    a = a
    u = u
    Name = {a, u}
    Char = {"x"}
    NL = "nl"
    Truncate <- MCTruncate
    Arg <- MCArg
    Text <- MCText
    UNTITLED = u
    NODE_SIZE = 1
    MAX_FILE_SIZE = 6
    POOL_SIZE = 10
    SIZE_RANGE = 5
    MAX_FILES_PER_DIR = 1
    MAX_TOTAL_FILES = 3
    MAX_DEPTH = 2
    MAX_PATH_LENGTH = 256
    SegmentLength <- MCLength
    EDITOR_MAX_LINES = 3
    EDITOR_MAX_LINE_LENGTH = 2
    VIEW_LINES = 3
    TEXT_COLUMN = 1
    VGA_WIDTH = 2
    CommandChar = {"w", "q", "!"}
    MAX_COMMAND = 2
INVARIANT SavedFileIsRead
CHECK_DEADLOCK FALSE
