SPECIFICATION Spec
CONSTANTS
    a = a
    b = b
    long = long
    cut = cut
    x = x
    y = y
    Name = {a, b, long, cut}
    Char = {x, y}
    Truncate <- MCTruncate
    Arg <- ArgData
    Text <- TextData
    NODE_SIZE = 2
    MAX_FILE_SIZE = 3
    POOL_SIZE = 15
    SIZE_RANGE = 6
    MAX_FILES_PER_DIR = 2
    MAX_TOTAL_FILES = 4
    MAX_DEPTH = 2
    MAX_PATH_LENGTH = 256
    SegmentLength <- MCLength
INVARIANTS ReadEndsInBuffer FailureLeavesTree MoveKeepsText
