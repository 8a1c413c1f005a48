SPECIFICATION Spec
CONSTANTS
    VGA_WIDTH = 4
    VGA_HEIGHT = 3
    TAB_STOP = 2
    Glyph = {"x", "space"}
    SPACE = "space"
    MAX_GONE = 1
INVARIANTS TypeOK BelowBlank
PROPERTY ImplementsPaper
