SPECIFICATION Spec
CONSTANTS
    VGA_WIDTH = 2
    VGA_HEIGHT = 2
    TAB_STOP = 2
    Glyph = {"a", "A", " ", "$", "#"}
    SPACE = " "
    EDITOR = "#"
    Key <- MCKey
    Ascii <- MCAscii
    Upper <- MCUpper
    Meaning <- MCMeaning
    Output <- MCOutput
    Prompt <- MCPrompt
    Banner <- MCBanner
    MAX_INPUT = 3
    MAX_WORD = 2
    MAX_LINE = 6
    OFF_SCREEN = 1
INVARIANT TerminalHolds
CHECK_DEADLOCK FALSE
