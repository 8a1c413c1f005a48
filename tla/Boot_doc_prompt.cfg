SPECIFICATION Spec
CONSTANTS
    Keys = {30, 48}
    BIOSConfig = {69, 100, 101}
    TABLE_SIZE = 90
    DISK_TRIES = 3

PROPERTY PromptAppears
CHECK_DEADLOCK FALSE
