SPECIFICATION FairShellSpec
CONSTANTS
    FS_BLOCK_SIZE = 2
    FS_NUM_BLOCKS = 8
    FS_MAX_INODES = 3
    FS_MAX_FDS = 2
    FS_DIRECT = 2
    DIR_ENTRIES = 2
    a = a
    toolong = toolong
    Name = {a, b, c, toolong}
    LongName = {toolong}
    Byte = {0, 1, 2, 3}
    Buffers <- AllTexts
    Counts = {3}
    Texts <- ShortAndLong
    Rest <- TheRest
    Cut <- Beginning
    CAT_BYTES = 3
INVARIANTS
    ShellTypeOK
    NothingLeftOpen
PROPERTIES
    ImplementsShell
    PromptReturns
