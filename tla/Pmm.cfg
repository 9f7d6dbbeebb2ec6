SPECIFICATION PmmSpec
CONSTANTS
    FRAME_SIZE = 2
    RAM_FRAMES = 12
    WORD = 32
    KERNEL_END = 5
    LOW_MEMORY = 8
    DISK_START = 12
    DISK_END = 16
    MAX_ENTRIES = 1
    Maps <- AnyMap
INVARIANTS
    PmmTypeOK
    CountMatchesBitmap
    FramesAccountedFor
    ReservedStaysReserved
