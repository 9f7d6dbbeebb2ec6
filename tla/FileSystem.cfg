SPECIFICATION FsSpec
CONSTANTS
    FS_BLOCK_SIZE = 2
    FS_NUM_BLOCKS = 8
    FS_MAX_INODES = 3
    FS_MAX_FDS = 2
    FS_DIRECT = 3
    DIR_ENTRIES = 2
    Name = {a, b, toolong}
    LongName = {toolong}
    Byte = {0, 1, 2}
    Buffers <- OneText
    Counts = {2, 3}
INVARIANTS
    FsTypeOK
    BitmapsMatchTables
    BlocksNotShared
    DirectoryMatchesInodes
    OpenFilesExist
    SizeIsBacked
PROPERTIES
    ImplementsStore
