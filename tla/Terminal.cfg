SPECIFICATION TerminalSpec
CONSTANTS
    ROWS = 2
    COLS = 4
    TAB = 2
    Tasks = {1}
    Glyph = {"A", "a", "4", ">", "t"}
    LINE = 3
    MAX_KEYS = 3
    MAX_PORT = 1
INVARIANTS
    TerminalTypeOK
    CursorComesBack
    ScreenIsSheet
    EchoMatchesBuffer
    ShiftIsDown
CHECK_DEADLOCK FALSE
