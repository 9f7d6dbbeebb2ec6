SPECIFICATION RaceSpec
CONSTANTS
    MAX_PROCESSES = 4
    BOOT_TASKS = 1
    ITERS = 1
    Commands = {"race"}
    MAX_COMMANDS = 1
    KillTargets = {}
INVARIANTS
    NeverStartedWithoutFrame
CHECK_DEADLOCK FALSE
