SPECIFICATION RaceSpec
CONSTANTS
    MAX_PROCESSES = 4
    BOOT_TASKS = 0
    ITERS = 1
    Commands = {"racem"}
    MAX_COMMANDS = 2
    KillTargets = {}
PROPERTIES
    UsesScheduler
CHECK_DEADLOCK FALSE
