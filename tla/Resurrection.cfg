SPECIFICATION RaceSpec
CONSTANTS
    MAX_PROCESSES = 4
    BOOT_TASKS = 1
    ITERS = 1
    Commands = {"racem"}
    MAX_COMMANDS = 1
    KillTargets = {2}
PROPERTIES
    TerminatedIsFinal
CHECK_DEADLOCK FALSE
