SPECIFICATION FairRaceSpec
CONSTANTS
    MAX_PROCESSES = 4
    BOOT_TASKS = 1
    ITERS = 2
    Commands = {"racem"}
    MAX_COMMANDS = 1
    KillTargets = {}
PROPERTIES
    RacemEnds
CHECK_DEADLOCK FALSE
