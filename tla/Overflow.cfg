SPECIFICATION RaceSpec
CONSTANTS
    MAX_PROCESSES = 5
    BOOT_TASKS = 0
    ITERS = 20
    Commands = {"racem"}
    MAX_COMMANDS = 2
    KillTargets = {}
INVARIANTS
    WaitersInBounds
ACTION_CONSTRAINT Guide
VIEW Place
CHECK_DEADLOCK FALSE
