SPECIFICATION FairRaceSpec
CONSTANTS
    MAX_PROCESSES = 5
    BOOT_TASKS = 2
    ITERS = 2
    Commands = {"race", "racem"}
    MAX_COMMANDS = 1
    KillTargets = {3}
INVARIANTS
    RaceTypeOK
    MutualExclusion
    SleeperIsListed
    RaceBounds
    WaitersInBounds
PROPERTIES
    CountsAtomically
    HolderReleases
    RaceEnds
CHECK_DEADLOCK FALSE
