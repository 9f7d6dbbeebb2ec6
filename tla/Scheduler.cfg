SPECIFICATION FairSchedSpec
CONSTANTS
    MAX_PROCESSES = 4
    BOOT_TASKS = 2
INVARIANTS
    SchedTypeOK
    CodeRunsOnlyWhenRunning
    ReadyHasFrame
PROPERTIES
    LifeCycle
    ReadyRuns
CHECK_DEADLOCK FALSE
