SPECIFICATION FairIntSpec
CONSTANTS
    MAX_PROCESSES = 3
    BOOT_TASKS = 1
    MAX_NEST = 2
INVARIANTS
    IntTypeOK
    EveryVectorHasAGate
    InServiceIsMasked
    ConsistentWhenEnabled
PROPERTIES
    ImplementsScheduler
    TimerNeverSilent
CHECK_DEADLOCK FALSE
