SPECIFICATION DaemonSpec
CONSTANTS
    solo = solo
    left = left
    right = right
    p1 = p1
    p2 = p2
    p3 = p3
    NULL = NULL
    FOREIGN = FOREIGN
    OutOfReach = {}
    Jobs = {solo, left}
    Gpus = {0}
    ExtGpus = {0}
    Pids = {p1, p2}
    gpus_requested <- RequestedGpus
    vram_mb <- RequestedVram
    mem_total_mb <- Cards
    VRAM_HEADROOM_MB = 1
    VRAM_OVERHEAD_MB = 1
    RESERVE_AFTER_S = 1
    CANCEL_GRACE_S = 1
    ExitCodes = {0, 1}
    SIGNALLED <- SignalDeath
    VRAM_STRIKES = 1
    EXT_MEM_MB = 1
    Readings <- NoReading
    ForeignGpus = {}
    MaxCrashes = 1
    CrashPhases <- Anywhere
    Unlaunchable = {}
    Reboots = FALSE
    PidReusePhases <- Never
    CancelAgain = FALSE
INVARIANTS
    CardsAreNotMixed
