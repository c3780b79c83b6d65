SPECIFICATION DaemonSpec
CONSTANTS
    solo = solo
    left = left
    right = right
    p1 = p1
    p2 = p2
    p3 = p3
    NULL = NULL
    FOREIGN = FOREIGN
    OutOfReach = {left, right}
    Jobs = {solo, left, right}
    Gpus = {0}
    ExtGpus = {0}
    Pids = {p1, p2}
    gpus_requested <- RequestedGpus
    vram_mb <- RequestedVram
    mem_total_mb <- TightCards
    VRAM_HEADROOM_MB = 1
    VRAM_OVERHEAD_MB = 1
    RESERVE_AFTER_S = 0
    CANCEL_GRACE_S = 0
    ExitCodes = {0}
    SIGNALLED <- SignalDeath
    VRAM_STRIKES = 1
    EXT_MEM_MB = 1
    Readings <- NoReading
    ForeignGpus = {0}
    MaxCrashes = 1
    CrashPhases <- OutsideSpawn
    Unlaunchable = {solo}
    Reboots = TRUE
    PidReusePhases <- WhileDown
    CancelAgain = FALSE
SYMMETRY TwinSymmetry
INVARIANTS
    RunningScriptsAreTracked
    ScriptsFitTheirCards
    NothingCarriesOver
PROPERTIES
    DispatchSpec
    ExitFileGuardsPid
    ReaperSeesTheFile
