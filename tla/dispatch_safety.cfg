SPECIFICATION DispatchSpec
CONSTANTS
    both = both
    one = one
    big = big
    small = small
    cpu = cpu
    NULL = NULL
    Jobs = {both, one, big, small}
    Gpus = {0, 1}
    ExtGpus = {1}
    gpus_requested <- RequestedGpus
    vram_mb <- RequestedVram
    mem_total_mb <- UnequalCards
    VRAM_HEADROOM_MB = 1
    VRAM_OVERHEAD_MB = 1
    RESERVE_AFTER_S = 1
INVARIANTS
    DispatchTypeOK
    NoOvercommit
    GetsWhatItAsked
    OffLimits
    NoOvertaking
    ReservationHonoured
PROPERTIES
    WorkConserving
    KeepsPromise
