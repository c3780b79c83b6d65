SPECIFICATION FairDispatchSpec
CONSTANTS
    both = both
    one = one
    big = big
    small = small
    cpu = cpu
    NULL = NULL
    Jobs = {one, big, small}
    Gpus = {0, 1}
    ExtGpus = {}
    gpus_requested <- RequestedGpus
    vram_mb <- OversizeVram
    mem_total_mb <- EqualCards
    VRAM_HEADROOM_MB = 1
    VRAM_OVERHEAD_MB = 1
    RESERVE_AFTER_S = 2
PROPERTIES
    NoStarvation
