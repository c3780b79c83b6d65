SPECIFICATION FairClientsSpec
CONSTANTS
    NULL = NULL
    Jobs = {1, 2}
    Gpus = {0, 1}
    gpus_requested <- AnyRequest
    vram_mb <- NoBudget
    refresh = refresh
    again = again
    gq = gq
    f1 = f1
    f2 = f2
    watched = 1
    Clients = {gq, f1, f2}
    MAX_LOG_CHUNK = 1
    MaxWritten = 2
    MaxRefusals = 1
    Endings = {"DONE", "CANCELLED"}
    Fetches = {f1, f2}
    MAX_CHUNKS_PER_POLL = 2
    Polls = {refresh, again}
    finishedLimit = 1
    MaxCompletions = 1
    Outcomes = {"DONE", "CANCELLED"}
    MaxSetbacks = 1
    MaxBelated = 1
    Args <- ArgsTried
    Scripts <- ScriptsTried
    Directories <- Dirs
    cwd <- Home
    mem_total_mb <- CardTotals
CHECK_DEADLOCK FALSE
INVARIANTS
    TextIsPrefix
    OpenTabsAreTailed
    NotifierTypeOK
    OncePerCompletion
    RequestMeansTheScript
    RowsAreSane
PROPERTIES
    FollowPrintsItAll
    FollowEnds
    DocumentCatchesUp
    JobListCatchesUp
