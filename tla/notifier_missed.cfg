SPECIFICATION NotifierSpec
CONSTANTS
    NULL = NULL
    Jobs = {1}
    Gpus = {}
    gpus_requested <- AnyRequest
    vram_mb <- NoBudget
    refresh = refresh
    Polls = {refresh}
    finishedLimit = 15
    MaxCompletions = 1
    Outcomes = {"DONE", "FAILED", "CANCELLED"}
    MaxSetbacks = 0
    MaxBelated = 0
PROPERTIES
    SeenRunsAreAnnounced
