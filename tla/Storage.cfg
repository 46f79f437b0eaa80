SPECIFICATION StorageSpec
CONSTANTS
    Seqs = {s1, s2}
    Handles = {h1, h2, h3, h4}
    VramCap = 2
    HostCap = 2
    ChunkTokens = 2
    MaxLen = 3
    MaxResets = 1
    MaxFaults = 1
    FlushAfterCow = TRUE
    Layers = 2
    MaxSteps = 3
    MaxSaves = 3
INVARIANTS SlotsAccountedFor EveryTokenHasAHome
PROPERTIES DispatchReadsConversation RestoreIsOfTheSave
CHECK_DEADLOCK FALSE
