SPECIFICATION Spec
CONSTANTS
    ChunkTokens = 2
    MaxSeqLen = 7
    VramChunks = 3
    HostTiers = {0, 1}
    MaxPrompt = 0
    MaxConversations = 4
    QuantModes = {TRUE, FALSE}
    HasQkNorm = TRUE
    Null = Null
INVARIANTS
    DecodeSeesConversation
    DecodeKeysAtTheirPositions
    QuantSlotPartition
\* A conversation may end in a panic or a fault, and MaxConversations is a bound.
CHECK_DEADLOCK FALSE
