SPECIFICATION Spec
CONSTANTS
    ChunkTokens = 2
    MaxSeqLen = 5
    VramChunks = 3
    HostTiers = {0, 1}
    MaxPrompt = 3
    MaxConversations = 2
    QuantModes = {TRUE, FALSE}
    HasQkNorm = TRUE
    Null = Null
INVARIANTS
    SlotPartition
    KvIntact
    LengthsAgree
    PrefillSeesConversation
\* A conversation may end in a panic or a fault, and MaxConversations is a bound.
CHECK_DEADLOCK FALSE
