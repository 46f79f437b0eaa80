SPECIFICATION Spec
CONSTANTS
    ChunkTokens = 2
    MaxSeqLen = 4
    VramChunks = 2
    HostTiers = {0}
    MaxPrompt = 4
    MaxConversations = 2
    QuantModes = {FALSE}
    HasQkNorm = TRUE
    Null = Null
INVARIANTS
    DecodeSeesConversation
\* A conversation may end in a panic or a fault, and MaxConversations is a bound.
CHECK_DEADLOCK FALSE
