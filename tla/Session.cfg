SPECIFICATION Spec
CONSTANTS
  Configs <- SupportedConfigs
  Token <- Vocabulary
  Users = {"u"}
  MaxTurns = 3
  MaxTokens = 2
  WarmupTokens = 3
  BangRun = 2
  MaxRetries = 3
INVARIANTS EveryBatchHasAWorker OneKernelPerGpu ContextIsTheConversation EosEndsTheAnswer
PROPERTY AnswersOrExits
