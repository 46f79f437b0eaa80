SPECIFICATION Spec
CONSTANTS
  Configs <- AllConfigs
  Modes = {"single", "optionC"}
  CHUNK = 2
  PromptLens = {0, 3}
  MaxTokens = 4
  Ignored = {"knorm", "rope"}
INVARIANTS
  LogitsAreTheNetworks
  StatesAreTheNetworks
  PatchesReachTheirInstructions
