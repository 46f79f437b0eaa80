SPECIFICATION Spec
CONSTANTS
  Configs <- OneConfig
  Modes = {"single"}
  CHUNK = 2
  PromptLens = {3}
  MaxTokens = 4
  Ignored = {}
INVARIANT LogitsAreTheNetworks
