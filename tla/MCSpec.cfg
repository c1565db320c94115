SPECIFICATION Spec
CONSTANTS
  NumBlocks = 8
  NoHash = NoHash
  EnableCaching = TRUE
  UseEagle = TRUE
  BlockSize = 2
  MaxModelLen = 8
  MaxNumScheduledTokens = 4
  MaxNumRunningReqs = 2
  LongPrefillThreshold = 0
  NumSpecTokens = 2
  MaxConcurrentBatches = 1
  Guided = {}
  Req <- MCReqTwo
  Tokens <- MCTokensTwo
  PromptLen <- MCPromptLenTwo
  MaxTokens <- MCMaxTokensTwo
  Hashes <- MCHashes
  RemotePrefill = {}
  RemoteDecode = {}
  TPSize = 1
  EncoderInputs <- MCNoInputs
  EncoderCacheSize = 0
  MaxNumEncoderInputTokens = 0
  DisableChunkedMMInput = FALSE
  Lora <- MCNoLora
  MaxLoras = 1
CHECK_DEADLOCK FALSE
INVARIANTS ComputedTokensHaveSlots
PROPERTY EveryRequestFinishes
