SPECIFICATION RunnerSpec
CONSTANTS
  NumBlocks = 8
  NoHash = NoHash
  EnableCaching = TRUE
  UseEagle = FALSE
  BlockSize = 2
  MaxModelLen = 6
  MaxNumScheduledTokens = 5
  MaxNumRunningReqs = 3
  LongPrefillThreshold = 0
  NumSpecTokens = 0
  MaxConcurrentBatches = 1
  Guided = {}
  Req <- MCReq
  Tokens <- MCTokens
  PromptLen <- MCPromptLen
  MaxTokens <- MCMaxTokens
  Hashes <- MCHashes
  RemotePrefill = {}
  RemoteDecode = {}
  TPSize = 1
  EncoderInputs <- MCNoInputs
  EncoderCacheSize = 0
  MaxNumEncoderInputTokens = 0
  DisableChunkedMMInput = FALSE
  Lora <- MCNoLora
  MaxLoras = 1
CHECK_DEADLOCK FALSE
INVARIANTS ReadsWritten
