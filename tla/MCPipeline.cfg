SPECIFICATION Spec
CONSTANTS
  NumBlocks = 5
  NoHash = NoHash
  EnableCaching = TRUE
  UseEagle = FALSE
  BlockSize = 2
  MaxModelLen = 6
  MaxNumScheduledTokens = 4
  MaxNumRunningReqs = 3
  LongPrefillThreshold = 2
  NumSpecTokens = 0
  MaxConcurrentBatches = 2
  Guided = {1}
  Req <- MCReqThree
  Tokens <- MCTokens
  PromptLen <- MCPromptLen
  MaxTokens <- MCMaxTokens
  Hashes <- MCHashes
  RemotePrefill = {}
  RemoteDecode = {}
  TPSize = 1
  EncoderInputs <- MCInputsThree
  EncoderCacheSize = 5
  MaxNumEncoderInputTokens = 2
  DisableChunkedMMInput = FALSE
  Lora <- MCNoLora
  MaxLoras = 1
CHECK_DEADLOCK FALSE
INVARIANTS FirstComeFirstServed AnswersAreCurrent EncoderOutputPresent CommonPrefixIsCommon
PROPERTY EveryRequestFinishes
