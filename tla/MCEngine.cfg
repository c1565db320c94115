SPECIFICATION Spec
CONSTANTS
  NumBlocks = 6
  NoHash = NoHash
  EnableCaching = TRUE
  UseEagle = FALSE
  BlockSize = 2
  MaxModelLen = 6
  MaxNumScheduledTokens = 4
  MaxNumRunningReqs = 2
  LongPrefillThreshold = 0
  NumSpecTokens = 0
  MaxConcurrentBatches = 1
  Guided = {3}
  Req <- MCReq
  Tokens <- MCTokensShort
  PromptLen <- MCPromptLen
  MaxTokens <- MCMaxTokensShort
  Hashes <- MCHashes
  RemotePrefill = {2}
  RemoteDecode = {4}
  TPSize = 2
  EncoderInputs <- MCInputsLast
  EncoderCacheSize = 3
  MaxNumEncoderInputTokens = 2
  DisableChunkedMMInput = FALSE
  Lora <- MCLora
  MaxLoras = 1
CHECK_DEADLOCK FALSE
INVARIANTS TypeOK OnePlace ScheduleWithinLimits OwnershipExact
  SharedBlocksAgree NoCachedDataLeak ScheduleNeverRaises WorkersAgree TransfersWriteOwnBlocks
  SentBlocksStay
PROPERTY EveryRequestFinishes
