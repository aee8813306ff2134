SPECIFICATION IngestSpec
CONSTANTS
  ChunkSize = 5
  ChunkOverlap = 3
  MaxSentences = 5
  MaxTokens = 6
  BATCH_SIZE = 2
  MaxAttempts = 2
INVARIANTS
  TypeOK
  NothingLost
  StraddlesKept
  OverlapBounded
  GreedilyFilled
  OwnVectors
PROPERTIES
  IngestEnds
CHECK_DEADLOCK FALSE
