SPECIFICATION FairSpec
CONSTANTS
  Kinds <- MCKinds
  Sessions = {1}
  Imports = {2}
  MaxLines = 1
  MaxRows = 4
  MaxFaults = 1
  MaxMessages = 2
  MaxChars = 20
  Label = 8
  ImportsBesideWorker = FALSE
INVARIANT RowsInOrder
INVARIANT WatermarkIsHonest
INVARIANT ReadOnce
PROPERTY ImplementsTranscriptLog
PROPERTY QueuedIsProcessed
PROPERTY ShutdownEnds
