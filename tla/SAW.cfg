SPECIFICATION LiveSpec
CONSTANTS
  Sizes <- MCSizes
  MAX_FILE_SIZE = 3
INVARIANTS InStep DownloadThreadSurvives
PROPERTIES ImplementsSelectiveRepeat TransferCompletes
CHECK_DEADLOCK FALSE
