SPECIFICATION Spec
CONSTANTS
  Sizes <- MCLiveSizes
  MAX_FILE_SIZE = 3
  WINDOW_SIZE = 2
INVARIANT DownloadThreadSurvives
CHECK_DEADLOCK FALSE
