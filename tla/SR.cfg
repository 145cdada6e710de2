SPECIFICATION LiveSpec
CONSTANTS
  Sizes <- MCSizes
  MAX_FILE_SIZE = 3
  WINDOW_SIZE = 2
INVARIANTS OutIsPrefix ForgottenWasReceived NothingDiscarded
  CreditConserved OldestOutstanding FinIsLast OpenUploadSurvives
PROPERTIES ImplementsTransfer UploadCompletes DownloadEnds ThreadEnds
CHECK_DEADLOCK FALSE
