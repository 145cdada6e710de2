SPECIFICATION DamageSpec
CONSTANTS
  Sizes <- MCLiveSizes
  MAX_FILE_SIZE = 3
  WINDOW_SIZE = 2
PROPERTY DamageIsRecovered
CHECK_DEADLOCK FALSE
