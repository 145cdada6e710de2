SPECIFICATION FairSpec
CONSTANTS
  t1 = t1
  t2 = t2
  t3 = t3
  Addresses <- MCAddresses
  Threads <- MCThreads
  MAX_QUEUE = 2
INVARIANTS LiveRegistered NewThreadIsFed LossOnlyAfterClose
PROPERTIES ImplementsConnections StartedIsAnswered CloseFreesAddress
