SPECIFICATION Spec
CONSTANTS
  t1 = t1
  t2 = t2
  t3 = t3
  Addresses <- MCAddresses
  Threads <- MCLiveThreads
  MAX_QUEUE = 1
PROPERTIES SynReachesThread
