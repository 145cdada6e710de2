SPECIFICATION Spec
CONSTANTS
  h2 = h2
  h3 = h3
  s1 = s1
  s2 = s2
  d1 = d1
  d2 = d2
  Protocols <- MCProtocols
  Hosts <- MCHost
  PrivatePorts <- MCPrivatePorts
  Remotes <- MCRemotes
  RemotePorts <- MCRemotePorts
  Silent = {}
  Addresses <- MCAddresses
  PUBLIC_IP = "router"
  PRIVATE_IP = "gateway"
  PAT_PORT_MIN = 1024
  PAT_PORT_MAX = 1024
  Identifiers = {}
  ICMP_ID_MIN = 1024
  ICMP_ID_MAX = 1023
  LocalPairs = {}
  ENTRY_TIMEOUT = 1
  Lossy = TRUE
  MAX_WAITING = 2
SYMMETRY MCSymmetry
INVARIANTS NothingWaitsForKnown LeasesHaveFlows
PROPERTIES WaitingInOrder InstalledFlowsAgree
