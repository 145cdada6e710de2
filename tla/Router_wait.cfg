SPECIFICATION LiveSpec
CONSTANTS
  h2 = h2
  h3 = h3
  s1 = s1
  s2 = s2
  d1 = d1
  d2 = d2
  Protocols = {}
  Hosts <- MCHosts
  PrivatePorts <- MCPrivatePort
  Remotes <- MCRemotes
  RemotePorts <- MCRemotePort
  Silent <- MCSilent
  Addresses <- MCAddresses
  PUBLIC_IP = "router"
  PRIVATE_IP = "gateway"
  PAT_PORT_MIN = 1024
  PAT_PORT_MAX = 1023
  Identifiers <- MCIdentifiers
  ICMP_ID_MIN = 1024
  ICMP_ID_MAX = 1024
  LocalPairs <- MCLocalPairs
  ENTRY_TIMEOUT = 0
  Lossy = FALSE
  MAX_WAITING = 1
PROPERTY WaitingEnds
