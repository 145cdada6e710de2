SPECIFICATION Spec
CONSTANTS
  Protocols <- MCProtocols
  Hosts <- MCHosts
  PrivatePorts <- MCPrivatePorts
  PAT_PORT_MIN = 1024
  PAT_PORT_MAX = 1026
  ENTRY_TIMEOUT = 2
INVARIANTS TablesAgree PortsPartitioned
PROPERTIES PortKeptUntilTimeout ImplementsPortLeases
