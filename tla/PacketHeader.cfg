SPECIFICATION Spec
CONSTANTS
  TYPES = 4
  LENGTHS = 4
  SEQS = 3
  Payloads <- MCPayloads
INVARIANTS ReceivedIsSent SameProtocol
PROPERTY IntactIsReceived
