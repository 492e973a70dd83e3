SPECIFICATION Spec
CONSTANTS
  Payloads <- MCPayloads
  Sealed <- MCSealed
  Chunks <- MCChunks
  Inners <- MCInners
  MaxSeq = 2
  MaxFragment = 1
  MaxPendingOps = 2
  MaxHandshakeBytes = 5
  MaxClientHelloBytes = 2
  MaxReasmBytes = 4
  MaxOps = 22
  MaxInbound = 1
INVARIANTS
  TypeOK
  ConnectedOnlyAfterFlight
  FlightBinding
  FlightAwaitsItsAnswer
  CloseStateAgrees
  HeldOnlyOnOpenChannel
PROPERTY
  PhaseOrder
