SPECIFICATION FairChannelSpec
CONSTANTS
  Payloads <- MCPayloads
  Sealed <- MCSealed
  Chunks <- MCChunks
  Inners <- MCInners
  Streams <- MCStreams
  MaxSeq = 3
  MaxFragment = 1
  MaxPendingOps = 2
  MaxHandshakeBytes = 6
  MaxClientHelloBytes = 2
  MaxReasmBytes = 4
  MaxOps = 23
  MaxInbound = 2
PROPERTY
  HandshakeNonceFresh
