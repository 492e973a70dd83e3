SPECIFICATION ConnSpec
CONSTANTS
  Payloads <- MCPayloads
  Sealed <- MCSealed
  Chunks <- WholeChunks
  Inners <- MCInners
  Streams <- MCStreams
  MaxSeq = 3
  MaxFragment = 2
  MaxPendingOps = 2
  MaxHandshakeBytes = 6
  MaxClientHelloBytes = 2
  MaxReasmBytes = 4
  MaxOps = 22
  MaxInbound = 2
  MaxCiphertext = 3
  MaxSteps = 21
  MaxSends = 2
  OversizeCertificate = FALSE
  ReadsInProgress = FALSE
INVARIANTS
  EveryEndDropsSecrets
