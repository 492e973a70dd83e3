SPECIFICATION SymmetricSpec
CHECK_DEADLOCK FALSE
CONSTANTS
  HashOctetBits = 4
  NarrowBits = 4
  WideBits = 8
  NarrowKeys <- NarrowK
  NarrowRotations <- NarrowR
  WideKeys <- WideK
  WideRotations <- WideR
  Initial <- InitialOf
  NarrowSizes = {0, 1, 15, 17}
  WideSizes = {0, 1, 31, 33}
  MaxFeeds = 3
  FedOctet <- OctetAt
  GcmBlock = 4
  GcmGroup = 2
  GcmSealMin = 6
  GcmOpenMin = 2
  GcmTagOctets = 4
  GcmNonceOctets = 3
  ChachaNonceOctets = 3
  KeySchedule <- Schedule
  StartOf <- Start
  StreamOf <- KeyOctet
  TagOf <- Tag
  MaxInput = 60
  PolyWordBits = 14
  PolyBits = 6
  ClampLow = 4095
  ClampHigh = 4092
  StreamBits = 7
  AeadOctetBits = 7
  ChachaConstants <- FourWords
  DoubleRounds = 1
  ChachaRotations <- QuarterRotations
  AesKeyOctets <- AesKeySize
  PtSizes = {0, 1, 4, 5, 7, 8, 15, 16, 21, 35, 47, 48, 53, 60}
  LongInput = 61
  OkmSizes = {0, 8, 12, 13, 16, 24, 25}
  LongOkmSizes = {120, 180, 181, 240}
  MaxSealed = 1
INVARIANTS
  HashIsOneShot
  KdfExact
  OpensOnlySealed
  FailsClosed
