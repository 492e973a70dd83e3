SPECIFICATION AsymmetricSpec
CHECK_DEADLOCK FALSE
CONSTANTS
  MaxInput = 100
  EdWordBits = 16
  EdOctetBits = 1
  Prime = 32749
  KeyBits = 16
  A24 = 90
  BaseU = 9
  InverseRuns <- Runs
  EdD = 40
  SqrtM1 = 15645
  EdX = 29820
  EdY = 15
  EdOrder = 4111
  EdOrderMu = 1044750
  EdOrderLimbs = 2
  OrderLimbBits = 11
  ReduceIn = 11
  ReduceOut = 21
  EdWindow = 4
  Hash512 <- EdHash
  P256WordBits = 2
  P256OctetBits = 1
  CurveA <- AMont
  CurveB <- BMont
  BaseX <- XMont
  BaseY <- YMont
  P256Order <- N4
  P256OrderOne <- N4One
  P256OrderK0 <- N4K0
  P256Hash <- P256Digest
  RsaWordBits = 6
  RsaOctetBits = 3
  KaratsubaMin = 2
  ShortExponent = 7
  WindowBits = 2
  RsaHash <- RsaDigest
  HashLen = 1
  TrailerOctet = 5
  P256Curve <- NistLike
  P256Base <- NistBase
  P256N = 179
  MontgomeryCurve <- MontgomeryLike
  NonResidue = 2
INVARIANTS
  SharedSecretsExact
  SignaturesVerify
  VerdictExact
  ArithmeticExact
