--------------------------- MODULE KeyArithmetic ----------------------------
(***************************************************************************)
(* The integers under the key exchange and the signatures: words without   *)
(* compiler support for carries and 128 bits, bignums, the limbs of the    *)
(* field of Curve25519 and of its scalars, the Montgomery form of P-256.   *)
(* A step computes with one pair of operands; what it gives is compared    *)
(* with TLA+'s integers.  Instances of their own: words of four bits, of   *)
(* three for the bignums of four words, limbs of three bits.               *)
(***************************************************************************)
EXTENDS NativeKeys

B == INSTANCE Bignum WITH WordBits <- 4, OctetBits <- 2, KaratsubaMin <- 2,
       ShortExponent <- 7, WindowBits <- 4
M == INSTANCE Bignum256 WITH WordBits <- 3, OctetBits <- 3, ShortExponent <- 7,
       WindowBits <- 3
F == INSTANCE Field25519 WITH WordBits <- 14, OctetBits <- 2, LimbBits <- 3, FieldC <- 3

VARIABLE task        \* the routine, its operands and what it gave

Is(mask) == mask # 0
Bits4(v, n) == [i \in 1..n |-> (v \div 16 ^ (i - 1)) % 16] \o <<>>
Wide(v) == [low |-> v % 16, high |-> v \div 16]
Bits3(v, n) == [i \in 1..n |-> (v \div 8 ^ (i - 1)) % 8] \o <<>>
Highest(v) == CHOOSE i \in 0..20 : 2 ^ i <= v /\ v < 2 ^ (i + 1)
P256Field(v) == [i \in 1..4 |-> (v \div P!Base ^ (i - 1)) % P!Base] \o <<>>

Routines == {"words", "double words", "bignum", "power", "bignum256", "limbs", "scalars", "p256"}

\* a, b: integers, for "limbs" five limbs each.
Given(routine, a, b) ==
  CASE routine = "words" ->
         [sum |-> B!AddCarry(1, a, b), difference |-> B!SubBorrow(1, a, b),
          eq |-> Is(B!EqMask(a, b)), gte |-> Is(B!GteMask(a, b)), product |-> B!MulWide128(a, b)]
    [] routine = "double words" ->
         LET x == Wide(a)  y == Wide(b)
         IN  [sum |-> B!Add128(x, y), difference |-> B!Sub128(x, y),
              left |-> B!ShiftLeft128(x, b % 8), right |-> B!ShiftRight128(x, b % 8),
              order |-> <<B!Gte128(x, y), Is(B!GteMask128(x, y).low), Is(B!EqMask128(x, y).low)>>]
    [] routine = "bignum" ->
         LET x == Bits4(a, 4)  y == Bits4(b, 4)
         IN  [plain |-> B!Mul(x, y), karatsuba |-> B!KaratsubaMul(x, y),
              squares |-> <<B!Sqr(x), B!KaratsubaSqr(x)>>,
              octets |-> B!FromBytesBE(B!ToBytesBE(8, x))]
    [] routine = "power" ->
         LET n == Bits4(2 * a + 1, 2)
             x == Bits4(b % (2 * a + 1), 2)
             y == Bits4((b + a) % (2 * a + 1), 2)
         IN  [sum |-> B!AddModN(n, x, y), difference |-> B!SubModN(n, x, y),
              powers |-> <<B!ModExpVartime(Highest(2 * a + 1), n, x, 6, y),
                           B!ModExpConsttime(Highest(2 * a + 1), n, x, 8, y)>>]
    [] routine = "bignum256" ->
         LET n == Bits3(2 * a + 1, 4)
         IN  [mod |-> M!Mod(n, Bits3(b, 8)), inverse |-> M!ModInvPrimeVartime(n, Bits3(b, 4)),
              power |-> M!ModExpConsttime(n, Bits3(b, 4), 12, Bits3(b, 4)),
              octets |-> M!ToBytesLE(M!NewFromBytesBE(M!ToBytesBE(n)))]
    [] routine = "limbs" ->
         LET grown == F!fadd(F!fadd(a, a), F!fsub(a, b))
         IN  [sum |-> F!fadd(a, b), difference |-> F!fsub(a, b), product |-> F!fmul(a, b),
              square |-> F!fsqr(grown), scaled |-> F!fmul1(a, 100), least |-> F!reduce(a),
              packed |-> F!load_51(F!store_felem(a)),
              swapped |-> F!cswap2(1, <<a, b>>, <<b, a>>)]
    [] routine = "scalars" ->
         LET x == E!LimbsOf(a, 2)  y == E!LimbsOf(b, 2)
         IN  [sum |-> E!add_modq(x, y), product |-> E!mul_modq(x, y), gte |-> E!gte_q(x),
              reduced |-> E!barrett_reduction(x \o y), inverse |-> E!finv(a % Prime)]
    [] routine = "p256" ->
         LET x == P256Field(a)  y == P256Field(b)
             curve == P!CompressionCompressed(P!ToOctets(P256Field(P256Base[1]))
                                                \o P!ToOctets(P256Field(P256Base[2])))
         IN  [sum |-> P!FieldAdd(x, y), difference |-> P!FieldSub(x, y),
              product |-> P!FieldMulByOne(P!FieldMul(P!ToDomain(x), P!ToDomain(y))),
              square |-> P!FieldMulByOne(P!FieldSqr(P!ToDomain(x))),
              point |-> P!DecompressionCompressed(curve)]

ArithmeticInit(routines) == task \in [routine : routines]

Calculate(a, b) ==
  /\ DOMAIN task = {"routine"}
  /\ task' = [routine |-> task.routine, a |-> a, b |-> b, gave |-> Given(task.routine, a, b)]

-----------------------------------------------------------------------------
(* The same by integers.                                                   *)

FieldPrime == 2 ^ 15 - 3
LimbsValue(f) == F!LimbValue(f) % FieldPrime
Times15(a, b) == ((((a \div 256) * b) % FieldPrime) * 256 + (a % 256) * b) % FieldPrime

\* Whatever the operands, carries, borrows and comparisons come out as for
\* integers; a product or a square is the same by rows, by halves and reduced as
\* it goes; limbs may hold values not below the modulus and give the least one.
ArithmeticExact ==
  DOMAIN task # {"routine"} =>
    LET a == task.a  b == task.b  g == task.gave
        V(x) == B!Value(x)
        n == 2 * a + 1
        ExactWords ==
          /\ g.sum = [out |-> (a + b + 1) % 16, carry |-> (a + b + 1) \div 16]
          /\ g.difference = [out |-> (a - b - 1) % 16, carry |-> IF a < b + 1 THEN 1 ELSE 0]
          /\ g.eq = (a = b) /\ g.gte = (a >= b) /\ g.product = Wide(a * b)
        ExactDoubleWords ==
          /\ g.sum = Wide((a + b) % 256) /\ g.difference = Wide((a - b) % 256)
          /\ g.left = Wide((a * 2 ^ (b % 8)) % 256) /\ g.right = Wide(a \div 2 ^ (b % 8))
          /\ g.order = <<a >= b, a >= b, a = b>>
        ExactBignum ==
          /\ V(g.plain) = a * b /\ g.karatsuba = g.plain /\ g.octets = Bits4(a, 4)
          /\ V(g.squares[1]) = a * a /\ g.squares[2] = g.squares[1]
        ExactPower ==
          LET x == b % n  y == (b + a) % n
          IN  /\ V(g.sum) = (x + y) % n /\ V(g.difference) = (x - y) % n
              /\ \A i \in 1..2 : V(g.powers[i]) = PowerMod(x, y % (IF i = 1 THEN 64 ELSE 256), n)
        ExactBignum256 ==
          /\ g.mod = [ok |-> a > 0, out |-> IF a > 0 THEN Bits3(b % n, 4) ELSE Bits3(0, 4)]
          /\ g.octets = Bits3(n, 4)
          /\ g.power = [ok |-> a > 0 /\ b < n,
                        out |-> IF a > 0 /\ b < n THEN Bits3(PowerMod(b, b, n), 4) ELSE Bits3(0, 4)]
          /\ g.inverse.ok <=> b \in 1..(n - 1) /\ a > 0
          /\ g.inverse.ok => g.inverse.out = Bits3(PowerMod(b, n - 2, n), 4)
        ExactLimbs ==
          LET grown == (3 * LimbsValue(a) - LimbsValue(b)) % FieldPrime
          IN  /\ LimbsValue(g.sum) = (LimbsValue(a) + LimbsValue(b)) % FieldPrime
              /\ LimbsValue(g.difference) = (LimbsValue(a) - LimbsValue(b)) % FieldPrime
              /\ LimbsValue(g.product) = Times15(LimbsValue(a), LimbsValue(b))
              /\ LimbsValue(g.square) = Times15(grown, grown)
              /\ LimbsValue(g.scaled) = Times15(LimbsValue(a), 100)
              /\ F!LimbValue(g.least) = LimbsValue(a) /\ g.packed = g.least
              /\ g.swapped = <<<<b, a>>, <<a, b>>>>
        ExactScalars ==
          LET Scalar(v) == E!LimbsOf(v % EdOrder, 2)
              Whole == ((b % EdOrder) * (2 ^ (2 * OrderLimbBits) % EdOrder)) + a
          IN  /\ a < EdOrder /\ b < EdOrder => g.sum = Scalar(a + b) /\ g.product = Scalar(a * b)
              /\ g.gte = (a >= EdOrder)
              /\ b < 2 ^ (2 * KeyBits - 2 * OrderLimbBits) => g.reduced = Scalar(Whole)
              /\ a % Prime # 0 => ((a % Prime) * g.inverse) % Prime = 1
        ExactP256 ==
          LET p == P256Curve.p
          IN  /\ P!Value(g.sum) = (a + b) % p /\ P!Value(g.difference) = (a - b) % p
              /\ P!Value(g.product) = (a * b) % p /\ P!Value(g.square) = (a * a) % p
              /\ g.point = [ok |-> TRUE, result |-> P!ToOctets(P256Field(P256Base[1]))
                                                      \o P!ToOctets(P256Field(P256Base[2]))]
    IN  CASE task.routine = "words" -> ExactWords
          [] task.routine = "double words" -> ExactDoubleWords
          [] task.routine = "bignum" -> ExactBignum
          [] task.routine = "power" -> ExactPower
          [] task.routine = "bignum256" -> ExactBignum256
          [] task.routine = "limbs" -> ExactLimbs
          [] task.routine = "scalars" -> ExactScalars
          [] task.routine = "p256" -> ExactP256
=============================================================================
