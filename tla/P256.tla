-------------------------------- MODULE P256 --------------------------------
(***************************************************************************)
(* Hacl_P256.c: ECDH and ECDSA over a curve y^2 = x^3 - 3x + b whose prime *)
(* has the shape of the NIST one, h^8 - h^7 + h^6 + h^3 - 1 for half words *)
(* h.  An integer is four words; field elements inside the curve formulas  *)
(* are in Montgomery form; a point is <<x, y, z>> in Jacobian coordinates, *)
(* with z = 0 at infinity.                                                 *)
(***************************************************************************)
EXTENDS Words

CONSTANTS
  CurveA, CurveB,      \* coefficients, in Montgomery form
  BaseX, BaseY,        \* the base point, in Montgomery form
  Order, OrderOne,     \* the order of the group; 2^(4 * WordBits) less it
  OrderK0,             \* minus the inverse of the order modulo a word
  MessageHash(_)       \* SHA-2 of a message: FieldOctets octets

HalfBits == WordBits \div 2
FieldBits == 4 * WordBits
FieldOctets == 4 * WordOctets
Zero4 == <<0, 0, 0, 0>>
One4 == <<1, 0, 0, 0>>

PrimeWords == <<AllOnes, 2 ^ HalfBits - 1, 0, AllOnes - 2 ^ HalfBits + 2>>
FieldOne == <<1, AllOnes - 2 ^ HalfBits + 1, AllOnes, 2 ^ HalfBits - 2>>
BasePoint == <<BaseX, BaseY, FieldOne>>

-----------------------------------------------------------------------------
(* Words.                                                                  *)

IsZero(f) == FoldSeq(LAMBDA w, m : m & EqMask(w, 0), AllOnes, f)
EqualMask(a, b) ==
  FoldSeq(&, AllOnes, Buffer([i \in 1..4 |-> EqMask(a[i], b[i])]))
CopyConditional(out, x, mask) ==
  Buffer([i \in 1..4 |-> out[i] ^^ (mask & (out[i] ^^ x[i]))])
Add(x, y) == Ripple(AddCarryWide, 0, x, y)
Sub(x, y) == Ripple(SubBorrowWide, 0, x, y)

\* y when the carry is set, x when not.
MoveIfCarry(carry, x, y) == ChooseAll(Compl(EqMask(carry, 0)), y, x)

\* The product; mul64 and the additions of its rows are one step each.
Product(a, b) ==
  Loop(4, Zeros(8), LAMBDA t, i :
         Eagerly(LAMBDA row : [row.out EXCEPT ![i + 4] = row.carry], AddScaled(t, i - 1, b, a[i])))

\* The square: products of different words once and doubled.
Square(f) ==
  LET squares == Buffer([i \in 1..8 |-> LET w == f[(i + 1) \div 2]
                                        IN IF i % 2 = 1 THEN (w * w) % Base
                                           ELSE (w * w) \div Base])
  IN  Eagerly(
        LAMBDA mixed : Ripple(AddCarryWide, 0, Ripple(AddCarryWide, 0, mixed, mixed).out, squares).out,
        Loop(4, Zeros(8), LAMBDA t, j :
               Eagerly(LAMBDA row : [row.out EXCEPT ![2 * j - 1] = row.carry],
                       AddScaled(t, j - 1, SubSeq(f, 1, j - 1), f[j]))))

FromOctets(o) ==
  Buffer([i \in 1..4 |-> LoadBE(SubSeq(o, FieldOctets - i * WordOctets + 1,
                                        FieldOctets - (i - 1) * WordOctets))])
ToOctets(f) == FlattenSeq([i \in 1..4 |-> StoreBE(f[5 - i], WordOctets)])

\* Bit i of a scalar in octets, most significant first.
ScalarBit(k, i) ==
  (k[FieldOctets - i \div OctetBits] \div 2 ^ (i % OctetBits)) % 2

-----------------------------------------------------------------------------
(* Montgomery multiplication, modulo m with k0 minus its inverse.          *)

\* x, with carry as a fifth word, less m when that does not underflow.
ReduceOnce(m, x, carry) ==
  Eagerly(LAMBDA d : MoveIfCarry(SubBorrowWide(d.carry, carry, 0).carry, d.out, x), Sub(x, m))

\* t + m * (t[0] k0), whose lowest word is zero, a word down.
Round(m, k0, t) ==
  Eagerly(LAMBDA row :
            Append(Tail(Ripple(AddCarryWide, 0, t,
                               [row.out EXCEPT ![5] = row.carry] \o <<0, 0, 0>>).out), 0),
          AddScaled(Zeros(5), 0, m, (t[1] * k0) % Base))

Reduce(m, k0, t) ==
  Eagerly(LAMBDA r : ReduceOnce(m, SubSeq(r, 1, 4), r[5]),
          Loop(4, t, LAMBDA s, i : Round(m, k0, s)))

-----------------------------------------------------------------------------
(* The field.                                                              *)

ReducePrime(x) == ReduceOnce(PrimeWords, x, 0)

\* Faulty form: the carry out of the sum is forgotten.
FieldAddNoCarry(x, y) == ReduceOnce(PrimeWords, Add(x, y).out, 0)

FieldAdd(x, y) == Eagerly(LAMBDA s : ReduceOnce(PrimeWords, s.out, s.carry), Add(x, y))

FieldDouble(x) == FieldAdd(x, x)

FieldSub(x, y) ==
  LET Back(c, t) == <<t, ShiftRight(t, HalfBits), 0, Minus(c, ShiftLeft(c, HalfBits))>>
  IN  Eagerly(LAMBDA d : Add(d.out, Back(d.carry, Minus(0, d.carry))).out, Sub(x, y))

FieldMulByOne(a) == Reduce(PrimeWords, 1, a \o Zero4)
FieldMul(a, b) ==
  Eagerly(LAMBDA t : Reduce(PrimeWords, 1, t), Eagerly(LAMBDA f : Product(f[1], f[2]), <<a, b>>))
FieldSqr(a) ==
  Eagerly(LAMBDA t : Reduce(PrimeWords, 1, t), Eagerly(LAMBDA f : Square(f), a))

SqrTimes(n, a) == Loop(n, a, LAMBDA s, i : FieldSqr(s))

\* a^(2^n - 1)
PowNMinusOne(n, a) ==
  Loop(n, [a |-> a, b |-> FieldOne],
       LAMBDA s, i : [b |-> FieldMul(s.b, s.a), a |-> FieldSqr(s.a)]).b

\* Faulty form: a last factor is left out.
ExponentShort(a) ==
  FieldMul(FieldMul(SqrTimes(7 * HalfBits, PowNMinusOne(HalfBits, a)),
                    SqrTimes(6 * HalfBits, a)),
           SqrTimes(2, PowNMinusOne(3 * HalfBits - 2, a)))

\* a^(p - 2): the inverse of a.
Exponent(a) ==
  FoldLeft(LAMBDA t, f : FieldMul(t, f), SqrTimes(7 * HalfBits, PowNMinusOne(HalfBits, a)),
           <<SqrTimes(6 * HalfBits, a), SqrTimes(2, PowNMinusOne(3 * HalfBits - 2, a)), a>>)

Cube(a) == FieldMul(FieldSqr(a), a)
Twice(a) == FieldAdd(a, a)
Thrice(a) == FieldAdd(a, Twice(a))
FourTimes(a) == Loop(2, a, LAMBDA s, i : Twice(s))
EightTimes(a) == Loop(3, a, LAMBDA s, i : Twice(s))

\* Reduction of eight words: sums of the same half words in other places.
SolinasReduction(w) ==
  LET c(i) == LET x == w[i \div 2 + 1]
              IN  IF i % 2 = 0 THEN x % 2 ^ HalfBits ELSE x \div 2 ^ HalfBits
      J(high, low) == low ^^ ShiftLeft(high, HalfBits)
      Joined(sum, t, i) == CASE i <= 2 -> FieldAdd(sum, FieldDouble(t))
                             [] i \in 3..4 -> FieldAdd(sum, t)
                             [] OTHER -> FieldSub(sum, t)
  IN  \* Two terms taken twice, two added, four subtracted.
      Eagerly(
        LAMBDA terms : Loop(8, ReducePrime(SubSeq(w, 1, 4)),
                            LAMBDA sum, i : Joined(sum, ReducePrime(terms[i]), i)),
        << <<0, J(c(11), 0), J(c(13), c(12)), J(c(15), c(14))>>,
           <<0, J(c(12), 0), J(c(14), c(13)), J(0, c(15))>>,
           <<J(c(9), c(8)), J(0, c(10)), 0, J(c(15), c(14))>>,
           <<J(c(10), c(9)), J(c(13), c(11)), J(c(15), c(14)), J(c(8), c(13))>>,
           <<J(c(12), c(11)), J(0, c(13)), 0, J(c(10), c(8))>>,
           <<J(c(13), c(12)), J(c(15), c(14)), 0, J(c(11), c(9))>>,
           <<J(c(14), c(13)), J(c(8), c(15)), J(c(10), c(9)), J(c(12), 0)>>,
           <<J(c(15), c(14)), J(c(9), 0), J(c(11), c(10)), J(c(13), 0)>> >>)

ToDomain(a) == SolinasReduction(Zero4 \o a)

-----------------------------------------------------------------------------
(* Points.                                                                 *)

\* From delta = z^2 and gamma = y^2.
DoubleTerms(p, delta, gamma) ==
  [beta4 |-> FourTimes(FieldMul(p[1], gamma)),
   alpha |-> Thrice(FieldMul(FieldSub(p[1], delta), FieldAdd(p[1], delta))),
   gamma8 |-> EightTimes(FieldSqr(gamma)),
   z3 |-> FieldSub(FieldSub(FieldSqr(FieldAdd(p[2], p[3])), gamma), delta)]

PointDouble(p) ==
  Eagerly(LAMBDA t :
    Eagerly(LAMBDA x3 : <<x3, FieldSub(FieldMul(t.alpha, FieldSub(t.beta4, x3)), t.gamma8), t.z3>>,
            FieldSub(FieldSqr(t.alpha), Twice(t.beta4))),
    Eagerly(LAMBDA s : DoubleTerms(p, s[1], s[2]), <<FieldSqr(p[3]), FieldSqr(p[2])>>))

\* p in place of out when the point mask is infinity.
CopyPointConditional(out, p, mask) ==
  Buffer([i \in 1..3 |-> CopyConditional(out[i], p[i], IsZero(mask[3]))])

\* Both points over both z: u = x zz and s = y zzz for either, and differences.
CommonTerms(s) == [u1 |-> s[1].u, s1 |-> s[1].s,
                   h |-> FieldSub(s[2].u, s[1].u), r |-> FieldSub(s[2].s, s[1].s)]

\* The sum from those terms, uh = h^2 u1 and h^3.
SumOf(t, uh, hCube, z) ==
  Eagerly(LAMBDA x3 :
            <<x3, FieldSub(FieldMul(FieldSub(uh, x3), t.r), FieldMul(t.s1, hCube)), FieldMul(z, t.h)>>,
          FieldSub(FieldSub(FieldSqr(t.r), hCube), Twice(uh)))

\* Faulty form: the sum with the point at infinity is computed as any other.
PointAddPlain(p, q) ==
  LET points == <<<<p, q>>, <<q, p>>>>
  IN  Eagerly(
        LAMBDA t : Eagerly(LAMBDA f : SumOf(t, f[1], f[2], FieldMul(p[3], q[3])),
                     Eagerly(LAMBDA hh : <<FieldMul(hh, t.u1), FieldMul(hh, t.h)>>, FieldSqr(t.h))),
        Eagerly(LAMBDA s : CommonTerms(s),
          Buffer([i \in 1..2 |->
            LET a == points[i][1]  b == points[i][2]
            IN  Eagerly(LAMBDA zz : [u |-> FieldMul(zz, a[1]),
                                     s |-> FieldMul(FieldMul(zz, b[3]), a[2])], FieldSqr(b[3]))])))

\* The sum of different points, and of any point and infinity.
PointAdd(p, q) ==
  Eagerly(LAMBDA s : CopyPointConditional(CopyPointConditional(s, q, p), p, q),
          PointAddPlain(p, q))

PointToDomain(p) == Buffer([i \in 1..3 |-> ToDomain(p[i])])
AtInfinity(p) == IsZero(p[3]) = AllOnes

\* Affine coordinates out of Montgomery form, and z one or zero.
Norm(p) ==
  Eagerly(LAMBDA zz :
            <<FieldMulByOne(FieldMul(p[1], Exponent(zz))),
              FieldMulByOne(FieldMul(p[2], Exponent(FieldMul(zz, p[3])))),
              CopyConditional(One4, Zero4, IsZero(p[3]))>>,
          FieldSqr(p[3]))

NormX(p) ==
  Eagerly(LAMBDA zz : FieldMulByOne(FieldMul(Exponent(zz), p[1])), FieldSqr(p[3]))

\* The Montgomery ladder: r - q stays the point multiplied.
ConditionalSwap(bit, s) == IF bit = 1 THEN [q |-> s.r, r |-> s.q] ELSE s

LadderStep(k, i, s0) ==
  LET bit == ScalarBit(k, i)
  IN  ConditionalSwap(bit, Eagerly(LAMBDA s : [q |-> PointDouble(s.q), r |-> PointAdd(s.q, s.r)],
                                   ConditionalSwap(bit, s0)))

Ladder(p, k) ==
  Loop(FieldBits, [q |-> <<Zero4, Zero4, Zero4>>, r |-> p],
       LAMBDA s, i : LadderStep(k, FieldBits - i, s)).q

ScalarMultiplicationL(p, k) == Eagerly(Norm, Ladder(PointToDomain(p), k))
ScalarMultiplicationC(p, k) == Eagerly(Norm, Ladder(PointToDomain(p), k))
ScalarMultiplicationWithoutNorm(p, k) == Ladder(PointToDomain(p), k)
SecretToPublic(k) == Eagerly(Norm, Ladder(BasePoint, k))
SecretToPublicWithoutNorm(k) == Ladder(BasePoint, k)

-----------------------------------------------------------------------------
(* The scalars, modulo the order.                                          *)

ReduceOrder(x) == ReduceOnce(Order, x, 0)
RoundTwice(t) == Round(Order, OrderK0, Round(Order, OrderK0, t))

\* The two double rounds and the last subtraction.
OrderMul(a, b) ==
  Eagerly(LAMBDA r : ReduceOnce(Order, SubSeq(r, 1, 4), r[5]),
          Loop(2, Product(a, b), LAMBDA t, i : RoundTwice(t)))

\* a^e for four words e, most significant bit first.
PowerLadder(Times(_, _), one, a, e) ==
  Loop(FieldBits, [q |-> one, r |-> a],
       LAMBDA s0, i :
         LET bit == BitOf(e, FieldBits - i)
         IN  ConditionalSwap(bit, Eagerly(LAMBDA s : [q |-> Times(s.q, s.q), r |-> Times(s.q, s.r)],
                                          ConditionalSwap(bit, s0)))).q

\* a^(order - 2): the inverse of a.
OrderExponent(a) ==
  PowerLadder(OrderMul, OrderOne, a, Sub(Order, <<2, 0, 0, 0>>).out)

OrderFromDomain(a) == OrderMul(One4, a)
MulPartial(a, b) == OrderMul(a, OrderFromDomain(OrderFromDomain(b)))

-----------------------------------------------------------------------------
(* Public keys.                                                            *)

BufferToJac(p) == <<p[1], p[2], One4>>

IsCoordinateValid(p) == Sub(p[1], PrimeWords).carry = 1 /\ Sub(p[2], PrimeWords).carry = 1

IsPointOnCurve(p) ==
  EqualMask(FieldSqr(ToDomain(p[2])),
            Eagerly(LAMBDA x : FieldAdd(FieldSub(Cube(x), Thrice(x)), CurveB), ToDomain(p[1]))) # 0

IsOrderCorrect(p) == AtInfinity(ScalarMultiplicationC(p, ToOctets(Order)))

\* Faulty form: the curve equation is not asked for.
VerifyQOffCurve(p) == IsCoordinateValid(p) /\ IsOrderCorrect(p)

VerifyQValidCurvePoint(p) ==
  IsCoordinateValid(p) /\ IsPointOnCurve(p) /\ IsOrderCorrect(p)

InScalarRange(f) == Sub(f, Order).carry = 1 /\ f # Zero4
IsMoreThanZeroLessThanOrder(o) == InScalarRange(FromOctets(o))

KeyOf(o) == <<FromOctets(SubSeq(o, 1, FieldOctets)),
              FromOctets(SubSeq(o, FieldOctets + 1, 2 * FieldOctets))>>
PointOctets(p) == ToOctets(p[1]) \o ToOctets(p[2])

VerifyQ(pub) == VerifyQValidCurvePoint(BufferToJac(KeyOf(pub)))

-----------------------------------------------------------------------------
(* ECDH.                                                                   *)

Dh(pub, k) ==
  LET p == BufferToJac(pub)
  IN  IF VerifyQValidCurvePoint(p)
      THEN Eagerly(LAMBDA r : [point |-> r, flag |-> IsZero(r[3])], ScalarMultiplicationL(p, k))
      ELSE [point |-> <<Zero4, Zero4, Zero4>>, flag |-> AllOnes]

EcdhInitiate(k) ==
  Eagerly(LAMBDA r : [ok |-> ~AtInfinity(r), result |-> PointOctets(r)], SecretToPublic(k))

EcdhRespond(pub, k) ==
  Eagerly(LAMBDA r : [ok |-> r.flag = 0, result |-> PointOctets(r.point)], Dh(KeyOf(pub), k))

-----------------------------------------------------------------------------
(* ECDSA.                                                                  *)

HashAsFelem(m) == ReduceOrder(FromOctets(m))

SignatureCore(digest, d, k) ==
  LET Numerator(r) ==
        Eagerly(LAMBDA z : ReduceOnce(Order, z.out, z.carry),
                Add(OrderMul(r, d), OrderFromDomain(HashAsFelem(digest))))
      Pair(r, s) == [r |-> r, s |-> s, flag |-> IsZero(r) | IsZero(s)]
  IN  Eagerly(LAMBDA r : Eagerly(LAMBDA s : Pair(r, s),
                                 OrderMul(Numerator(r), OrderExponent(FromOctets(k)))),
              ReduceOrder(NormX(SecretToPublicWithoutNorm(k))))

SignDigest(digest, priv, k) ==
  Eagerly(LAMBDA c : [ok |-> c.flag = 0, sig |-> ToOctets(c.r) \o ToOctets(c.s)],
          SignatureCore(digest, FromOctets(priv), k))

EcdsaSign(m, priv, k) == SignDigest(MessageHash(m), priv, k)
EcdsaSignWithoutHash(m, priv, k) == SignDigest(m, priv, k)

\* Faulty form: equal points are added by the formula for different ones.
SumOfDifferent(p, q) == PointAdd(p, q)

\* u1 G + u2 Q, which may be the same point twice.
SumPoints(p, q) ==
  IF Norm(p) = Norm(q) THEN PointDouble(p) ELSE PointAdd(p, q)

MultipliedSum(q, u) ==
  Eagerly(LAMBDA t : SumPoints(t[1], t[2]),
          <<SecretToPublicWithoutNorm(ToOctets(u[1])),
            ScalarMultiplicationWithoutNorm(q, ToOctets(u[2]))>>)

Verification(pub, r, s, digest) ==
  LET q == BufferToJac(pub)
      coefficients ==     \* u1 = z / s and u2 = r / s
        Eagerly(LAMBDA sInv : <<MulPartial(sInv, HashAsFelem(digest)), MulPartial(sInv, r)>>,
                OrderExponent(OrderFromDomain(s)))
  IN  /\ VerifyQValidCurvePoint(q)
      /\ InScalarRange(r) /\ InScalarRange(s)
      /\ Eagerly(LAMBDA sum : ~AtInfinity(sum) /\ ReduceOrder(sum[1]) = r,
                 Norm(MultipliedSum(q, coefficients)))

VerifyDigest(digest, pub, sig) ==
  Verification(KeyOf(pub), FromOctets(SubSeq(sig, 1, FieldOctets)),
               FromOctets(SubSeq(sig, FieldOctets + 1, 2 * FieldOctets)), digest)

EcdsaVerify(m, pub, sig) == VerifyDigest(MessageHash(m), pub, sig)
EcdsaVerifyWithoutHash(m, pub, sig) == VerifyDigest(m, pub, sig)

-----------------------------------------------------------------------------
(* Point formats: 4 and both coordinates, or 2 + y % 2 and x.              *)

\* a^((p + 1) / 4): a square root of a, if it has one.
SquareRoot(a) ==
  PowerLadder(FieldMul, FieldOne, a,
    LET up == Add(PrimeWords, One4).out
    IN  Buffer([i \in 1..4 |-> ShiftRight(up[i], 2) |
                  (IF i < 4 THEN ShiftLeft(up[i + 1], WordBits - 2) ELSE 0)]))

ComputeYFromX(x, sign) ==
  Eagerly(LAMBDA y : MoveIfCarry(EqMask(y[1] & 1, sign), FieldSub(Zero4, y), y),
          FieldMulByOne(SquareRoot(FieldAdd(FieldAdd(Cube(x), FieldMul(CurveA, x)), CurveB))))

DecompressionNotCompressed(b) == [ok |-> b[1] = 4, result |-> Tail(b)]

DecompressionCompressed(b) ==
  Eagerly(LAMBDA x : [ok |-> b[1] \in {2, 3} /\ Sub(x, PrimeWords).carry = 1,
                      result |-> Tail(b) \o ToOctets(ComputeYFromX(ToDomain(x), b[1] % 2))],
          FromOctets(Tail(b)))

CompressionNotCompressed(o) == <<4>> \o o
CompressionCompressed(o) == <<2 + (o[2 * FieldOctets] % 2)>> \o SubSeq(o, 1, FieldOctets)
=============================================================================
