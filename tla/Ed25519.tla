------------------------------ MODULE Ed25519 -------------------------------
(***************************************************************************)
(* Hacl_Ed25519.c: signatures over -x^2 + y^2 = 1 + d x^2 y^2.  Elements   *)
(* of the field are values, those of the group's scalars are limbs, as in  *)
(* the code, since Barrett's reduction works on them; a point is           *)
(* <<x, y, z, t>> with x y = z t.  The scalars have OrderLimbs limbs of    *)
(* OrderLimbBits bits (5 of 56), the shifts of the reduction are ReduceIn  *)
(* and ReduceOut (248 and 264).                                            *)
(***************************************************************************)
EXTENDS Curve25519

CONSTANTS
  EdD, SqrtM1,             \* d and a square root of -1
  EdX, EdY,                \* the base point
  Order, OrderMu,          \* of the group, and 2^(2 * KeyBits) over it
  OrderLimbs, OrderLimbBits, ReduceIn, ReduceOut,
  EdWindow,                \* bits of a scalar taken at once
  Hash512(_)               \* SHA-512 of a sequence of octets: 2 * KeyOctets

Identity == <<0, 1, 1, 0>>
BasePoint == <<EdX, EdY, 1, Mul(EdX, EdY)>>

-----------------------------------------------------------------------------
(* The group.                                                              *)

PointDouble(p) ==
  LET xx == Sqr(p[1])  yy == Sqr(p[2])  zz2 == Sum(Sqr(p[3]), Sqr(p[3]))
      h == Sum(xx, yy)
      e == Diff(h, Sqr(Sum(p[1], p[2])))
      g == Diff(xx, yy)
      f == Sum(zz2, g)
  IN  <<Mul(f, e), Mul(g, h), Mul(f, g), Mul(e, h)>>

PointAdd(p, q) ==
  LET a == Mul(Diff(p[2], p[1]), Diff(q[2], q[1]))
      b == Mul(Sum(p[2], p[1]), Sum(q[2], q[1]))
      c == Mul(Mul(Sum(EdD, EdD), p[4]), q[4])
      d == Mul(Sum(p[3], p[3]), q[3])
      e == Diff(b, a)  f == Diff(d, c)  g == Sum(d, c)  h == Sum(b, a)
  IN  <<Mul(e, f), Mul(g, h), Mul(f, g), Mul(e, h)>>

\* The multiples 0 .. 2^EdWindow - 1 of q, at positions one higher.
MultiplesOf(q) ==
  Loop(2 ^ EdWindow - 2, <<Identity, q>>, LAMBDA t, i : Append(t, PointAdd(t[i + 1], q)))

WindowOf(scalar, i) == (LoadLE(scalar) \div 2 ^ (KeyBits - EdWindow * i)) % 2 ^ EdWindow
DoubleWindow(p) == Loop(EdWindow, p, LAMBDA s, i : PointDouble(s))

\* All of the table is read, whichever entry is meant.
PointMul(scalar, q) ==
  LET Entry(table, bits) == Loop(2 ^ EdWindow - 1, table[1], LAMBDA r, j :
                              ChooseAll(EqMask(bits, j), table[j + 1], r))
  IN  Eagerly(LAMBDA table :
        Loop(KeyBits \div EdWindow, Identity, LAMBDA p, i :
          PointAdd(DoubleWindow(p), Entry(table, WindowOf(scalar, i)))),
        MultiplesOf(q))

PointMulG(scalar) == PointMul(scalar, BasePoint)

\* scalar1 * q1 + scalar2 * q2, with one chain of doublings.
PointMulDouble(scalar1, q1, scalar2, q2) ==
  Eagerly(LAMBDA tables :
    Loop(KeyBits \div EdWindow, Identity, LAMBDA p, i :
      PointAdd(PointAdd(DoubleWindow(p), tables[1][WindowOf(scalar1, i) + 1]),
               tables[2][WindowOf(scalar2, i) + 1])),
    <<MultiplesOf(q1), MultiplesOf(q2)>>)

PointMulGDouble(scalar1, scalar2, q2) == PointMulDouble(scalar1, BasePoint, scalar2, q2)

\* y, with the parity of x for the top bit.
PointCompress(p) ==
  Eagerly(LAMBDA zinv : [StoreLE(Mul(p[2], zinv), KeyOctets) EXCEPT
                           ![KeyOctets] = @ + (Mul(p[1], zinv) % 2) * 2 ^ (OctetBits - 1)],
          finv(p[3]))

PointNegate(p) == <<Diff(0, p[1]), p[2], p[3], Diff(0, p[4])>>

PointEqual(p, q) ==
  /\ Mul(p[1], q[3]) = Mul(q[1], p[3])
  /\ Mul(p[2], q[3]) = Mul(q[2], p[3])

-----------------------------------------------------------------------------
(* Points from octets.                                                     *)

\* z^(2^(KeyBits - 4) - 2), that is z^((Prime + 3) / 8)
pow2_252m2(z) ==
  Eagerly(LAMBDA z9 : Mul(fsquare_times(LongestRun(Mul(Sqr(Mul(z9, Sqr(z))), z9)), 2), Sqr(z)),
          Mul(fsquare_times(Sqr(z), 2), z))

\* The x of a point from its y, if y is reduced and on the curve.
recover_x(y, sign) ==
  LET refused == [ok |-> FALSE, x |-> 0]
      Corrected(x2, r1) == IF Sqr(r1) = x2 THEN r1 ELSE Mul(r1, SqrtM1)
      Signed(x2, r2) == IF Sqr(r2) # x2 THEN refused
                        ELSE [ok |-> TRUE, x |-> IF r2 % 2 = sign THEN r2 ELSE Diff(0, r2)]
      Rooted(x2) == Eagerly(LAMBDA r1 : Signed(x2, Corrected(x2, r1)), pow2_252m2(x2))
      FromSquare(x2) == IF x2 # 0 THEN Rooted(x2)
                        ELSE IF sign = 0 THEN [ok |-> TRUE, x |-> 0] ELSE refused
  IN  IF y >= Prime THEN refused
      ELSE Eagerly(FromSquare, Mul(Diff(Sqr(y), 1), finv(Sum(Mul(EdD, Sqr(y)), 1))))

PointDecompress(s) ==
  LET Point(y, r) == [ok |-> r.ok, point |-> IF r.ok THEN <<r.x, y, 1, Mul(r.x, y)>> ELSE Identity]
      FromY(y) == Eagerly(LAMBDA r : Point(y, r), recover_x(y, LoadLE(s) \div 2 ^ (KeyBits - 1)))
  IN  Eagerly(FromY, LoadLE(s) % 2 ^ (KeyBits - 1))

-----------------------------------------------------------------------------
(* Scalars modulo Order, as limbs.                                         *)

LimbBase == 2 ^ OrderLimbBits
LimbsOf(v, n) == Buffer([i \in 1..n |-> (v \div LimbBase ^ (i - 1)) % LimbBase])
OrderM == LimbsOf(Order, OrderLimbs)
MuM == LimbsOf(OrderMu, OrderLimbs)

\* The limbs of octets, a word read at each multiple of a limb's octets.
LoadLimbs(b, n) ==
  LET size == OrderLimbBits \div OctetBits
      Least(i, j) == IF i < j THEN i ELSE j
  IN  Buffer([i \in 1..n |-> LoadLE(SubSeq(b, size * (i - 1) + 1, Least(size * i, Len(b))))])

load_64_bytes(b) == LoadLimbs(b, 2 * OrderLimbs)
load_32_bytes(b) == LoadLimbs(b, OrderLimbs)

store_56(s) ==
  LET size == OrderLimbBits \div OctetBits
      all == FlattenSeq(Buffer([i \in 1..OrderLimbs |-> StoreLE(s[i], size)]))
  IN  SubSeq(all, 1, KeyOctets)

\* Columns of a product, the first n of them carried.
ProductLimbs(x, y, n) ==
  Loop(n, [out |-> <<>>, c |-> 0], LAMBDA s, k :
    LET col == FoldSeq(+, s.c, [i \in 1..OrderLimbs |->
                 IF k + 1 - i \in 1..OrderLimbs THEN x[i] * y[k + 1 - i] ELSE 0])
    IN  [out |-> Append(s.out, col % LimbBase), c |-> col \div LimbBase]).out

\* x - y with borrow; a borrow from the last limb is worth 2^topBits there.
SubLimbs(x, y, topBits) ==
  Loop(OrderLimbs, [out |-> <<>>, b |-> 0], LAMBDA s, i :
    LET d == Minus(x[i], Plus(y[i], s.b))
        b == ShiftRight(d, WordBits - 1)
    IN  [out |-> Append(s.out,
                   Plus(ShiftLeft(b, IF i = OrderLimbs THEN topBits ELSE OrderLimbBits), d)),
         b |-> b])

LessOrder(s) ==
  Eagerly(LAMBDA d : ChooseAll(Minus(d.b, 1), d.out, s), SubLimbs(s, OrderM, OrderLimbBits))

\* The limbs from bit n of t on.
DropBits(t, n) ==
  LET at == OrderLimbs - 1
      shift == n - at * OrderLimbBits
  IN  Buffer([i \in 1..OrderLimbs |->
        ShiftRight(t[at + i], shift)
          | ((t[at + i + 1] % 2 ^ shift) * 2 ^ (OrderLimbBits - shift))])

\* Bits ReduceOut and up of x dropped.
Below(x) ==
  [SubSeq(x, 1, OrderLimbs) EXCEPT
     ![OrderLimbs] = @ % (2 ^ (ReduceOut - (OrderLimbs - 1) * OrderLimbBits))]

\* Faulty form: the remainder is not brought below Order.
BarrettUnfinished(t) ==
  LET quotient == DropBits(ProductLimbs(DropBits(t, ReduceIn), MuM, 2 * OrderLimbs), ReduceOut)
  IN  SubLimbs(Below(t), Below(ProductLimbs(quotient, OrderM, OrderLimbs)),
               ReduceOut - (OrderLimbs - 1) * OrderLimbBits).out

\* t modulo Order, for t of 2 * OrderLimbs limbs: an estimate of the quotient
\* that is short by one at most, and one conditional subtraction.
barrett_reduction(t) ==
  LET quotient == DropBits(ProductLimbs(DropBits(t, ReduceIn), MuM, 2 * OrderLimbs), ReduceOut)
  IN  LessOrder(SubLimbs(Below(t), Below(ProductLimbs(quotient, OrderM, OrderLimbs)),
                         ReduceOut - (OrderLimbs - 1) * OrderLimbBits).out)

mul_modq(x, y) == barrett_reduction(ProductLimbs(x, y, 2 * OrderLimbs))

add_modq(x, y) ==
  LessOrder(Loop(OrderLimbs, [out |-> <<>>, c |-> 0], LAMBDA s, i :
    LET l == x[i] + y[i] + s.c
    IN  IF i = OrderLimbs THEN [out |-> Append(s.out, l), c |-> 0]
        ELSE [out |-> Append(s.out, l % LimbBase), c |-> l \div LimbBase]).out)

\* From the most significant limb down.
gte_q(s) ==
  Loop(OrderLimbs, "equal", LAMBDA r, i :
    LET a == s[OrderLimbs + 1 - i]  b == OrderM[OrderLimbs + 1 - i]
    IN  CASE r # "equal" -> r
          [] r = "equal" /\ a > b -> "above"
          [] r = "equal" /\ a < b -> "below"
          [] OTHER -> r) \in {"above", "equal"}

HashModQ(octets) == Eagerly(barrett_reduction, load_64_bytes(Hash512(octets)))

-----------------------------------------------------------------------------
(* Keys and signatures.                                                    *)

\* The hash of a secret; its first half clamped: the three low bits and the
\* top one cleared, the one below the top set.
secret_expand(secret) ==
  LET Clamp(a) == 2 ^ (KeyBits - 2) + a - (a % 8)
  IN  Eagerly(LAMBDA hash :
        [scalar |-> StoreLE(Clamp(LoadLE(SubSeq(hash, 1, KeyOctets)) % 2 ^ (KeyBits - 2)), KeyOctets),
         prefix |-> SubSeq(hash, KeyOctets + 1, 2 * KeyOctets)],
        Hash512(secret))

PublicOf(scalar) == Eagerly(PointCompress, Eagerly(PointMulG, scalar))
EdSecretToPublic(secret) == PublicOf(secret_expand(secret).scalar)

expand_keys(secret) == [pub |-> EdSecretToPublic(secret), secret |-> secret_expand(secret)]

sign_expanded(ks, m) ==
  Eagerly(LAMBDA r :
    Eagerly(LAMBDA rs :
      rs \o store_56(add_modq(r, mul_modq(HashModQ(rs \o ks.pub \o m),
                                         load_32_bytes(ks.secret.scalar)))),
      PublicOf(store_56(r))),
    HashModQ(ks.secret.prefix \o m))

EdSign(secret, m) == Eagerly(LAMBDA ks : sign_expanded(ks, m), expand_keys(secret))

\* s B - h A is R, h the hash of hashed.
Meets(a, r, ss, hashed) ==
  Eagerly(LAMBDA h : PointEqual(PointMulGDouble(ss, h, PointNegate(a)), r),
          store_56(HashModQ(hashed)))

\* Faulty form: s is not required to be below Order.
VerifyAnyS(pub, m, signature) ==
  LET rs == SubSeq(signature, 1, KeyOctets)
      ss == SubSeq(signature, KeyOctets + 1, 2 * KeyOctets)
  IN  Eagerly(LAMBDA p : p[1].ok /\ p[2].ok /\ Meets(p[1].point, p[2].point, ss, rs \o pub \o m),
              <<PointDecompress(pub), PointDecompress(rs)>>)

\* The equation of the signature, for points that decompress and s below Order.
EdVerify(pub, m, signature) ==
  LET rs == SubSeq(signature, 1, KeyOctets)
      ss == SubSeq(signature, KeyOctets + 1, 2 * KeyOctets)
  IN  Eagerly(LAMBDA p : /\ p[1].ok /\ p[2].ok
                         /\ ~gte_q(load_32_bytes(ss))
                         /\ Meets(p[1].point, p[2].point, ss, rs \o pub \o m),
              <<PointDecompress(pub), PointDecompress(rs)>>)
=============================================================================
