----------------------------- MODULE Field25519 -----------------------------
(***************************************************************************)
(* Hacl_Bignum25519_51.h and the limb routines of Hacl_Ed25519.c: integers *)
(* modulo 2^255 - 19 as five limbs of 51 bits in words of 64.  Sums and    *)
(* differences leave the limbs unreduced; a product reduces its operands,  *)
(* and only store_felem and reduce make the representation unique.  The    *)
(* sizes are parameters: LimbBits for 51, FieldC for 19, PackBits (64) for *)
(* the words an element is packed into; the other words have WordBits.     *)
(***************************************************************************)
EXTENDS Words

CONSTANTS LimbBits, FieldC

FieldBits == 5 * LimbBits
PackBits == (FieldBits + 1) \div 4
LimbBase == 2 ^ LimbBits
LimbMask == LimbBase - 1
ZeroLimbs == Zeros(5)
OneLimbs == One(5)

\* What five limbs stand for, before reduction.
LimbValue(f) == Loop(5, 0, LAMBDA v, i : v * LimbBase + f[6 - i])

fadd(f, g) == Buffer([i \in 1..5 |-> Plus(f[i], g[i])])

\* Faulty form: without eight times the prime a limb may underflow.
FsubPlain(f, g) == Buffer([i \in 1..5 |-> Minus(f[i], g[i])])

fsub(f, g) ==
  Buffer([i \in 1..5 |->
            Minus(Plus(f[i], 8 * IF i = 1 THEN LimbBase - FieldC ELSE LimbMask), g[i])])

\* A carry out of the top, added FieldC times to the lowest limb.
Wrap(limbs, c) ==
  Eagerly(LAMBDA low : [limbs EXCEPT ![1] = low & LimbMask, ![2] = Plus(@, ShiftRight(low, LimbBits))],
          Plus(limbs[1], (c * FieldC) % Base))

\* Columns of a product, five double words, carried from limb to limb; what
\* leaves the top comes back FieldC times at the bottom.
CarryWide(cols) ==
  Eagerly(LAMBDA pass : Wrap(pass.out, pass.c),
          Loop(5, [out |-> <<>>, c |-> 0], LAMBDA s, i :
            LET l == cols[i] + s.c
            IN  [out |-> Append(s.out, l % LimbBase), c |-> (l \div LimbBase) % Base]))

\* Faulty form: the columns above the top come back once, not FieldC times.
FmulPlain(f, g) ==
  CarryWide(Buffer([k \in 1..5 |->
    FoldSeq(+, 0, [i \in 1..5 |-> f[i] * g[((k - i) % 5) + 1]])]))

fmul(f, g) ==
  Eagerly(LAMBDA wrapped :
            CarryWide(Buffer([k \in 1..5 |->
              FoldSeq(+, 0, [i \in 1..5 |->
                f[i] * (IF i <= k THEN g[k + 1 - i] ELSE wrapped[k + 6 - i])])])),
          Buffer([i \in 1..5 |-> (g[i] * FieldC) % Base]))

fmul2(f, g) == <<fmul(f[1], g[1]), fmul(f[2], g[2])>>

fmul1(f, w) == CarryWide(Buffer([i \in 1..5 |-> w * f[i]]))

\* The square: each mixed product once, from a doubled operand.
fsqr(f) ==
  LET d0 == (2 * f[1]) % Base          d1 == (2 * f[2]) % Base
      d2 == (2 * FieldC * f[3]) % Base d3 == (FieldC * f[4]) % Base
      d4 == (FieldC * f[5]) % Base     dd4 == (2 * d4) % Base
  IN  CarryWide(<<f[1] * f[1] + dd4 * f[2] + d2 * f[4],
                  d0 * f[2] + dd4 * f[3] + d3 * f[4],
                  d0 * f[3] + f[2] * f[2] + dd4 * f[4],
                  d0 * f[4] + d1 * f[3] + f[5] * d4,
                  d0 * f[5] + d1 * f[4] + f[3] * f[3]>>)

fsqr2(f) == <<fsqr(f[1]), fsqr(f[2])>>

-----------------------------------------------------------------------------
(* Reduction to the representation below the prime, and octets.            *)

\* One pass of carries over limbs of single words.
reduce_513(f) ==
  Eagerly(LAMBDA pass : Wrap(pass.out, pass.c),
          Loop(5, [out |-> <<>>, c |-> 0], LAMBDA s, i :
            LET l == Plus(f[i], s.c)
            IN  [out |-> Append(s.out, l & LimbMask), c |-> ShiftRight(l, LimbBits)]))

\* All ones when the limbs above the lowest are as great as they can be.
UpperOnes(r) == Loop(4, AllOnes, LAMBDA m, i : m & EqMask(r[i + 1], LimbMask))

\* The prime taken off under the mask m.
LessPrime(r, m) ==
  Buffer([i \in 1..5 |-> Minus(r[i], m & (IF i = 1 THEN LimbBase - FieldC ELSE LimbMask))])

\* Faulty form: the prime itself is taken for reduced.
ReduceAbove(f) ==
  Eagerly(LAMBDA r : LessPrime(r, Compl(GteMask(LimbBase - FieldC, r[1])) & UpperOnes(r)),
          reduce_513(f))

reduce(f) ==
  Eagerly(LAMBDA r : LessPrime(r, GteMask(r[1], LimbBase - FieldC) & UpperOnes(r)),
          reduce_513(f))

\* Word i takes its bits from the two limbs that it overlaps.
store_felem(f) ==
  LET Pack(x) == x % 2 ^ PackBits
      Skip(i) == PackBits * (i - 1) - LimbBits * (i - 1)
  IN  Eagerly(LAMBDA r :
        Buffer([i \in 1..4 |-> ShiftRight(r[i], Skip(i)) | Pack(r[i + 1] * 2 ^ (LimbBits - Skip(i)))]),
        reduce(f))

\* The four words, the top bit of the last one cleared, cut into limbs.
load_51(w) ==
  LET top == [w EXCEPT ![4] = @ % 2 ^ (PackBits - 1)]
      Have(i) == LimbBits * i - PackBits * (i - 1)
      Low(i) == IF i = 5 THEN 0 ELSE (top[i] % 2 ^ Have(i)) * 2 ^ (LimbBits - Have(i))
      High(i) == IF i = 1 THEN 0 ELSE ShiftRight(top[i - 1], Have(i - 1))
  IN  Buffer([i \in 1..5 |-> High(i) | Low(i)])

\* Both pairs of elements exchanged when bit is one.
cswap2(bit, p, q) ==
  LET mask == Minus(0, bit)
      D(j, i) == mask & (p[j][i] ^^ q[j][i])
      Swap(r) == Buffer([j \in 1..2 |-> Buffer([i \in 1..5 |-> r[j][i] ^^ D(j, i)])])
  IN  <<Swap(p), Swap(q)>>
=============================================================================
