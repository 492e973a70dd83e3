------------------------------- MODULE Bignum -------------------------------
(***************************************************************************)
(* Hacl_Bignum.c: integers as sequences of words, least significant first. *)
(* The C code has every function twice, for 32- and for 64-bit words; here *)
(* WordBits is a parameter.  A buffer that is updated in place is a value  *)
(* returned; a carry returned beside it is its field carry.                *)
(***************************************************************************)
EXTENDS Words

CONSTANTS
  KaratsubaMin,    \* fewest words multiplied by halves (32)
  ShortExponent,   \* exponents of fewer bits are taken bit by bit (200)
  WindowBits       \* bits of a longer exponent taken at once (4)

\* What an instance's parameters satisfy.
BignumAssumption ==
  /\ KaratsubaMin >= 2 /\ ShortExponent \in Nat
  /\ WindowBits \in 1..WordBits /\ WordBits % WindowBits = 0

-----------------------------------------------------------------------------
(* Conversion.                                                             *)

WordsFor(len) == (len - 1) \div WordOctets + 1

FromBytesBE(b) ==
  LET n == WordsFor(Len(b))
      padded == Zeros(n * WordOctets - Len(b)) \o b
  IN  Buffer([i \in 1..n |->
         LoadBE(SubSeq(padded, (n - i) * WordOctets + 1, (n - i + 1) * WordOctets))])

ToBytesBE(len, a) ==
  LET n == WordsFor(len)
      all == FlattenSeq([i \in 1..n |-> StoreBE(a[n + 1 - i], WordOctets)])
  IN  SubSeq(all, n * WordOctets - len + 1, n * WordOctets)

\* The index, from 0, of the highest word that is not zero.
TopIndex(a) ==
  Loop(Len(a), 0, LAMBDA top, i : Choose(EqMask(a[i], 0), top, i - 1))

-----------------------------------------------------------------------------
(* Addition, subtraction, comparison.                                      *)

SubEqLen(a, b) == Ripple(SubBorrowWide, 0, a, b)

AddEqLen(a, b) == Ripple(AddCarryWide, 0, a, b)

\* a + w, the carry out of the top word dropped.
AddWord(a, w) == AddEqLen(a, [Zeros(Len(a)) EXCEPT ![1] = w]).out

\* All ones when a < b, by the highest word in which they differ.
LtMask(a, b) ==
  Loop(Len(a), 0, LAMBDA acc, i :
         Choose(EqMask(a[i], b[i]), acc, Compl(GteMask(a[i], b[i]))))

\* Faulty form: the carry out of the sum is forgotten.
AddModNoCarry(n, a, b) ==
  Eagerly(LAMBDA s : Eagerly(LAMBDA d : ChooseAll(Minus(0, d.carry), s.out, d.out),
                             SubEqLen(s.out, n)),
          AddEqLen(a, b))

AddModN(n, a, b) ==
  Eagerly(LAMBDA s : Eagerly(LAMBDA d : ChooseAll(Minus(s.carry, d.carry), s.out, d.out),
                             SubEqLen(s.out, n)),
          AddEqLen(a, b))

SubModN(n, a, b) ==
  Eagerly(LAMBDA s : ChooseAll(Minus(0, s.carry), AddEqLen(s.out, n).out, s.out),
          SubEqLen(a, b))

-----------------------------------------------------------------------------
(* Multiplication.                                                         *)

Mul(a, b) ==
  Loop(Len(b), Zeros(Len(a) + Len(b)),
       LAMBDA res, j : Eagerly(LAMBDA row : [row.out EXCEPT ![Len(a) + j] = row.carry],
                               AddScaled(res, j - 1, a, b[j])))

\* Products of different words once, doubled, and the squares added.
Sqr(a) ==
  Eagerly(
    LAMBDA mixed :
      AddEqLen(AddEqLen(mixed, mixed).out,
               FlattenSeq([i \in DOMAIN a |-> <<(a[i] * a[i]) % Base, (a[i] * a[i]) \div Base>>])).out,
    Loop(Len(a), Zeros(2 * Len(a)),
         LAMBDA res, j : Eagerly(LAMBDA row : [row.out EXCEPT ![2 * j - 1] = row.carry],
                                 AddScaled(res, j - 1, SubSeq(a, 1, j - 1), a[j]))))

\* |x - y|, and whether x < y as the carry.
AbsDiff(x, y) ==
  Eagerly(LAMBDA d : [out |-> ChooseAll(Minus(0, d.carry), SubEqLen(y, x).out, d.out),
                      carry |-> d.carry],
          SubEqLen(x, y))

\* The product from its ends and its middle, of Len(mid) words and a carry,
\* which goes half way up.
Recombine(ends, mid, carry) ==
  LET n == Len(mid)
      h == n \div 2
  IN  Eagerly(LAMBDA r : SubSeq(ends, 1, h) \o r.out
                \o AddWord(SubSeq(ends, h + n + 1, 2 * n), Plus(carry, r.carry)),
              AddEqLen(SubSeq(ends, h + 1, h + n), mid))

\* Faulty form: the middle always loses the product of the differences.
MiddleOneSign(sign, sum, cross) ==
  Eagerly(LAMBDA less : [out |-> less.out, carry |-> Minus(sum.carry, less.carry)],
          SubEqLen(sum.out, cross))

\* a0 b1 + a1 b0: the sum of the ends less the product of the differences, or
\* with it added when just one of them was negative.
Middle(sign, sum, cross) ==
  LET mask == Minus(0, sign)
      Either(more, less) ==
        [out |-> ChooseAll(mask, more.out, less.out),
         carry |-> Choose(mask, Plus(sum.carry, more.carry), Minus(sum.carry, less.carry))]
  IN  Eagerly(LAMBDA r : Either(r[1], r[2]), <<AddEqLen(sum.out, cross), SubEqLen(sum.out, cross)>>)

Whole(n) == n < KaratsubaMin \/ n % 2 = 1
Low(a) == SubSeq(a, 1, Len(a) \div 2)
High(a) == SubSeq(a, Len(a) \div 2 + 1, Len(a))

RECURSIVE KaratsubaMul(_, _)
KaratsubaMul(a, b) ==
  IF Whole(Len(a)) THEN Mul(a, b)
  ELSE Eagerly(
         LAMBDA p : Eagerly(LAMBDA mid : Recombine(p.low \o p.high, mid.out, mid.carry),
                            Middle(p.da.carry ^^ p.db.carry, AddEqLen(p.low, p.high),
                                   KaratsubaMul(p.da.out, p.db.out))),
         [da |-> AbsDiff(Low(a), High(a)), db |-> AbsDiff(Low(b), High(b)),
          low |-> KaratsubaMul(Low(a), Low(b)), high |-> KaratsubaMul(High(a), High(b))])

RECURSIVE KaratsubaSqr(_)
KaratsubaSqr(a) ==
  IF Whole(Len(a)) THEN Sqr(a)
  ELSE Eagerly(
         LAMBDA p : Eagerly(LAMBDA sum : Eagerly(LAMBDA mid :
                      Recombine(p.low \o p.high, mid.out, Minus(sum.carry, mid.carry)),
                      SubEqLen(sum.out, p.cross)), AddEqLen(p.low, p.high)),
         [low |-> KaratsubaSqr(Low(a)), high |-> KaratsubaSqr(High(a)),
          cross |-> KaratsubaSqr(AbsDiff(Low(a), High(a)).out)])

-----------------------------------------------------------------------------
(* Montgomery arithmetic modulo an odd n.                                  *)

\* Minus the inverse of n0 modulo Base, bit by bit.
ModInvLimb(n0) ==
  Loop(WordBits, [u |-> 1, v |-> 0],
       LAMBDA s, i :
         LET odd == Minus(0, s.u & 1)
             n == n0 & odd
         IN  [u |-> Plus(ShiftRight(s.u ^^ n, 1), s.u & n),
              v |-> Plus(ShiftRight(s.v, 1), 2 ^ (WordBits - 1) & odd)]).v

\* All ones for an odd modulus above one.
CheckModulus(n) == Minus(0, n[1] & 1) & LtMask(One(Len(n)), n)

\* 2^(2 * WordBits * Len(n)) mod n: 2^nBits, which is below n, doubled.
PrecompR2(nBits, n) ==
  Loop(2 * WordBits * Len(n) - nBits, PowerOfTwo(Len(n), nBits),
       LAMBDA r, i : AddModN(n, r, r))

\* A multiple of n is added that clears the low half of c, word by word.
ClearLow(n, nInv, c) ==
  Loop(Len(n), [out |-> c, carry |-> 0],
       LAMBDA s, i :
         Eagerly(LAMBDA row : Eagerly(LAMBDA r :
                   [out |-> [row.out EXCEPT ![Len(n) + i] = r.out], carry |-> r.carry],
                   AddCarryWide(s.carry, row.carry, s.out[Len(n) + i])),
                 AddScaled(s.out, i - 1, n, (nInv * s.out[i]) % Base)))

MontReduction(n, nInv, c) ==
  Eagerly(LAMBDA s : Eagerly(LAMBDA d : ChooseAll(Minus(s.carry, d.carry), High(s.out), d.out),
                             SubEqLen(High(s.out), n)),
          ClearLow(n, nInv, c))

ToMont(n, nInv, r2, a) == MontReduction(n, nInv, KaratsubaMul(a, r2))

FromMont(n, nInv, a) == MontReduction(n, nInv, a \o Zeros(Len(a)))

MontMul(n, nInv, a, b) == MontReduction(n, nInv, KaratsubaMul(a, b))

MontSqr(n, nInv, a) == MontReduction(n, nInv, KaratsubaSqr(a))

\* The result fits the words but may be n or more.
AlmostMontReduction(n, nInv, c) ==
  Eagerly(LAMBDA s : ChooseAll(Minus(0, s.carry), SubEqLen(High(s.out), n).out, High(s.out)),
          ClearLow(n, nInv, c))

AlmostMontMul(n, nInv, a, b) == AlmostMontReduction(n, nInv, KaratsubaMul(a, b))

AlmostMontSqr(n, nInv, a) == AlmostMontReduction(n, nInv, KaratsubaSqr(a))

-----------------------------------------------------------------------------
(* Exponentiation: a^b mod n.                                              *)

\* All ones when n is a modulus, b has no more than bBits bits and a < n.
CheckModExp(n, a, bBits, b) ==
  LET bLen == IF bBits = 0 THEN 1 ELSE (bBits - 1) \div WordBits + 1
      short == IF bBits < WordBits * bLen THEN LtMask(b, PowerOfTwo(bLen, bBits))
               ELSE AllOnes
  IN  CheckModulus(n) & short & LtMask(a, n)

MontOne(n, mu, r2) == FromMont(n, mu, r2)

BinaryVartime(n, mu, r2, aM, bBits, b) ==
  Loop(bBits, [r |-> MontOne(n, mu, r2), a |-> aM],
       LAMBDA s, i :
         [r |-> IF BitOf(b, i - 1) = 1 THEN AlmostMontMul(n, mu, s.r, s.a) ELSE s.r,
          a |-> AlmostMontSqr(n, mu, s.a)]).r

\* Montgomery ladder: the two values are swapped when the bit changes.
BinaryConsttime(n, mu, r2, aM, bBits, b) ==
  LET Swap(mask, s) == [s EXCEPT !.r = ChooseAll(mask, s.a, s.r),
                                 !.a = ChooseAll(mask, s.r, s.a)]
      Step(bit, s) == [r |-> AlmostMontSqr(n, mu, s.r), a |-> AlmostMontMul(n, mu, s.a, s.r),
                       sw |-> bit]
  IN  Eagerly(LAMBDA end : Swap(Minus(0, end.sw), end).r,
        Loop(bBits, [r |-> MontOne(n, mu, r2), a |-> aM, sw |-> 0],
             LAMBDA p, i : Eagerly(LAMBDA bit : Step(bit, Swap(Minus(0, bit ^^ p.sw), p)),
                                   BitOf(b, bBits - i))))

\* Powers 0 .. 2^WindowBits - 1 of a.
PowerTable(n, mu, r2, aM) ==
  Loop(2 ^ WindowBits - 2, <<MontOne(n, mu, r2), aM>>,
       LAMBDA t, i : Append(t, AlmostMontMul(n, mu, t[i + 1], aM)))

\* Bits i .. i + WindowBits - 1 of b.
Window(b, i) ==
  LET w == i \div WordBits + 1
      j == i % WordBits
      low == ShiftRight(b[w], j)
      all == IF w < Len(b) /\ j > 0 THEN low | ShiftLeft(b[w + 1], WordBits - j)
             ELSE low
  IN  all % 2 ^ WindowBits

LookupVartime(table, k) == table[k + 1]

\* Every entry is read, and kept when its index is the one wanted.
LookupConsttime(table, k) ==
  Loop(Len(table) - 1, table[1],
       LAMBDA r, i : ChooseAll(EqMask(k, i), table[i + 1], r))

\* The bits above the last whole window first, then window by window.
Windowed(n, mu, r2, aM, bBits, b, Lookup(_, _)) ==
  LET whole == bBits \div WindowBits
  IN  Eagerly(LAMBDA table :
        Loop(whole,
             IF bBits % WindowBits = 0 THEN table[1] ELSE Lookup(table, Window(b, whole * WindowBits)),
             LAMBDA r, i : AlmostMontMul(n, mu,
                             Loop(WindowBits, r, LAMBDA s, j : AlmostMontSqr(n, mu, s)),
                             Lookup(table, Window(b, (whole - i) * WindowBits)))),
        PowerTable(n, mu, r2, aM))

ModExpVartimePrecomp(n, mu, r2, a, bBits, b) ==
  Eagerly(LAMBDA r : FromMont(n, mu, r),
    Eagerly(LAMBDA aM : IF bBits < ShortExponent THEN BinaryVartime(n, mu, r2, aM, bBits, b)
                        ELSE Windowed(n, mu, r2, aM, bBits, b, LookupVartime),
            ToMont(n, mu, r2, a)))

ModExpConsttimePrecomp(n, mu, r2, a, bBits, b) ==
  Eagerly(LAMBDA r : FromMont(n, mu, r),
    Eagerly(LAMBDA aM : IF bBits < ShortExponent THEN BinaryConsttime(n, mu, r2, aM, bBits, b)
                        ELSE Windowed(n, mu, r2, aM, bBits, b, LookupConsttime),
            ToMont(n, mu, r2, a)))

\* nBits: a power of two below n; here the index of its highest bit.
ModExpVartime(nBits, n, a, bBits, b) ==
  ModExpVartimePrecomp(n, ModInvLimb(n[1]), PrecompR2(nBits, n), a, bBits, b)

ModExpConsttime(nBits, n, a, bBits, b) ==
  ModExpConsttimePrecomp(n, ModInvLimb(n[1]), PrecompR2(nBits, n), a, bBits, b)
=============================================================================
