------------------------------- MODULE Words --------------------------------
(***************************************************************************)
(* Machine words of the vendored HACL* code: wrapping arithmetic, the      *)
(* constant-time masks, carries, 128-bit integers as pairs of words, and   *)
(* octets.  The width is a parameter: WordBits stands for 64 (or 32), half *)
(* of it for 32, OctetBits for 8.                                          *)
(***************************************************************************)
EXTENDS Integers, Sequences, SequencesExt

CONSTANTS WordBits, OctetBits

\* What an instance's parameters satisfy.
WordAssumption ==
  /\ WordBits \in Nat \ {0} /\ OctetBits \in 1..WordBits
  /\ WordBits % OctetBits = 0

Base == 2 ^ WordBits
Word == 0..(Base - 1)
WordOctets == WordBits \div OctetBits
Octet == 0..(2 ^ OctetBits - 1)
AllOnes == Base - 1

\* Op(v), with v computed before Op looks at it: TLC computes what it takes
\* from a set.
The(singleton) == CHOOSE r \in singleton : TRUE
Eagerly(Op(_), v) == The({Op(x) : x \in {v}})

\* for (i = 1; i <= n; i++) s = Step(s, i).
Loop(n, s0, Step(_, _)) ==
  The({LET after[i \in 0..n] == IF i = 0 THEN start
                                ELSE The({Step(s, i) : s \in {after[i - 1]}})
       IN  after[n] : start \in {s0}})

\* A function on 1..n as a tuple, whose elements TLC has computed.
Buffer(f) == f \o <<>>

Compl(x) == AllOnes - x
Plus(x, y) == (x + y) % Base
Minus(x, y) == (x - y) % Base
ShiftLeft(x, s) == (x * 2 ^ s) % Base
ShiftRight(x, s) == x \div 2 ^ s

-----------------------------------------------------------------------------
(* Bitwise operators, bit by bit from the lowest: for the words here they  *)
(* take far fewer steps than those of the community module.                *)

RECURSIVE And(_, _)
And(x, y) == IF x = 0 \/ y = 0 THEN 0
             ELSE 2 * And(x \div 2, y \div 2) + (x % 2) * (y % 2)

x & y == And(x, y)
x | y == x + y - And(x, y)
x ^^ y == x + y - 2 * And(x, y)

-----------------------------------------------------------------------------
(* Masks: all ones for true, zero for false.                               *)

ZeroMask(x) == Minus(ShiftRight(x | Plus(Compl(x), 1), WordBits - 1), 1)
EqMask(a, b) == ZeroMask(a ^^ b)

\* Faulty form: the sign of the difference, which is wrong for words that
\* differ in the top bit.
GteMaskBySign(a, b) == Minus(ShiftRight(Minus(a, b), WordBits - 1), 1)

\* The top bit of the difference, with what a borrow into it changes.
BorrowBit(a, b) == ShiftRight(a ^^ ((a ^^ b) | (Minus(a, b) ^^ b)), WordBits - 1)

GteMask(a, b) == Minus(BorrowBit(a, b), 1)

\* (mask & x) | (~mask & y), for words and for sequences of them.
Choose(mask, x, y) == (mask & x) | (Compl(mask) & y)
ChooseAll(mask, s, t) == Buffer([i \in DOMAIN s |-> Choose(mask, s[i], t[i])])

-----------------------------------------------------------------------------
(* Carries.  The portable forms are those of the build: it defines neither *)
(* HACL_CAN_COMPILE_INTRINSICS nor HACL_CAN_COMPILE_UINT128.               *)

\* Faulty form: a word that comes out equal has not wrapped.
AddCarryLax(c, x, y) ==
  Eagerly(LAMBDA r : [out |-> r, carry |-> Compl(GteMask(r, x)) & 1],
          Plus(Plus(x, c), y))

AddCarry(c, x, y) ==
  Eagerly(LAMBDA r : [out |-> r, carry |-> (Compl(GteMask(r, x)) | (EqMask(r, x) & c)) & 1],
          Plus(Plus(x, c), y))

\* The borrow out, of a word r that comes out of x, equal masking r = x.
BorrowOut(c, x, r, equal) == ((GteMask(r, x) & Compl(equal)) | (equal & c)) & 1

SubBorrow(c, x, y) ==
  Eagerly(LAMBDA r : [out |-> r, carry |-> BorrowOut(c, x, r, EqMask(r, x))],
          Minus(Minus(x, y), c))

Split(v) == [out |-> v % Base, carry |-> v \div Base]

\* Hacl_IntTypes_Intrinsics_add_carry_u32, through a wider type.
AddCarryWide(c, x, y) == Split(x + c + y)

SubBorrowWide(c, x, y) ==
  [out |-> (x - y - c) % Base, carry |-> ((x - y - c) \div Base) % 2]

MulWideAdd2(a, b, c, out) == Split(a * b + c + out)

-----------------------------------------------------------------------------
(* Integers of several words, least significant first.                     *)

Zeros(n) == Loop(n, <<>>, LAMBDA s, i : Append(s, 0))
One(n) == [Zeros(n) EXCEPT ![1] = 1]
Value(a) == Loop(Len(a), 0, LAMBDA v, i : v * Base + a[Len(a) + 1 - i])
BitOf(b, i) == (b[i \div WordBits + 1] \div 2 ^ (i % WordBits)) % 2
PowerOfTwo(n, i) ==
  [Zeros(n) EXCEPT ![i \div WordBits + 1] = 2 ^ (i % WordBits)]

\* From word to word, with carry or borrow c into the first.
Appended(s, word) == [out |-> Append(s.out, word.out), carry |-> word.carry]
Ripple(Op(_, _, _), c, a, b) ==
  Loop(Len(a), [out |-> <<>>, carry |-> c],
       LAMBDA s, i : Appended(s, Op(s.carry, a[i], b[i])))

\* res + a * w at word at + 1: one row of the schoolbook product.
Placed(s, k, word) == [out |-> [s.out EXCEPT ![k] = word.out], carry |-> word.carry]
AddScaled(res, at, a, w) ==
  Loop(Len(a), [out |-> res, carry |-> 0],
       LAMBDA s, i : Placed(s, at + i, MulWideAdd2(a[i], w, s.carry, s.out[at + i])))

-----------------------------------------------------------------------------
(* FStar_UInt128_Verified.h: 128-bit integers without compiler support.    *)

Wide == [low : Word, high : Word]
WideValue(a) == a.high * Base + a.low

Carry128(a, b) == BorrowBit(a, b)

Add128(a, b) ==
  Eagerly(LAMBDA low : [low |-> low, high |-> Plus(Plus(a.high, b.high), Carry128(low, b.low))],
          Plus(a.low, b.low))

Sub128(a, b) ==
  Eagerly(LAMBDA low : [low |-> low, high |-> Minus(Minus(a.high, b.high), Carry128(a.low, low))],
          Minus(a.low, b.low))

ShiftLeft128(a, s) ==
  CASE s = 0 -> a
    [] s \in 1..(WordBits - 1) ->
         [low |-> ShiftLeft(a.low, s),
          high |-> Plus(ShiftLeft(a.high, s), ShiftRight(a.low, WordBits - s))]
    [] OTHER -> [low |-> 0, high |-> ShiftLeft(a.low, s - WordBits)]

ShiftRight128(a, s) ==
  CASE s = 0 -> a
    [] s \in 1..(WordBits - 1) ->
         [low |-> Plus(ShiftRight(a.low, s), ShiftLeft(a.high, WordBits - s)),
          high |-> ShiftRight(a.high, s)]
    [] OTHER -> [low |-> ShiftRight(a.high, s - WordBits), high |-> 0]

\* FStar_UInt128_gt, _lt, _gte and _lte
Gt128(a, b) == a.high > b.high \/ (a.high = b.high /\ a.low > b.low)
Gte128(a, b) == a = b \/ Gt128(a, b)

Both(m) == [low |-> m, high |-> m]
EqMask128(a, b) == Both(EqMask(a.low, b.low) & EqMask(a.high, b.high))

GteMask128(a, b) ==
  Both((GteMask(a.high, b.high) & Compl(EqMask(a.high, b.high)))
         | (EqMask(a.high, b.high) & GteMask(a.low, b.low)))

\* The product from half words, each partial sum within a word.
MulWide128(x, y) ==
  LET half == 2 ^ (WordBits \div 2)
      xl == x % half    xh == x \div half
      yl == y % half    yh == y \div half
      cross == Plus(xh * yl, (xl * yl) \div half)
      mid == Plus(xl * yh, cross % half)
  IN  [low |-> Plus((xl * yl) % half, Plus(mid * half, 0)),
       high |-> Plus(Plus(xh * yh, cross \div half), mid \div half)]

-----------------------------------------------------------------------------
(* Octets.                                                                 *)

LoadLE(b) == Loop(Len(b), 0, LAMBDA v, i : v * 2 ^ OctetBits + b[Len(b) + 1 - i])
StoreLE(x, n) ==
  Buffer([i \in 1..n |-> (x \div 2 ^ (OctetBits * (i - 1))) % 2 ^ OctetBits])
LoadBE(b) == LoadLE(Reverse(b))
StoreBE(x, n) == Reverse(StoreLE(x, n))
=============================================================================
