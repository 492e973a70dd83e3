------------------------------ MODULE Poly1305 ------------------------------
(***************************************************************************)
(* The one-time authenticator of Hacl_Poly1305_32.c: arithmetic modulo     *)
(* 2^(5*PolyBits) - 5 (PolyBits = 26 in the code) on five limbs, blocks of *)
(* two words of WordBits (64) bits.  The code's products of limbs and      *)
(* their sums stay below 2^64 and are integers here.                       *)
(***************************************************************************)
EXTENDS Words

CONSTANTS PolyBits, ClampLow, ClampHigh

PolyAssumption == 5 * PolyBits = 2 * WordBits + 2

PolyBase == 2 ^ PolyBits
PolyOctets == 2 * WordOctets       \* of a block, of a tag and of half a key

\* The limbs of the number <<lo, hi>>.
LimbsOf(lo, hi) ==
  LET Bits(x, from, n) == (x \div 2 ^ from) % 2 ^ n
      split == 3 * PolyBits - WordBits
  IN  <<Bits(lo, 0, PolyBits), Bits(lo, PolyBits, PolyBits),
        Bits(lo, 2 * PolyBits, WordBits - 2 * PolyBits)
          | ShiftLeft(Bits(hi, 0, split), WordBits - 2 * PolyBits),
        Bits(hi, split, PolyBits), hi \div 2 ^ (split + PolyBits)>>

Low(b) == LoadLE(SubSeq(b, 1, WordOctets))
High(b) == LoadLE(SubSeq(b, WordOctets + 1, PolyOctets))

\* A context: the accumulator and the clamped multiplier.
poly1305_init(key) ==
  [acc |-> Zeros(5), r |-> LimbsOf(Low(key) & ClampLow, High(key) & ClampHigh)]

\* (acc + e) * r: a limb past the fifth comes back five times.
MulAccumulator(ctx, e) ==
  LET a == Buffer([i \in 1..5 |-> ctx.acc[i] + e[i]])
      Term(i, j) == IF j <= i THEN ctx.r[i + 1 - j] * a[j] ELSE 5 * ctx.r[i + 6 - j] * a[j]
  IN  Buffer([i \in 1..5 |-> Term(i, 1) + Term(i, 2) + Term(i, 3) + Term(i, 4) + Term(i, 5)])

\* Two interleaved chains of carries, the second wrapping around times 5.
CarryRound(t) ==
  LET x1 == t[2] + t[1] \div PolyBase
      x4 == t[5] + t[4] \div PolyBase
      x01 == (t[1] % PolyBase) + 5 * (x4 \div PolyBase)
      x2 == t[3] + x1 \div PolyBase
      x31 == (t[4] % PolyBase) + x2 \div PolyBase
  IN  <<x01 % PolyBase, (x1 % PolyBase) + x01 \div PolyBase, x2 % PolyBase,
        x31 % PolyBase, (x4 % PolyBase) + x31 \div PolyBase>>

Absorb(ctx, e) == [ctx EXCEPT !.acc = CarryRound(MulAccumulator(ctx, e))]

\* A whole block, with the bit above it set.
poly1305_update1(ctx, text) ==
  Absorb(ctx, [LimbsOf(Low(text), High(text)) EXCEPT ![5] = @ | 2 ^ (2 * WordBits - 4 * PolyBits)])

FullBlocks(ctx, text, nb) ==
  Loop(nb, ctx, LAMBDA c, i :
    poly1305_update1(c, SubSeq(text, PolyOctets * (i - 1) + 1, PolyOctets * i)))

\* Whole blocks, then the rest with the bit just after its last octet.
poly1305_update(ctx, text) ==
  LET nb == Len(text) \div PolyOctets
      rem == Len(text) % PolyOctets
      tmp == SubSeq(text, PolyOctets * nb + 1, Len(text)) \o Zeros(PolyOctets - rem)
      bit == rem * OctetBits
      Rest(done) ==
        Absorb(done, [LimbsOf(Low(tmp), High(tmp)) EXCEPT ![bit \div PolyBits + 1] = @ | 2 ^ (bit % PolyBits)])
  IN  Eagerly(LAMBDA done : IF rem = 0 THEN done ELSE Rest(done), FullBlocks(ctx, text, nb))

\* One pass of carries, the last wrapping around times 5.
CarryPass(f) ==
  Eagerly(LAMBDA pass : [pass.out EXCEPT ![1] = @ + 5 * pass.c],
          Loop(5, [out |-> <<>>, c |-> 0], LAMBDA s, i :
            [out |-> Append(s.out, (f[i] + s.c) % PolyBase), c |-> (f[i] + s.c) \div PolyBase]))

\* Minus the prime when it is that or more, by a mask.
SubtractPrime(f) ==
  LET top == PolyBase - 1
      p == <<PolyBase - 5, top, top, top, top>>
  IN  Eagerly(LAMBDA mask : Buffer([i \in 1..5 |-> f[i] - (mask & p[i])]),
              Loop(4, GteMask(f[1], PolyBase - 5), LAMBDA m, i : m & EqMask(f[i + 1], top)))

\* The accumulator modulo the prime, plus the second half of the key.
poly1305_finish(key, ctx) ==
  LET ks == SubSeq(key, PolyOctets + 1, 2 * PolyOctets)
      Lower(f) == f[1] | ShiftLeft(f[2], PolyBits) | ShiftLeft(f[3], 2 * PolyBits)
      Upper(f) == ShiftRight(f[3], WordBits - 2 * PolyBits)
                    | ShiftLeft(f[4], 3 * PolyBits - WordBits)
                    | ShiftLeft(f[5], 4 * PolyBits - WordBits)
      AddKey(hi, r0) == StoreLE(r0, WordOctets)
        \o StoreLE(Plus(Plus(hi, High(ks)), BorrowBit(r0, Low(ks))), WordOctets)
  IN  Eagerly(LAMBDA f : AddKey(Upper(f), Plus(Lower(f), Low(ks))),
              SubtractPrime(CarryPass(CarryPass(ctx.acc))))

poly1305_mac(text, key) == poly1305_finish(key, poly1305_update(poly1305_init(key), text))
=============================================================================
