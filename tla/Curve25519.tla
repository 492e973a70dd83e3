----------------------------- MODULE Curve25519 -----------------------------
(***************************************************************************)
(* Hacl_Curve25519_51.c: X25519 over the curve y^2 = x^3 + A x^2 + x, by   *)
(* the Montgomery ladder on x and z alone.  Elements of the field are      *)
(* their values (Field25519 has the limbs); a scalar and a coordinate are  *)
(* octets, least significant first.  The parameters stand for 2^255 - 19,  *)
(* 256 bits, (486662 - 2) / 4 and 9.                                       *)
(***************************************************************************)
EXTENDS Words

CONSTANTS
  Prime,         \* of the field: 2^(KeyBits - 1) - 19
  KeyBits,       \* the bits of a scalar and of a coordinate
  A24, BaseU,
  InverseRuns    \* finv's chain: run k of it squares run i for each bit of
                 \* run j and multiplies by run j

KeyOctets == KeyBits \div OctetBits
ZeroKey == Zeros(KeyOctets)

Mul(a, b) == (a * b) % Prime
Sqr(a) == (a * a) % Prime
Sum(a, b) == (a + b) % Prime
Diff(a, b) == (a - b) % Prime

fsquare_times(a, n) == Loop(n, a, LAMBDA s, i : Sqr(s))

\* z^(2^n - 1) for the last n of the chain, which begins at 2^5 - 1.
LongestRun(z5) ==
  Eagerly(LAMBDA chain : chain[Len(chain)].z,
          Loop(Len(InverseRuns), <<[n |-> 5, z |-> z5]>>, LAMBDA s, k :
            LET a == s[InverseRuns[k][1]]
                b == s[InverseRuns[k][2]]
            IN  Append(s, [n |-> a.n + b.n, z |-> Mul(fsquare_times(a.z, b.n), b.z)])))

\* i^(Prime - 2): the inverse of i, and 0 for 0.
finv(i) ==
  LET WithEleven(z9, z11) == Mul(fsquare_times(LongestRun(Mul(Sqr(z11), z9)), 5), z11)
  IN  Eagerly(LAMBDA z9 : WithEleven(z9, Mul(z9, Sqr(i))), Mul(fsquare_times(Sqr(i), 2), i))

-----------------------------------------------------------------------------
(* The ladder.  A point is <<x, z>>.                                       *)

Double(p) ==
  LET aa == Sqr(Sum(p[1], p[2]))
      bb == Sqr(Diff(p[1], p[2]))
      e == Diff(aa, bb)
  IN  <<Mul(aa, bb), Mul(e, Sum(Mul(e, A24), aa))>>

\* 2 * nq and nq + nq1, whose difference is the point with coordinate u.
point_add_and_double(u, nq, nq1) ==
  LET da == Mul(Diff(nq1[1], nq1[2]), Sum(nq[1], nq[2]))
      cb == Mul(Sum(nq1[1], nq1[2]), Diff(nq[1], nq[2]))
  IN  <<Double(nq), <<Sqr(Sum(da, cb)), Mul(Sqr(Diff(da, cb)), u)>>>>

Swap(bit, r) == IF bit = 1 THEN <<r[2], r[1]>> ELSE r

KeyBit(k, i) == (k[i \div OctetBits + 1] \div 2 ^ (i % OctetBits)) % 2

LadderStep(u, bit, r) == [r |-> point_add_and_double(u, r[1], r[2]), swap |-> bit]

\* The bit below the top one is taken as set whatever the key says; the three
\* lowest and the top one are unread.
LadderMain(key, u) ==
  Loop(KeyBits - 5, LadderStep(u, 1, Swap(1, <<<<1, 0>>, <<u, 1>>>>)), LAMBDA s, i :
    Eagerly(LAMBDA bit : LadderStep(u, bit, Swap((s.swap + bit) % 2, s.r)),
            KeyBit(key, KeyBits - 2 - i)))

\* Faulty form: the swap of the last bit is not undone.
LadderLeftSwapped(key, u) ==
  Loop(3, LadderMain(key, u).r[1], LAMBDA p, i : Double(p))

\* The three lowest bits of the scalar are clear: three doublings.
montgomery_ladder(key, u) ==
  Loop(3, Eagerly(LAMBDA end : Swap(end.swap, end.r)[1], LadderMain(key, u)),
       LAMBDA p, i : Double(p))

encode_point(p) == StoreLE(Mul(finv(p[2]), p[1]), KeyOctets)

\* The coordinate without its top bit, and not required to be below Prime.
scalarmult(priv, pub) ==
  encode_point(montgomery_ladder(priv, LoadLE(pub) % 2 ^ (KeyBits - 1)))

secret_to_public(priv) == scalarmult(priv, StoreLE(BaseU, KeyOctets))

\* Faulty form: the shared secret of a point of small order is accepted.
EcdhAnyPoint(priv, pub) == [ok |-> TRUE, out |-> scalarmult(priv, pub)]

ecdh(priv, pub) ==
  Eagerly(LAMBDA out : [ok |-> out # ZeroKey, out |-> out], scalarmult(priv, pub))
=============================================================================
