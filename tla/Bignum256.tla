----------------------------- MODULE Bignum256 -----------------------------
(***************************************************************************)
(* Hacl_Bignum256.c: the algorithms of Bignum unrolled for integers of     *)
(* four words, without Karatsuba, behind entry points that check their     *)
(* arguments, and a context that keeps what a modulus needs.               *)
(***************************************************************************)
EXTENDS Words

CONSTANTS ShortExponent, WindowBits

B == INSTANCE Bignum WITH KaratsubaMin <- 5

Bits == 4 * WordBits
None == Zeros(4)

Add(a, b) == B!AddEqLen(a, b)
Sub(a, b) == B!SubEqLen(a, b)
AddMod(n, a, b) == B!AddModN(n, a, b)
SubMod(n, a, b) == B!SubModN(n, a, b)
Mul(a, b) == B!Mul(a, b)
Sqr(a) == B!Sqr(a)

PrecompR2(nBits, n) == B!PrecompR2(nBits, n)
Reduction(n, mu, c) == B!MontReduction(n, mu, c)
AReduction(n, mu, c) == B!AlmostMontReduction(n, mu, c)
AMontMul(n, mu, a, b) == AReduction(n, mu, Mul(a, b))
AMontSqr(n, mu, a) == AReduction(n, mu, Sqr(a))

\* Faulty form: the factor that undoes the first reduction is left out.
SlowPrecompOnce(n, mu, r2, a) == Reduction(n, mu, AReduction(n, mu, a) \o None)

\* a mod n for a of eight words.
SlowPrecomp(n, mu, r2, a) == Reduction(n, mu, Mul(AReduction(n, mu, a), r2))

\* All ones when a < b; when a = b.
LessMask(a, b) == B!LtMask(a, b)
EqualMask(a, b) == FoldSeq(LAMBDA i, m : m & EqMask(a[i], b[i]), AllOnes, <<1, 2, 3, 4>>)

ValidModulus(n) == Minus(0, n[1] & 1) & LessMask(One(4), n)
ExpCheck(n, a, bBits, b) == B!CheckModExp(n, a, bBits, b)

\* What is known of a modulus: a power of two no greater, and the inverse.
Context(n) ==
  [n |-> n, r2 |-> PrecompR2(WordBits * B!TopIndex(n), n), mu |-> B!ModInvLimb(n[1])]

MontCtxInit(n) == Context(n)

ModPrecomp(k, a) == SlowPrecomp(k.n, k.mu, k.r2, a)
ExpVartimePrecomp(k, a, bBits, b) ==
  B!ModExpVartimePrecomp(k.n, k.mu, k.r2, a, bBits, b)
ExpConsttimePrecomp(k, a, bBits, b) ==
  B!ModExpConsttimePrecomp(k.n, k.mu, k.r2, a, bBits, b)

MinusTwo(n) == Sub(n, <<2, 0, 0, 0>>).out
InvPrimePrecomp(k, a) == ExpVartimePrecomp(k, a, Bits, MinusTwo(k.n))

\* The answer, or zero and a failure when the arguments are refused.
Checked(mask, result) ==
  IF mask = AllOnes THEN [ok |-> TRUE, out |-> result] ELSE [ok |-> FALSE, out |-> None]

Mod(n, a) == Checked(ValidModulus(n), ModPrecomp(Context(n), a))
ModExpVartime(n, a, bBits, b) ==
  Checked(ExpCheck(n, a, bBits, b), ExpVartimePrecomp(Context(n), a, bBits, b))
ModExpConsttime(n, a, bBits, b) ==
  Checked(ExpCheck(n, a, bBits, b), ExpConsttimePrecomp(Context(n), a, bBits, b))
ModInvPrimeVartime(n, a) ==
  Checked(ValidModulus(n) & Compl(EqualMask(a, None)) & LessMask(a, n),
          InvPrimePrecomp(Context(n), a))

\* No octets make no bignum.
NewFromBytesBE(b) == IF b = <<>> THEN <<>> ELSE B!FromBytesBE(b)
NewFromBytesLE(b) == IF b = <<>> THEN <<>> ELSE B!FromBytesBE(Reverse(b))
ToBytesBE(a) == B!ToBytesBE(4 * WordOctets, a)
ToBytesLE(a) == Reverse(ToBytesBE(a))
=============================================================================
