----------------------------- MODULE KeyAlgebra -----------------------------
(***************************************************************************)
(* Reference definitions: arithmetic modulo a prime below 2^15.5 and the   *)
(* group laws of the textbooks on affine points, against which the key     *)
(* exchange and the signatures are compared.  Nothing here is translated   *)
(* from the code.                                                          *)
(***************************************************************************)
EXTENDS Integers, Sequences

\* p applied to one from the bits of n, most significant first: n times p.
Repeated(Op(_, _), one, p, n) ==
  LET times[k \in Nat] ==
        IF k = 0 THEN one
        ELSE CHOOSE r \in {Op(s, IF k % 2 = 1 THEN p ELSE one) :
                             s \in {Op(h, h) : h \in {times[k \div 2]}}} : TRUE
  IN  times[n]

PowerMod(a, n, p) == Repeated(LAMBDA x, y : (x * y) % p, 1 % p, a % p, n)
InverseMod(a, p) == PowerMod(a, p - 2, p)

\* A curve y^2 = x^3 + c.a2 x^2 + c.a4 x + c.a6 modulo c.p; <<>> is infinity.
OnCurve(c, q) ==
  /\ q[1] < c.p /\ q[2] < c.p
  /\ (q[2] * q[2]) % c.p = (((((((q[1] + c.a2) % c.p) * q[1]) + c.a4) % c.p) * q[1]) + c.a6) % c.p

SumOn(c, q, r) ==
  LET slope ==
         IF q = r
         THEN ((((((3 * q[1] + 2 * c.a2) % c.p) * q[1]) + c.a4) % c.p)
                       * InverseMod(2 * q[2], c.p)) % c.p
         ELSE (((r[2] - q[2]) % c.p) * InverseMod((r[1] - q[1]) % c.p, c.p)) % c.p
      x == (slope * slope - c.a2 - q[1] - r[1]) % c.p
  IN  CASE q = <<>> -> r
        [] q # <<>> /\ r = <<>> -> q
        [] OTHER -> IF q[1] = r[1] /\ (q[2] + r[2]) % c.p = 0 THEN <<>>
                    ELSE <<x, ((slope * ((q[1] - x) % c.p)) - q[2]) % c.p>>

TimesOn(c, n, q) == Repeated(LAMBDA x, y : SumOn(c, x, y), <<>>, q, n)

\* The curve -x^2 + y^2 = 1 + d x^2 y^2 modulo p, whose identity is <<0, 1>>.
OnEdwards(p, d, q) ==
  LET xx == (q[1] * q[1]) % p  yy == (q[2] * q[2]) % p
  IN  (yy - xx) % p = (1 + (((d * xx) % p) * yy)) % p

SumOnEdwards(p, d, q, r) ==
  LET xx == (q[1] * r[1]) % p  yy == (q[2] * r[2]) % p
      t == (d * ((xx * yy) % p)) % p
      across == (((q[1] * r[2]) % p) + ((q[2] * r[1]) % p)) % p
  IN  <<(across * InverseMod(1 + t, p)) % p,
        (((yy + xx) % p) * InverseMod((1 - t) % p, p)) % p>>

TimesOnEdwards(p, d, n, q) ==
  Repeated(LAMBDA x, y : SumOnEdwards(p, d, x, y), <<0, 1>>, q, n)
=============================================================================
