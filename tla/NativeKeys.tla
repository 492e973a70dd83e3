----------------------------- MODULE NativeKeys -----------------------------
(***************************************************************************)
(* The native entry points of kroopt for key exchange and signatures:      *)
(* kroopt_ffi.c over HACL*, and the answers RealProvider.submit makes of   *)
(* them.  Each checks its lengths first and fills what it refuses with     *)
(* zeros behind a status octet.  A step is one exchange of key shares, one *)
(* share of any octets, one signature, or one verification of a signature  *)
(* with any of its inputs altered.                                         *)
(***************************************************************************)
EXTENDS KeyAlgebra, SequencesExt

CONSTANTS
  MaxInput,                                             \* UINT32_MAX
  EdWordBits, EdOctetBits, Prime, KeyBits, A24, BaseU, InverseRuns,
  EdD, SqrtM1, EdX, EdY, EdOrder, EdOrderMu, EdOrderLimbs, OrderLimbBits,
  ReduceIn, ReduceOut, EdWindow, Hash512(_),
  P256WordBits, P256OctetBits, CurveA, CurveB, BaseX, BaseY,
  P256Order, P256OrderOne, P256OrderK0, P256Hash(_),
  RsaWordBits, RsaOctetBits, KaratsubaMin, ShortExponent, WindowBits,
  RsaHash(_), HashLen, TrailerOctet,
  \* The same curves for the reference: [p, a2, a4, a6], a base point, its order.
  P256Curve, P256Base, P256N, MontgomeryCurve, NonResidue

E == INSTANCE Ed25519 WITH WordBits <- EdWordBits, OctetBits <- EdOctetBits,
       Order <- EdOrder, OrderMu <- EdOrderMu, OrderLimbs <- EdOrderLimbs
P == INSTANCE P256 WITH WordBits <- P256WordBits, OctetBits <- P256OctetBits,
       Order <- P256Order, OrderOne <- P256OrderOne, OrderK0 <- P256OrderK0,
       MessageHash <- P256Hash
R == INSTANCE RSAPSS WITH WordBits <- RsaWordBits, OctetBits <- RsaOctetBits,
       Hash <- RsaHash, MaxLength <- MaxInput

Fits(a) == Len(a) <= MaxInput
ZeroFill(n) == [i \in 1..n |-> 0] \o <<>>
Answer(ok, out) == [status |-> IF ok THEN 0 ELSE 1, out |-> IF ok THEN out ELSE ZeroFill(Len(out))]
Refusal(n) == [status |-> 1, out |-> ZeroFill(n)]

-----------------------------------------------------------------------------
(* Key exchange.                                                           *)

x25519_public(priv) == IF Len(priv) # E!KeyOctets THEN <<>> ELSE E!secret_to_public(priv)

x25519_shared(priv, peer) ==
  IF Len(priv) # E!KeyOctets \/ Len(peer) # E!KeyOctets THEN Refusal(E!KeyOctets)
  ELSE P!Eagerly(LAMBDA r : Answer(r.ok, r.out), E!ecdh(priv, peer))

\* A share is 4 and the two coordinates.
p256_public(priv) ==
  IF Len(priv) # P!FieldOctets THEN <<>>
  ELSE P!Eagerly(LAMBDA r : IF r.ok THEN <<4>> \o r.result ELSE <<>>, P!EcdhInitiate(priv))

UncompressedPoint(o) == Len(o) = 2 * P!FieldOctets + 1 /\ o[1] = 4

\* The shared secret is the first coordinate.
p256_shared(priv, peer) ==
  IF Len(priv) # P!FieldOctets \/ ~UncompressedPoint(peer) THEN Refusal(P!FieldOctets)
  ELSE P!Eagerly(LAMBDA r : Answer(r.ok, SubSeq(r.result, 1, P!FieldOctets)),
                 P!EcdhRespond(Tail(peer), priv))

Public(group, priv) == IF group = "x25519" THEN x25519_public(priv) ELSE p256_public(priv)
Shared(group, priv, peer) ==
  IF group = "x25519" THEN x25519_shared(priv, peer) ELSE p256_shared(priv, peer)

\* RealProvider's answer: who is at fault is told from its own public share.
EcdheAnswer(group, share, shared) ==
  IF shared.status = 0
  THEN [result |-> "ecdheComplete", share |-> share, secret |-> shared.out]
  ELSE [result |-> IF group = "p256" /\ share # <<>> THEN "peerInvalidKeyShare"
                   ELSE "providerInternal"]

Ecdhe(group, priv, peer) == EcdheAnswer(group, Public(group, priv), Shared(group, priv, peer))

-----------------------------------------------------------------------------
(* Signatures.                                                             *)

ed25519_public(priv) == IF Len(priv) # E!KeyOctets THEN <<>> ELSE E!EdSecretToPublic(priv)

ed25519_sign(priv, msg) ==
  IF Len(priv) # E!KeyOctets \/ ~Fits(msg) THEN <<>> ELSE E!EdSign(priv, msg)

ed25519_verify(pub, msg, sig) ==
  /\ Len(pub) = E!KeyOctets /\ Len(sig) = 2 * E!KeyOctets /\ Fits(msg)
  /\ E!EdVerify(pub, msg, sig)

ecdsa_p256_sign(m, priv, k) ==
  IF Len(priv) # P!FieldOctets \/ Len(k) # P!FieldOctets \/ ~Fits(m)
    THEN Refusal(2 * P!FieldOctets)
  ELSE P!Eagerly(LAMBDA r : Answer(r.ok, r.sig), P!EcdsaSign(m, priv, k))

ecdsa_p256_verify(m, pub, sigraw) ==
  /\ UncompressedPoint(pub) /\ Len(sigraw) = 2 * P!FieldOctets /\ Fits(m)
  /\ P!EcdsaVerify(m, Tail(pub), sigraw)

BitsOf(b) == Len(b) * RsaOctetBits

\* An RSA key is its modulus and exponents as octets; its length in bits is
\* taken from the number of octets.
rsapss_sign(nb, eb, db, salt, msg) ==
  IF nb = <<>> \/ eb = <<>> \/ db = <<>> \/ ~Fits(msg) THEN Refusal(Len(nb))
  ELSE P!Eagerly(LAMBDA skey :
         IF ~skey.ok THEN Refusal(Len(nb))
         ELSE P!Eagerly(LAMBDA r : Answer(r.ok, r.sgnt),
                R!RsapssSign(BitsOf(nb), BitsOf(eb), BitsOf(db), skey, salt, msg)),
         R!NewLoadSkey(BitsOf(nb), BitsOf(eb), BitsOf(db), nb, eb, db))

rsapss_verify(nb, eb, saltLen, sgnt, msg) ==
  /\ nb # <<>> /\ eb # <<>> /\ Fits(msg)
  /\ P!Eagerly(LAMBDA pkey :
       pkey.ok /\ R!RsapssVerify(BitsOf(nb), BitsOf(eb), pkey, saltLen, sgnt, msg),
       R!NewLoadPkey(BitsOf(nb), BitsOf(eb), nb, eb))

-----------------------------------------------------------------------------
(* Steps.                                                                  *)

VARIABLES own, exchange, signature, verdict

keyVars == <<own, exchange, signature, verdict>>
Quiet == [kind |-> "none"]

\* own is the secret of this side: a scalar for a group, or a signing key.
KeysInit(secrets) ==
  own \in secrets /\ exchange = Quiet /\ signature = Quiet /\ verdict = Quiet

\* The other party draws a secret, and each takes the other's share.
Agree(b) ==
  /\ own.kind \in {"x25519", "p256"}
  /\ exchange' = [kind |-> "both", group |-> own.kind,
                  answers |-> [side \in {<<own.key, b>>, <<b, own.key>>} |->
                                 Ecdhe(own.kind, side[1], Public(own.kind, side[2]))]]
  /\ UNCHANGED <<own, signature, verdict>>

\* A share of any octets arrives.
Meet(peer) ==
  /\ own.kind \in {"x25519", "p256"}
  /\ exchange' = [kind |-> "one", group |-> own.kind, a |-> own.key, peer |-> peer,
                  answer |-> Ecdhe(own.kind, own.key, peer)]
  /\ UNCHANGED <<own, signature, verdict>>

SignEd25519(msg) ==
  /\ own.kind = "ed25519"
  /\ signature' = [kind |-> "ed25519", pub |-> ed25519_public(own.key), msg |-> msg,
                   out |-> ed25519_sign(own.key, msg)]
  /\ UNCHANGED <<own, exchange, verdict>>

SignEcdsa(msg, k) ==
  /\ own.kind = "ecdsa"
  /\ signature' = [kind |-> "ecdsa", pub |-> p256_public(own.key), msg |-> msg, k |-> k]
                    @@ ecdsa_p256_sign(msg, own.key, k)
  /\ UNCHANGED <<own, exchange, verdict>>

\* An RSA key: n, e and d as octets.
SignRsa(salt, msg) ==
  /\ own.kind = "rsa"
  /\ signature' = [kind |-> "rsa", pub |-> [n |-> own.key.n, e |-> own.key.e],
                   msg |-> msg, salt |-> salt]
                    @@ rsapss_sign(own.key.n, own.key.e, own.key.d, salt, msg)
  /\ UNCHANGED <<own, exchange, verdict>>

VerifyBy(s) ==
  CASE s.kind = "ed25519" -> ed25519_verify(s.pub, s.msg, s.out)
    [] s.kind = "ecdsa" -> ecdsa_p256_verify(s.msg, s.pub, s.out)
    [] s.kind = "rsa" -> rsapss_verify(s.pub.n, s.pub.e, Len(s.salt), s.out, s.msg)

\* What was signed, or that with one part of it changed, is verified.
Verify(s) ==
  /\ verdict' = [kind |-> s.kind, of |-> s, accepted |-> VerifyBy(s)]
  /\ UNCHANGED <<own, exchange, signature>>

-----------------------------------------------------------------------------
(* What the answers are compared with: integers and affine points.         *)

Clamped(priv) ==
  LET k == E!LoadLE(priv) IN 2 ^ (KeyBits - 2) + (k % 2 ^ (KeyBits - 2)) - (k % 8)

\* A coordinate lies on the curve or, multiplied by a non-residue, on its twist.
X25519Of(k, u) ==
  LET c == MontgomeryCurve
      RightSide(v, x) == ((((((x + v.a2) % v.p) * x) + v.a4) % v.p) * x) % v.p
      twist == [c EXCEPT !.a2 = (@ * NonResidue) % c.p, !.a4 = (NonResidue * NonResidue) % c.p]
      Roots(v, x) == {y \in 0..(c.p \div 2) : (y * y) % c.p = RightSide(v, x)}
      onTwist == PowerMod(RightSide(c, u), (c.p - 1) \div 2, c.p) = c.p - 1
      curve == IF onTwist THEN twist ELSE c
      x0 == IF onTwist THEN (u * NonResidue) % c.p ELSE u
      r == TimesOn(curve, k, <<x0, CHOOSE y \in Roots(curve, x0) : TRUE>>)
      x == IF r = <<>> THEN 0 ELSE r[1]
  IN  IF onTwist THEN (x * InverseMod(NonResidue, c.p)) % c.p ELSE x

P256Point(o) == LET half == Len(o) \div 2
                IN  <<P!LoadBE(SubSeq(o, 2, half + 1)), P!LoadBE(SubSeq(o, half + 2, Len(o)))>>
P256Times(k, q) == TimesOn(P256Curve, k % P256N, q)
P256Octets(v) == P!StoreBE(v, P!FieldOctets)
P256Scalar(o) == P!LoadBE(o)

PublicReference(group, priv) ==
  IF group = "x25519" THEN E!StoreLE(X25519Of(Clamped(priv), BaseU), E!KeyOctets)
  ELSE LET q == P256Times(P256Scalar(priv), P256Base)
       IN  IF q = <<>> THEN <<>> ELSE <<4>> \o P256Octets(q[1]) \o P256Octets(q[2])

\* The secret of a share, or none: a share that is no point, or of small order.
SecretReference(group, priv, peer) ==
  IF group = "x25519"
  THEN LET u == X25519Of(Clamped(priv), (E!LoadLE(peer) % 2 ^ (KeyBits - 1)) % Prime)
       IN  IF Len(peer) # E!KeyOctets \/ u = 0 THEN <<>> ELSE E!StoreLE(u, E!KeyOctets)
  ELSE LET q == P256Times(P256Scalar(priv), P256Point(peer))
       IN  IF ~UncompressedPoint(peer) THEN <<>>
           ELSE IF ~OnCurve(P256Curve, P256Point(peer)) THEN <<>>
           ELSE IF q = <<>> THEN <<>> ELSE P256Octets(q[1])

ReferenceAnswer(group, priv, peer) ==
  LET Blamed(share) == IF group = "p256" /\ share # <<>> THEN "peerInvalidKeyShare"
                       ELSE "providerInternal"
      Answered(share, secret) ==
        IF secret = <<>> THEN [result |-> Blamed(share)]
        ELSE [result |-> "ecdheComplete", share |-> share, secret |-> secret]
  IN  Answered(PublicReference(group, priv), SecretReference(group, priv, peer))

EcdsaReference(priv, msg, k) ==
  LET n == P256N
      kG == P256Times(P256Scalar(k), P256Base)
      r == IF kG = <<>> THEN 0 ELSE kG[1] % n
      z == P!LoadBE(P256Hash(msg)) % n
  IN  [r |-> r, s |-> (InverseMod(P256Scalar(k), n) * ((z + (r * P256Scalar(priv))) % n)) % n]

EcdsaOctets(signed) == P256Octets(signed.r) \o P256Octets(signed.s)

EcdsaHolds(pub, msg, sig) ==
  LET n == P256N
      r == P!LoadBE(SubSeq(sig, 1, P!FieldOctets))
      s == P!LoadBE(SubSeq(sig, P!FieldOctets + 1, Len(sig)))
      w == InverseMod(s, n)
      z == P!LoadBE(P256Hash(msg)) % n
      x == SumOn(P256Curve, P256Times(z * w, P256Base), P256Times(r * w, P256Point(pub)))
  IN  /\ UncompressedPoint(pub) /\ Len(sig) = 2 * P!FieldOctets /\ Fits(msg)
      /\ OnCurve(P256Curve, P256Point(pub))
      /\ r \in 1..(n - 1) /\ s \in 1..(n - 1)
      /\ x # <<>> /\ x[1] % n = r

\* The points an encoding stands for: none or one.
EdwardsPoints(o) ==
  LET y == E!LoadLE(o) % 2 ^ (KeyBits - 1)
      parity == E!LoadLE(o) \div 2 ^ (KeyBits - 1)
      xs == {x \in 0..(Prime - 1) : x % 2 = parity /\ OnEdwards(Prime, EdD, <<x, y>>)}
  IN  IF y >= Prime THEN {} ELSE {<<x, y>> : x \in xs}

Ed25519Holds(pub, msg, sig) ==
  LET rs == SubSeq(sig, 1, E!KeyOctets)
      s == E!LoadLE(SubSeq(sig, E!KeyOctets + 1, Len(sig)))
      hash == Hash512(rs \o pub \o msg)
      h == (((E!LoadLE(SubSeq(hash, E!KeyOctets + 1, Len(hash))) % EdOrder)
               * (2 ^ KeyBits % EdOrder)) + (E!LoadLE(SubSeq(hash, 1, E!KeyOctets)) % EdOrder))
             % EdOrder
  IN  /\ Len(pub) = E!KeyOctets /\ Len(sig) = 2 * E!KeyOctets /\ Fits(msg)
      /\ s < EdOrder
      /\ \E a \in EdwardsPoints(pub), r \in EdwardsPoints(rs) :
           TimesOnEdwards(Prime, EdD, s, <<EdX, EdY>>)
             = SumOnEdwards(Prime, EdD, r, TimesOnEdwards(Prime, EdD, h, a))

RsaValue(o) == R!LoadBE(o)

\* The signature's power is an encoding of the message with some salt.
RsaHolds(pub, saltLen, msg, sig) ==
  LET n == RsaValue(pub.n)
      bits == BitsOf(pub.n)
      room == R!OctetsOfBits(bits - 1)
      Salts == [1..saltLen -> R!Octet]
  IN  /\ n % 2 = 1 /\ n > 2 ^ (bits - 1) /\ RsaValue(pub.e) # 0 /\ Fits(msg)
      /\ Len(sig) = Len(pub.n) /\ RsaValue(sig) < n
      /\ saltLen + HashLen + 2 <= room
      /\ \E salt \in Salts :
           RsaValue(R!PssEncode(salt \o <<>>, msg, bits - 1))
             = PowerMod(RsaValue(sig), RsaValue(pub.e), n)

-----------------------------------------------------------------------------
(* Properties.                                                             *)

\* An exchange gives what the group laws say, to both parties the same, and
\* refuses a share that is no point or of small order; a refusal is laid to the
\* peer only when the own secret is good.
SharedSecretsExact ==
  /\ exchange.kind = "one" =>
       exchange.answer = ReferenceAnswer(exchange.group, exchange.a, exchange.peer)
  /\ exchange.kind = "both" =>
       /\ \A side \in DOMAIN exchange.answers :
            exchange.answers[side] =
              ReferenceAnswer(exchange.group, side[1], PublicReference(exchange.group, side[2]))
       /\ \A x, y \in {s \in Range(exchange.answers) : s.result = "ecdheComplete"} :
            x.secret = y.secret

\* Whether the request s has a signature at all.
Givable(s) ==
  CASE s.kind = "ed25519" -> TRUE
    [] s.kind = "ecdsa" -> LET e == EcdsaReference(own.key, s.msg, s.k) IN e.r # 0 /\ e.s # 0
    [] s.kind = "rsa" ->
         /\ s.pub.n[1] >= 2 ^ (RsaOctetBits - 1)
         /\ Len(s.salt) + HashLen + 2 <= R!OctetsOfBits(BitsOf(s.pub.n) - 1)

\* What is signed verifies under the public key of the secret that signed it, and
\* a signature is refused only when there is none to give: an ECDSA nonce whose r
\* or s is zero, a salt that leaves no room, a key that is not one.
SignaturesVerify ==
  LET s == signature
  IN  s # Quiet =>
        IF Givable(s)
        THEN /\ s.kind # "ed25519" => s.status = 0
             /\ s.kind = "ecdsa" => s.out = EcdsaOctets(EcdsaReference(own.key, s.msg, s.k))
             /\ verdict # Quiet /\ verdict.of = s =>
                  verdict.accepted \/ (s.kind = "ecdsa" /\ s.pub = <<>>)
        ELSE s.status = 1

\* A signature is accepted exactly when the equation of its scheme holds: over
\* every part of it altered, and keys that are no point.
VerdictExact ==
  LET s == verdict.of
  IN  CASE verdict.kind = "ed25519" -> verdict.accepted <=> Ed25519Holds(s.pub, s.msg, s.out)
        [] verdict.kind = "ecdsa" -> verdict.accepted <=> EcdsaHolds(s.pub, s.msg, s.out)
        [] verdict.kind = "rsa" ->
             verdict.accepted <=> RsaHolds(s.pub, Len(s.salt), s.msg, s.out)
        [] OTHER -> verdict = Quiet
=============================================================================
