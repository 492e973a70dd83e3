---------------------------- MODULE MCAsymmetric ----------------------------
(***************************************************************************)
(* Key exchange and signatures on small fields: 2^15 - 19 is prime and     *)
(* stands for 2^255 - 19, 199 for the P-256 prime (words of two bits), and *)
(* the RSA moduli have 12 and 15 bits, in words of six and octets of       *)
(* three.                                                                  *)
(***************************************************************************)
EXTENDS KeyArithmetic

Digits(v, base, n) == [i \in 1..n |-> (v \div base ^ (i - 1)) % base] \o <<>>
BigEndian(v, base, n) == Reverse(Digits(v, base, n))
Mixed(o, a, b, m) ==
  LET mix[i \in 0..Len(o)] == IF i = 0 THEN a ELSE (mix[i - 1] * b + o[i] * 5 + 3) % m
  IN  mix[Len(o)]

Runs == <<<<1, 1>>>>
EdHash(o) == Digits(Mixed(o, 7, 17, 65521), 2, 16) \o Digits(Mixed(o, 9, 29, 65519), 2, 16)

P256Mont(v) == Digits((v * 256) % 199, 4, 4)
AMont == P256Mont(196)
BMont == P256Mont(40)
XMont == P256Mont(3)
YMont == P256Mont(43)
N4 == Digits(179, 4, 4)
N4One == Digits(256 - 179, 4, 4)
N4K0 == 1
P256Digest(m) == BigEndian(Mixed(m, 11, 37, 251), 2, 8)
NistLike == [p |-> 199, a2 |-> 0, a4 |-> 196, a6 |-> 40]
NistBase == <<3, 43>>
MontgomeryLike == [p |-> 32749, a2 |-> 362, a4 |-> 1, a6 |-> 0]

RsaDigest(m) == <<Mixed(m, 1, 5, 61) % 8>>

-----------------------------------------------------------------------------
(* Inputs.                                                                 *)

X25519Key(v) == Digits(v, 2, 16)
P256Key(v) == BigEndian(v, 2, 8)
Rsa12 == [n |-> BigEndian(2773, 8, 4), e |-> <<3>>, d |-> BigEndian(1779, 8, 4)]
Rsa15 == [n |-> BigEndian(17947, 8, 5), e |-> <<3>>, d |-> BigEndian(11787, 8, 5)]
\* As DER has a modulus whose first bit is set.
RsaPadded == [Rsa12 EXCEPT !.n = <<0>> \o @]

Secrets ==
  [kind : {"x25519"}, key : {X25519Key(v) : v \in {7, 1234, 65535}}]
    \cup [kind : {"p256"}, key : {P256Key(v) : v \in {2, 179, 255}}]
    \cup [kind : {"ed25519"}, key : {X25519Key(7), X25519Key(1234)}]
    \cup [kind : {"ecdsa"}, key : {P256Key(5), P256Key(178)}]
    \cup [kind : {"rsa"}, key : {Rsa12, Rsa15, RsaPadded}]

\* Small orders, coordinates not below the prime, the unread bit, and a length.
X25519Peers ==
  {X25519Key(v) : v \in {0, 1, 2, 32748, 32749, 32750, 32767, 32777, 41}} \cup {<<1>>}

\* The base point, its opposite, one off the curve, one of a curve with as many
\* points, coordinates not below the prime, a compressed point's tag, and a length.
P256Share(tag, x, y) == <<tag>> \o P256Key(x) \o P256Key(y)
P256Peers ==
  {P256Share(4, 3, 43), P256Share(4, 3, 156), P256Share(4, 3, 44), P256Share(4, 8, 31),
   P256Share(4, 202, 43), P256Share(4, 3, 242), P256Share(4, 0, 0), P256Share(2, 3, 43), <<4>>}

Messages == {<<>>, <<1>>, <<0, 1, 1>>}
Nonces == {P256Key(v) : v \in {0, 1, 90, 179, 255}}
Salts == {<<>>, <<5>>, <<0, 7>>, <<1, 2, 3>>}

\* One octet changed: the first and last of each half of a signature.
BaseOf(kind) == IF kind = "rsa" THEN 8 ELSE 2
FlipAt(o, i, base) == [o EXCEPT ![i] = (@ + 1) % base]
Ends(o) == {1, Len(o) \div 2, Len(o) \div 2 + 1, Len(o)}

Altered(s) ==
  {s, [s EXCEPT !.out = Tail(@)]}
    \cup {[s EXCEPT !.out = FlipAt(@, i, BaseOf(s.kind))] : i \in Ends(s.out)}
    \cup {[s EXCEPT !.msg = m] : m \in Messages}

AlteredEd25519(s) ==
  LET half == SubSeq(s.out, 17, 32)
      value == E!LoadLE(half)
  IN  \* s + Order, and the keys of the identity and of no point.
      {[s EXCEPT !.out = SubSeq(@, 1, 16) \o X25519Key(value + EdOrder)]}
        \cup {[s EXCEPT !.pub = X25519Key(v)] : v \in {0, 1, 2, 32769, 32749}}

AlteredEcdsa(s) ==
  {[s EXCEPT !.pub = q] : q \in P256Peers}
    \cup {[s EXCEPT !.out = P256Key(r) \o P256Key(z)] : r \in {0, 179}, z \in {0, 1, 180}}

AlteredRsa(s) ==
  {[s EXCEPT !.salt = t] : t \in Salts}
    \cup {[s EXCEPT !.pub.n = FlipAt(@, Len(@), 8)], [s EXCEPT !.pub.e = <<0>>],
          [s EXCEPT !.pub.e = <<0, 3>>]}
    \cup {[s EXCEPT !.out = BigEndian(v, 8, Len(@))] : v \in 0..60}

\* Every signature is verified; of the many ECDSA signatures one is altered.
Variations(s) ==
  CASE s.kind = "none" -> {}
    [] s.kind = "ed25519" -> Altered(s) \cup AlteredEd25519(s)
    [] s.kind = "ecdsa" -> IF s.k = P256Key(90) /\ s.msg = <<1>>
                           THEN Altered(s) \cup AlteredEcdsa(s) ELSE {s}
    [] s.kind = "rsa" -> Altered(s) \cup AlteredRsa(s)

\* Operands around the limits of each routine.
LimbOperands ==
  {<<0, 0, 0, 0, 0>>, <<5, 7, 7, 7, 7>>, <<4, 7, 7, 7, 7>>, <<7, 9, 7, 7, 7>>,
   <<6, 7, 7, 7, 7>>, <<1, 2, 3, 4, 5>>, <<3, 9, 6, 1, 7>>}
Operands ==
  [words |-> (0..15) \X (0..15),
   doublewords |-> {0, 1, 15, 16, 17, 119, 240, 254, 255} \X {0, 1, 3, 4, 15, 16, 118, 240, 255},
   bignum |-> {0, 1, 255, 256, 3855, 4080, 23045} \X {0, 1, 271, 4095, 15, 23046, 28672},
   power |-> {1, 4, 63, 90, 127} \X {0, 1, 2, 100, 200},
   bignum256 |-> {0, 1, 5, 50, 2037, 2047} \X {0, 1, 2, 10, 11, 1000, 4075, 4095},
   limbs |-> LimbOperands \X LimbOperands,
   scalars |-> {0, 1, 2, 4110, 4111, 4112, 32767, 65535} \X {0, 1, 4110, 2055, 1023, 700},
   p256 |-> {0, 1, 3, 196, 198} \X {0, 1, 43, 197, 198}]

OperandsOf(routine) ==
  CASE routine = "words" -> Operands.words
    [] routine = "double words" -> Operands.doublewords
    [] routine = "bignum" -> Operands.bignum
    [] routine = "power" -> Operands.power
    [] routine = "bignum256" -> Operands.bignum256
    [] routine = "limbs" -> Operands.limbs
    [] routine = "scalars" -> Operands.scalars
    [] routine = "p256" -> Operands.p256
    [] routine = "none" -> {}

\* One exchange or one signature, and one verification.
First == exchange = Quiet /\ signature = Quiet
Others == IF own.kind = "x25519" THEN {X25519Key(v) : v \in {0, 40000}}
          ELSE {P256Key(v) : v \in {0, 178}}
Peers == IF own.kind = "x25519" THEN X25519Peers ELSE P256Peers

\* The two machines share nothing: each runs with the other at rest.
AsymmetricInit ==
  \/ KeysInit(Secrets) /\ ArithmeticInit({"none"})
  \/ KeysInit({[kind |-> "none"]}) /\ ArithmeticInit(Routines)

AsymmetricNext ==
  \/ \E b \in Others : First /\ Agree(b) /\ UNCHANGED task
  \/ \E peer \in Peers : First /\ Meet(peer) /\ UNCHANGED task
  \/ \E msg \in Messages : First /\ SignEd25519(msg) /\ UNCHANGED task
  \/ \E msg \in {<<>>, <<1>>}, k \in Nonces : First /\ SignEcdsa(msg, k) /\ UNCHANGED task
  \/ \E salt \in Salts, msg \in Messages : First /\ SignRsa(salt, msg) /\ UNCHANGED task
  \/ \E s \in Variations(signature) : verdict = Quiet /\ Verify(s) /\ UNCHANGED task
  \/ \E o \in OperandsOf(task.routine) : Calculate(o[1], o[2]) /\ UNCHANGED keyVars

AsymmetricSpec == AsymmetricInit /\ [][AsymmetricNext]_<<keyVars, task>>
=============================================================================
