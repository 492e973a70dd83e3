------------------------------- MODULE RSAPSS -------------------------------
(***************************************************************************)
(* Hacl_RSAPSS.c over Bignum: loading keys, RSASSA-PSS encoding, signing   *)
(* and verification.  Lengths in bits and octets as the C code has them;   *)
(* one hash, as the bindings only ask for SHA-256.                         *)
(***************************************************************************)
EXTENDS Bignum

CONSTANTS
  Hash(_), HashLen,   \* a digest of HashLen octets
  TrailerOctet,       \* 0xbc
  MaxLength           \* the greatest uint32_t

WordsOfBits(bits) == (bits - 1) \div WordBits + 1
OctetsOfBits(bits) == (bits - 1) \div OctetBits + 1

-----------------------------------------------------------------------------
(* Keys: the modulus, 2^(2 * WordBits * words) modulo it, and exponents.   *)

\* All ones when b has no more than bits bits.
CheckNumBits(bits, b) ==
  IF bits = WordBits * Len(b) THEN AllOnes
  ELSE LtMask(b, PowerOfTwo(Len(b), bits))

\* All ones for an odd modulus of exactly bits bits.
CheckModulusBits(bits, n) ==
  Minus(0, n[1] & 1) & LtMask(PowerOfTwo(Len(n), bits - 1), n) & CheckNumBits(bits, n)

CheckExponent(bits, e) ==
  Compl(FoldSeq(LAMBDA w, m : m & EqMask(w, 0), AllOnes, e)) & CheckNumBits(bits, e)

LoadPkey(modBits, eBits, nb, eb) ==
  LET Key(n, e) == [ok |-> CheckModulusBits(modBits, n) & CheckExponent(eBits, e) = AllOnes,
                    n |-> n, r2 |-> PrecompR2(modBits - 1, n), e |-> e]
  IN  Eagerly(LAMBDA k : Key(k[1], k[2]), <<FromBytesBE(nb), FromBytesBE(eb)>>)

LoadSkey(modBits, eBits, dBits, nb, eb, db) ==
  LET Key(pkey, d) == [ok |-> pkey.ok /\ CheckExponent(dBits, d) = AllOnes, pkey |-> pkey, d |-> d]
  IN  Eagerly(LAMBDA k : Key(k[1], k[2]), <<LoadPkey(modBits, eBits, nb, eb), FromBytesBE(db)>>)

\* The size checks of the allocating loaders; a failed one returns no key.
NewLoadPkey(modBits, eBits, nb, eb) ==
  IF /\ 1 < modBits /\ 0 < eBits
     /\ 2 * WordsOfBits(modBits) <= MaxLength - WordsOfBits(eBits)
  THEN LoadPkey(modBits, eBits, nb, eb) ELSE [ok |-> FALSE]

NewLoadSkey(modBits, eBits, dBits, nb, eb, db) ==
  IF /\ 1 < modBits /\ 0 < eBits /\ 0 < dBits
     /\ 2 * WordsOfBits(modBits) <= MaxLength - WordsOfBits(eBits) - WordsOfBits(dBits)
  THEN LoadSkey(modBits, eBits, dBits, nb, eb, db) ELSE [ok |-> FALSE]

-----------------------------------------------------------------------------
(* Encoding.                                                               *)

Mgf(seed, maskLen) ==
  LET n == (maskLen - 1) \div HashLen + 1
  IN  SubSeq(Loop(n, <<>>, LAMBDA acc, i : acc \o Hash(seed \o StoreBE(i - 1, 4))),
             1, maskLen)

XorAll(s, t) == Buffer([i \in DOMAIN s |-> s[i] ^^ t[i]])

\* The first octet without the bits above emBits.
ClearTop(emBits, db) ==
  LET ms == emBits % OctetBits
  IN  IF ms > 0 THEN <<db[1] % 2 ^ ms>> \o Tail(db) ELSE db

SaltedHash(salt, msg) == Hash(Zeros(8) \o Hash(msg) \o salt)

\* Faulty form: the bits above emBits are left set.
PssEncodeLoose(salt, msg, emBits) ==
  LET h == SaltedHash(salt, msg)
      dbLen == OctetsOfBits(emBits) - HashLen - 1
      db == Zeros(dbLen - Len(salt) - 1) \o <<1>> \o salt
  IN  XorAll(db, Mgf(h, dbLen)) \o h \o <<TrailerOctet>>

PssEncode(salt, msg, emBits) ==
  LET h == SaltedHash(salt, msg)
      dbLen == OctetsOfBits(emBits) - HashLen - 1
      db == Zeros(dbLen - Len(salt) - 1) \o <<1>> \o salt
  IN  ClearTop(emBits, XorAll(db, Mgf(h, dbLen))) \o h \o <<TrailerOctet>>

\* Faulty form: the zero octets before the salt are not looked at.
PssVerifyNoPad(saltLen, msg, emBits, em) ==
  LET emLen == OctetsOfBits(emBits)
      dbLen == emLen - HashLen - 1
      h == SubSeq(em, dbLen + 1, dbLen + HashLen)
      db == ClearTop(emBits, XorAll(SubSeq(em, 1, dbLen), Mgf(h, dbLen)))
      padLen == dbLen - saltLen
  IN  /\ emLen >= saltLen + HashLen + 2
      /\ em[emLen] = TrailerOctet
      /\ db[padLen] = 1
      /\ h = SaltedHash(SubSeq(db, padLen + 1, dbLen), msg)

PssVerify(saltLen, msg, emBits, em) ==
  LET emLen == OctetsOfBits(emBits)
      ms == emBits % OctetBits
      dbLen == emLen - HashLen - 1
      h == SubSeq(em, dbLen + 1, dbLen + HashLen)
      db == ClearTop(emBits, XorAll(SubSeq(em, 1, dbLen), Mgf(h, dbLen)))
      padLen == dbLen - saltLen
  IN  /\ emLen >= saltLen + HashLen + 2
      /\ em[emLen] = TrailerOctet
      /\ ms > 0 => em[1] < 2 ^ ms
      /\ SubSeq(db, 1, padLen) = Zeros(padLen - 1) \o <<1>>
      /\ h = SaltedHash(SubSeq(db, padLen + 1, dbLen), msg)

-----------------------------------------------------------------------------
(* Signatures.                                                             *)

SaltFits(saltLen) == saltLen <= MaxLength - HashLen - 8

\* The signature is undone before it is given out: a faulty one is zeroed.
RsapssSign(modBits, eBits, dBits, skey, salt, msg) ==
  LET key == skey.pkey
      n == key.n
      Out(ok, s) == [ok |-> ok, sgnt |-> ToBytesBE(OctetsOfBits(modBits),
                                                   IF ok THEN s ELSE Zeros(Len(n)))]
      Signed(mu, m) ==
        Eagerly(LAMBDA s : Out(ModExpVartimePrecomp(n, mu, key.r2, s, eBits, key.e) = m, s),
                ModExpConsttimePrecomp(n, mu, key.r2, m, dBits, skey.d))
  IN  IF SaltFits(Len(salt)) /\ Len(salt) + HashLen + 2 <= OctetsOfBits(modBits - 1)
      THEN Eagerly(LAMBDA em : Signed(ModInvLimb(n[1]), em \o Zeros(Len(n) - Len(em))),
                   FromBytesBE(PssEncode(salt, msg, modBits - 1)))
      ELSE [ok |-> FALSE, sgnt |-> Zeros(OctetsOfBits(modBits))]

\* The power must leave the bits above the encoding clear.
RsapssVerify(modBits, eBits, pkey, saltLen, sgnt, msg) ==
  LET n == pkey.n
      emBits == modBits - 1
      Encoded(m) ==
        /\ emBits % OctetBits = 0 => BitOf(m, emBits) = 0
        /\ PssVerify(saltLen, msg, emBits, ToBytesBE(OctetsOfBits(emBits), m))
      Accepted(s) ==
        /\ LtMask(s, n) = AllOnes
        /\ Eagerly(Encoded,
             ModExpVartimePrecomp(n, ModInvLimb(n[1]), pkey.r2, s, eBits, pkey.e))
  IN  /\ SaltFits(saltLen)
      /\ Len(sgnt) = OctetsOfBits(modBits)
      /\ Eagerly(Accepted, FromBytesBE(sgnt))

SkeySign(modBits, eBits, dBits, nb, eb, db, salt, msg) ==
  Eagerly(LAMBDA skey : IF skey.ok THEN RsapssSign(modBits, eBits, dBits, skey, salt, msg)
                        ELSE [ok |-> FALSE, sgnt |-> Zeros(OctetsOfBits(modBits))],
          LoadSkey(modBits, eBits, dBits, nb, eb, db))

PkeyVerify(modBits, eBits, nb, eb, saltLen, sgnt, msg) ==
  Eagerly(LAMBDA pkey : pkey.ok /\ RsapssVerify(modBits, eBits, pkey, saltLen, sgnt, msg),
          LoadPkey(modBits, eBits, nb, eb))
=============================================================================
