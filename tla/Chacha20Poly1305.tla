-------------------------- MODULE Chacha20Poly1305 --------------------------
(***************************************************************************)
(* The authenticated encryption of Hacl_Chacha20Poly1305_32.c.  The stream *)
(* cipher works on words of StreamBits bits, half the authenticator's.     *)
(***************************************************************************)
EXTENDS Poly1305

CONSTANTS StreamBits, ChachaConstants, DoubleRounds, ChachaRotations

Stream == INSTANCE Chacha20 WITH WordBits <- StreamBits

KeyOctets == 2 * PolyOctets
NonceOctets == 3 * (StreamBits \div OctetBits)

\* Blocks of text, the last filled up with zeros.
poly1305_padded_32(ctx, text) ==
  LET n == Len(text) \div PolyOctets
      r == Len(text) % PolyOctets
  IN  FullBlocks(ctx, text \o Zeros((PolyOctets - r) % PolyOctets), IF r = 0 THEN n ELSE n + 1)

\* The tag of aad and m, each padded, and of their lengths.
poly1305_do_32(k, aad, m) ==
  LET lengths == StoreLE(Len(aad), WordOctets) \o StoreLE(Len(m), WordOctets)
  IN  Eagerly(LAMBDA ctx : poly1305_finish(k, poly1305_update1(ctx, lengths)),
              Loop(2, poly1305_init(k),
                   LAMBDA ctx, i : poly1305_padded_32(ctx, IF i = 1 THEN aad ELSE m)))

\* The authenticator's key: the first octets of the block at counter 0.
OneTimeKey(k, n) ==
  SubSeq(Stream!chacha20_encrypt(Zeros(Stream!StreamBlock), k, n, 0), 1, KeyOctets)

aead_encrypt(k, n, aad, m) ==
  Eagerly(LAMBDA cipher : [cipher |-> cipher, mac |-> poly1305_do_32(OneTimeKey(k, n), aad, cipher)],
          Stream!chacha20_encrypt(m, k, n, 1))

\* Faulty form: the last octet alone is compared.
SameTagLast(a, b) == a[Len(a)] = b[Len(b)]

\* Every octet is compared, whatever the first answers.
SameTag(a, b) ==
  Loop(Len(a), AllOnes, LAMBDA res, i : EqMask(a[i], b[i]) & res) = AllOnes

\* Status 0 and the plaintext, or status 1 and nothing written.
aead_decrypt(k, n, aad, cipher, mac) ==
  IF SameTag(poly1305_do_32(OneTimeKey(k, n), aad, cipher), mac)
    THEN [status |-> 0, m |-> Stream!chacha20_encrypt(cipher, k, n, 1)]
    ELSE [status |-> 1, m |-> Zeros(Len(cipher))]
=============================================================================
