---------------------------- MODULE NativeCrypto ----------------------------
(***************************************************************************)
(* The native entry points of kroopt for hashing, key derivation and       *)
(* authenticated encryption: kroopt_ffi.c over HACL*, kroopt_aesgcm.c over *)
(* EverCrypt.  Each checks every length first and answers with an empty    *)
(* array, or with a status octet and zeros, when it refuses.  The state is *)
(* that of the processor detection; the calls are seals and opens, in any  *)
(* order and with any mixture of keys, nonces and data.                    *)
(***************************************************************************)
EXTENDS HashFamilies, EverCrypt

CONSTANTS
  MaxInput,                          \* UINT32_MAX
  PolyWordBits, PolyBits, ClampLow, ClampHigh,
  StreamBits, ChachaConstants, DoubleRounds, ChachaRotations, AeadOctetBits,
  AesKeyOctets(_),                   \* key octets of each AES suite
  GcmNonceOctets

C == INSTANCE Chacha20Poly1305 WITH WordBits <- PolyWordBits, OctetBits <- AeadOctetBits

Fits(a) == Len(a) <= MaxInput
ZeroFill(n) == [i \in 1..n |-> 0] \o <<>>

-----------------------------------------------------------------------------
(* Hashes and key derivation.                                              *)

sha256(input) == IF Fits(input) THEN hash_256(input) ELSE <<>>
sha384(input) == IF Fits(input) THEN hash_384(input) ELSE <<>>
sha512(input) == IF Fits(input) THEN hash_512(input) ELSE <<>>

hmac256(key, msg) == IF Fits(key) /\ Fits(msg) THEN compute_sha2_256(key, msg) ELSE <<>>
hmac384(key, msg) == IF Fits(key) /\ Fits(msg) THEN compute_sha2_384(key, msg) ELSE <<>>

hkdf_extract256(salt, ikm) ==
  IF Fits(salt) /\ Fits(ikm) THEN extract_sha2_256(salt, ikm) ELSE <<>>
hkdf_extract384(salt, ikm) ==
  IF Fits(salt) /\ Fits(ikm) THEN compute_sha2_384(salt, ikm) ELSE <<>>

\* No bound on len: the counter octet wraps past 255 blocks.
hkdf_expand256(prk, info, len) ==
  IF Fits(prk) /\ Fits(info) THEN expand_sha2_256(prk, info, len) ELSE <<>>

\* Faulty form: each block is chained to the first one.
hkdf_expand384_unchained(prk, info, len) ==
  LET size == Wide!DigestOctets(sha2_384)
      first == compute_sha2_384(prk, info \o <<1>>)
      more == Wide!Loop((len - 1) \div size, first, LAMBDA okm, i :
                okm \o compute_sha2_384(prk, first \o info \o <<i + 1>>))
  IN  IF len > (2 ^ HashOctetBits - 1) * size THEN <<>>
      ELSE IF len = 0 THEN <<>> ELSE SubSeq(more, 1, len)

\* Faulty form: no bound on len.
hkdf_expand384_unbounded(prk, info, len) == Wide!HkdfExpand(sha2_384, prk, info, len)

\* kroopt's own loop: T(i) = HMAC(prk, T(i-1) | info | i) until done.
hkdf_expand384(prk, info, len) ==
  LET size == Wide!DigestOctets(sha2_384)
      Take(done) == IF len - done < size THEN len - done ELSE size
  IN  IF ~Fits(prk) \/ ~Fits(info) \/ len > (2 ^ HashOctetBits - 1) * size THEN <<>>
      ELSE Wide!Loop((len + size - 1) \div size, [T |-> <<>>, okm |-> <<>>], LAMBDA s, i :
             LET T == compute_sha2_384(prk, s.T \o info \o <<i>>)
             IN  [T |-> T, okm |-> s.okm \o SubSeq(T, 1, Take(Len(s.okm)))]).okm

-----------------------------------------------------------------------------
(* ChaCha20-Poly1305.                                                      *)

aead_seal(key, nonce, aad, pt) ==
  IF Len(key) # C!KeyOctets \/ Len(nonce) # C!NonceOctets \/ ~Fits(aad) \/ ~Fits(pt) THEN <<>>
  ELSE LET r == C!aead_encrypt(key, nonce, aad, pt) IN r.cipher \o r.mac

Refused == [status |-> 1, out |-> <<>>]

aead_open(key, nonce, aad, ctTag) ==
  LET mlen == Len(ctTag) - C!PolyOctets
  IN  IF \/ Len(key) # C!KeyOctets \/ Len(nonce) # C!NonceOctets
         \/ ~Fits(aad) \/ mlen < 0 \/ mlen > MaxInput
        THEN Refused
      ELSE LET r == C!aead_decrypt(key, nonce, aad, SubSeq(ctTag, 1, mlen),
                                   SubSeq(ctTag, mlen + 1, Len(ctTag)))
           IN  [status |-> r.status, out |-> IF r.status = 0 THEN r.m ELSE ZeroFill(mlen)]

-----------------------------------------------------------------------------
(* AES-GCM.                                                                *)

VARIABLES hw, config, g_autoconfig_done, sealed, submitted, last, derived

nativeVars == <<hw, config, g_autoconfig_done, sealed, submitted, last, derived>>

\* The configuration after ensure_autoconfig.
EnsuredConfig == IF g_autoconfig_done THEN config ELSE AutoConfigInit(config, hw)

\* A call that gets past its length checks detects the processor, once.
EnsureAutoconfig(lengthsRight) ==
  /\ config' = IF lengthsRight THEN EnsuredConfig ELSE config
  /\ g_autoconfig_done' = (g_autoconfig_done \/ lengthsRight)

SealLengths(alg, key, nonce, aad, pt) ==
  Len(key) = AesKeyOctets(alg) /\ Len(nonce) = GcmNonceOctets /\ Fits(aad) /\ Fits(pt)

gcm_seal(alg, key, nonce, aad, pt) ==
  LET st == create_in(EnsuredConfig, alg, key)
      r == encrypt(st.s, nonce, aad, pt)
  IN  IF ~SealLengths(alg, key, nonce, aad, pt) \/ st.code # "success" THEN <<>>
      ELSE r.cipher \o r.tag

OpenLengths(alg, key, nonce, aad, ctTag) ==
  /\ Len(key) = AesKeyOctets(alg) /\ Len(nonce) = GcmNonceOctets /\ Fits(aad)
  /\ Len(ctTag) >= GcmTagOctets /\ Len(ctTag) - GcmTagOctets <= MaxInput

\* Faulty form: what the assembly wrote is left when the tag is wrong.
gcm_open_leaks(alg, key, nonce, aad, ctTag) ==
  LET mlen == Len(ctTag) - GcmTagOctets
      st == create_in(EnsuredConfig, alg, key)
      r == decrypt(st.s, nonce, aad, SubSeq(ctTag, 1, mlen),
                   SubSeq(ctTag, mlen + 1, Len(ctTag)))
  IN  IF ~OpenLengths(alg, key, nonce, aad, ctTag) \/ st.code # "success" THEN Refused
      ELSE [status |-> IF r.code = "success" THEN 0 ELSE 1, out |-> r.plain]

gcm_open(alg, key, nonce, aad, ctTag) ==
  LET mlen == Len(ctTag) - GcmTagOctets
      st == create_in(EnsuredConfig, alg, key)
      r == decrypt(st.s, nonce, aad, SubSeq(ctTag, 1, mlen),
                   SubSeq(ctTag, mlen + 1, Len(ctTag)))
  IN  IF ~OpenLengths(alg, key, nonce, aad, ctTag) \/ st.code # "success" THEN Refused
      ELSE IF r.code = "success" THEN [status |-> 0, out |-> r.plain]
      ELSE [status |-> 1, out |-> ZeroFill(mlen)]

-----------------------------------------------------------------------------
(* Calls.  sealed is everything a seal has given out; submitted, last and  *)
(* derived are the last seal, open and derivation.                         *)

Quiet == [suite |-> "none"]

\* RealProvider.submit answers a seal with the array it is given, whatever it is.
SubmitSeal(out) == [result |-> "aeadSealed", ct |-> out]

NativeInit(processors) ==
  /\ hw \in processors /\ config = Unconfigured /\ g_autoconfig_done = FALSE
  /\ sealed = {} /\ submitted = Quiet /\ last = Quiet /\ derived = Quiet

Seal(suite, key, nonce, aad, pt) ==
  LET out == IF suite \in Aes THEN gcm_seal(suite, key, nonce, aad, pt)
             ELSE aead_seal(key, nonce, aad, pt)
  IN  /\ sealed' = sealed \cup (IF out = <<>> THEN {} ELSE
           {[suite |-> suite, key |-> key, nonce |-> nonce, aad |-> aad, pt |-> pt, out |-> out]})
      /\ submitted' = [suite |-> suite, out |-> out, answer |-> SubmitSeal(out)]
      /\ EnsureAutoconfig(suite \in Aes /\ SealLengths(suite, key, nonce, aad, pt))
      /\ UNCHANGED <<hw, last, derived>>

Open(suite, key, nonce, aad, ctTag) ==
  /\ last' = [suite |-> suite, key |-> key, nonce |-> nonce, aad |-> aad, ct |-> ctTag,
              answer |-> IF suite \in Aes THEN gcm_open(suite, key, nonce, aad, ctTag)
                         ELSE aead_open(key, nonce, aad, ctTag)]
  /\ EnsureAutoconfig(suite \in Aes /\ OpenLengths(suite, key, nonce, aad, ctTag))
  /\ UNCHANGED <<hw, sealed, submitted, derived>>

\* extract is HMAC: its answers stand for both.
Derive(key, info, len) ==
  /\ derived' = [suite |-> "kdf", key |-> key, info |-> info, len |-> len,
                 mac256 |-> hkdf_extract256(key, info), mac384 |-> hkdf_extract384(key, info),
                 mac512 |-> extract_sha2_512(key, info),
                 okm256 |-> hkdf_expand256(key, info, len),
                 okm384 |-> hkdf_expand384(key, info, len),
                 okm512 |-> expand_sha2_512(key, info, len)]
  /\ UNCHANGED <<hw, config, g_autoconfig_done, sealed, submitted, last>>

-----------------------------------------------------------------------------
(* Properties.                                                             *)

\* An open gives out a plaintext exactly when its octets are what a seal gave
\* for that plaintext under the same suite, key, nonce and data: for messages
\* of every number of blocks and of octets past them, for both providers.
OpensOnlySealed ==
  last # Quiet =>
    LET from == {r \in sealed : /\ r.suite = last.suite /\ r.key = last.key
                                /\ r.nonce = last.nonce /\ r.aad = last.aad
                                /\ r.out = last.ct}
    IN  /\ (last.answer.status = 0) <=> (from # {})
        /\ last.answer.status = 0 => \E r \in from : last.answer.out = r.pt

\* An open that fails leaves no octet of the plaintext in its answer, though
\* the assembly has written it before the tag was compared.
FailsClosed == last # Quiet /\ last.answer.status # 0 => \A i \in DOMAIN last.answer.out : last.answer.out[i] = 0

\* What the documents say of a seal that the native code refuses: the provider
\* reports a failure, which is fatal.
RefusedSealFails ==
  submitted # Quiet /\ submitted.out = <<>> => submitted.answer.result = "failed"

\* The derived octets are those of HMAC and HKDF defined on the hash of a whole
\* message: for keys shorter than a block, longer, and of a block, for no
\* message, one block and more, and for outputs of no digest, of one, of several
\* and of a part of one, up to the last block that the counter octet can number.
\* Beyond it hkdf_expand384 answers with nothing; the others wrap the counter, and
\* nothing is said of what they give.
KdfExact ==
  LET Xored(k, v) == [i \in DOMAIN k |-> k[i] ^^ v] \o <<>>
      Mac(Of(_), block, k, m) ==
        LET k0 == IF Len(k) > block THEN Of(k) ELSE k
            full == k0 \o ZeroFill(block - Len(k0))
        IN  Of(Xored(full, Wide!OuterPad) \o Of(Xored(full, Wide!InnerPad) \o m))
      Mac256(k, m) == Mac(hash_256, Narrow!BlockOctets, k, m)
      Mac384(k, m) == Mac(hash_384, Wide!BlockOctets, k, m)
      Mac512(k, m) == Mac(hash_512, Wide!BlockOctets, k, m)
      Blocks(size) == (derived.len + size - 1) \div size
      Numbered(size) == Blocks(size) < 2 ^ HashOctetBits
      Okm(MacOf(_, _), size) ==
        LET n == Blocks(size)
            T[i \in 0..n] == IF i = 0 THEN <<>>
                             ELSE MacOf(derived.key, T[i - 1] \o derived.info \o <<i>>)
        IN  SubSeq(FlattenSeq([i \in 1..n |-> T[i]] \o <<>>), 1, derived.len)
      size256 == Narrow!DigestOctets(sha2_256)
      size384 == Wide!DigestOctets(sha2_384)
      size512 == Wide!DigestOctets(sha2_512)
  IN  derived # Quiet =>
        /\ derived.mac256 = Mac256(derived.key, derived.info)
        /\ derived.mac384 = Mac384(derived.key, derived.info)
        /\ derived.mac512 = Mac512(derived.key, derived.info)
        /\ Numbered(size256) => derived.okm256 = Okm(Mac256, size256)
        /\ derived.okm384 = IF Numbered(size384) THEN Okm(Mac384, size384) ELSE <<>>
        /\ Numbered(size512) => derived.okm512 = Okm(Mac512, size512)
=============================================================================
