----------------------------- MODULE EverCrypt ------------------------------
(***************************************************************************)
(* EverCrypt's agile AEAD (EverCrypt_AEAD.c) over the detected processor   *)
(* features (EverCrypt_AutoConfig2.c).  AES-GCM itself is assembly outside *)
(* the repository's C: the parameters stand for its routines, and the      *)
(* module is the code around them, which chooses the implementation, cuts  *)
(* the message into blocks and puts the answer together.  The build        *)
(* defines HACL_CAN_COMPILE_VALE.                                          *)
(***************************************************************************)
EXTENDS Integers, Sequences, SequencesExt, Bitwise

CONSTANTS
  GcmBlock,              \* octets of a block (16)
  GcmGroup,              \* blocks of a group (6)
  GcmSealMin, GcmOpenMin,    \* fewest blocks in groups to seal (18), to open (6)
  GcmTagOctets, ChachaNonceOctets,
  KeySchedule(_, _),     \* expanded key of an implementation and a key
  StartOf(_, _, _, _),   \* counter of an iv: schedule, blocks, rest, length
  StreamOf(_, _, _),     \* octet of the key stream: schedule, counter, index
  TagOf(_, _, _, _)      \* schedule, counter, data, ciphertext

-----------------------------------------------------------------------------
(* Processor features.  A configuration is the features found, cpu, and    *)
(* the providers the user wants.                                           *)

Unconfigured == [cpu |-> {}, wants |-> {"hacl", "vale", "openssl"}]

\* What the answers hw of the CPUID checks establish.
Found(hw) ==
  LET avx == {"osxsave", "avx_xcr0"} \subseteq hw
  IN  UNION {IF "aesni" \in hw THEN {"aesni", "pclmulqdq"} ELSE {},
             IF "sha" \in hw THEN {"shaext"} ELSE {},
             IF "adx_bmi2" \in hw THEN {"adx", "bmi2"} ELSE {},
             hw \cap {"sse", "movbe", "rdrand"},
             IF avx THEN hw \cap {"avx", "avx2"} ELSE {},
             IF avx /\ "avx512_xcr0" \in hw THEN hw \cap {"avx512"} ELSE {}}

\* A feature found stays; what the user wants returns to the defaults.
AutoConfigInit(config, hw) ==
  [cpu |-> config.cpu \cup Found(hw), wants |-> {"hacl", "vale", "openssl"}]

-----------------------------------------------------------------------------
(* States.                                                                 *)

Null == [impl |-> "null"]
Aes == {"aes128_gcm", "aes256_gcm"}
Algs == Aes \cup {"chacha20_poly1305"}

AesSupported(config) == {"aesni", "pclmulqdq", "avx", "sse", "movbe"} \subseteq config.cpu

\* A state of AES, its key expanded.
Keyed(a, k) == [impl |-> a, ek |-> KeySchedule(a, k)]

create_in_aes128_gcm(config, k) ==
  IF AesSupported(config) THEN [code |-> "success", s |-> Keyed("aes128_gcm", k)]
  ELSE [code |-> "unsupported", s |-> Null]

create_in_aes256_gcm(config, k) ==
  IF AesSupported(config) THEN [code |-> "success", s |-> Keyed("aes256_gcm", k)]
  ELSE [code |-> "unsupported", s |-> Null]

create_in_chacha20_poly1305(k) ==
  [code |-> "success", s |-> [impl |-> "chacha20_poly1305", ek |-> k]]

create_in(config, a, k) ==
  CASE a = "aes128_gcm" -> create_in_aes128_gcm(config, k)
    [] a = "aes256_gcm" -> create_in_aes256_gcm(config, k)
    [] a = "chacha20_poly1305" -> create_in_chacha20_poly1305(k)
    [] OTHER -> [code |-> "unsupported", s |-> Null]

-----------------------------------------------------------------------------
(* AES-GCM.                                                                *)

Slice(b, from, to) == SubSeq(b, from + 1, to)

\* The counter block of an iv of any length but zero.
CounterOf(s, iv) ==
  LET whole == (Len(iv) \div GcmBlock) * GcmBlock
  IN  StartOf(s.ek, Slice(iv, 0, whole), Slice(iv, whole, Len(iv)), Len(iv))

\* Faulty form: a message of enough groups loses the blocks after them.
CutWithoutRest(len, least) ==
  LET grouped == (len \div (GcmGroup * GcmBlock)) * (GcmGroup * GcmBlock)
      blocks == (len \div GcmBlock) * GcmBlock
  IN  IF grouped \div GcmBlock >= least THEN <<grouped, grouped>> ELSE <<0, blocks>>

\* Where the groups of blocks end, and where the single blocks end.  Groups are
\* worth it from least blocks on.
Cut(len, least) ==
  LET grouped == (len \div (GcmGroup * GcmBlock)) * (GcmGroup * GcmBlock)
      blocks == (len \div GcmBlock) * GcmBlock
  IN  IF grouped \div GcmBlock >= least THEN <<grouped, blocks>> ELSE <<0, blocks>>

\* A part of the message under the key stream from octet at on.
Under(s, j0, part, at) == [i \in 1..Len(part) |-> part[i] ^^ StreamOf(s.ek, j0, at + i)] \o <<>>

\* Groups, single blocks, and the octets of a last block at its place.
Cipher(s, j0, text, least) ==
  LET cut == Cut(Len(text), least)
      last == (Len(text) \div GcmBlock) * GcmBlock
  IN  Under(s, j0, Slice(text, 0, cut[1]), 0)
        \o Under(s, j0, Slice(text, cut[1], cut[2]), cut[1])
        \o Under(s, j0, Slice(text, last, Len(text)), last)

NotEncrypted(code) == [code |-> code, cipher |-> <<>>, tag |-> <<>>]
NotDecrypted(code) == [code |-> code, plain |-> <<>>]

encrypt_aes128_gcm(s, iv, ad, plain) ==
  CASE s = Null -> NotEncrypted("invalid_key")
    [] s # Null /\ iv = <<>> -> NotEncrypted("invalid_iv_length")
    [] OTHER -> LET j0 == CounterOf(s, iv)
                    cipher == Cipher(s, j0, plain, GcmSealMin)
                IN  [code |-> "success", cipher |-> cipher, tag |-> TagOf(s.ek, j0, ad, cipher)]

\* The same on the longer schedule, which is s's.
encrypt_aes256_gcm(s, iv, ad, plain) == encrypt_aes128_gcm(s, iv, ad, plain)

\* The plaintext is written whatever the tag says.  An open takes groups sooner
\* than the seal did.
decrypt_aes128_gcm(s, iv, ad, cipher, tag) ==
  CASE s = Null -> NotDecrypted("invalid_key")
    [] s # Null /\ iv = <<>> -> NotDecrypted("invalid_iv_length")
    [] OTHER -> LET j0 == CounterOf(s, iv)
                IN  [code |-> IF TagOf(s.ek, j0, ad, cipher) = tag
                                THEN "success" ELSE "authentication_failure",
                     plain |-> Cipher(s, j0, cipher, GcmOpenMin)]

decrypt_aes256_gcm(s, iv, ad, cipher, tag) == decrypt_aes128_gcm(s, iv, ad, cipher, tag)

-----------------------------------------------------------------------------
(* The dispatchers.  This build links no ChaCha20-Poly1305 behind them:    *)
(* kroopt_aesgcm.c aborts there.                                           *)

Aborted == [code |-> "abort", cipher |-> <<>>, plain |-> <<>>, tag |-> <<>>]

decrypt_chacha20_poly1305(s, iv) ==
  CASE s = Null -> NotDecrypted("invalid_key")
    [] s # Null /\ Len(iv) # ChachaNonceOctets -> NotDecrypted("invalid_iv_length")
    [] OTHER -> Aborted

encrypt(s, iv, ad, plain) ==
  CASE s = Null -> NotEncrypted("invalid_key")
    [] s.impl = "aes128_gcm" -> encrypt_aes128_gcm(s, iv, ad, plain)
    [] s.impl = "aes256_gcm" -> encrypt_aes256_gcm(s, iv, ad, plain)
    [] s.impl = "chacha20_poly1305" ->
         IF Len(iv) # ChachaNonceOctets THEN NotEncrypted("invalid_iv_length") ELSE Aborted

decrypt(s, iv, ad, cipher, tag) ==
  CASE s = Null -> NotDecrypted("invalid_key")
    [] s.impl = "aes128_gcm" -> decrypt_aes128_gcm(s, iv, ad, cipher, tag)
    [] s.impl = "aes256_gcm" -> decrypt_aes256_gcm(s, iv, ad, cipher, tag)
    [] s.impl = "chacha20_poly1305" -> decrypt_chacha20_poly1305(s, iv)
=============================================================================
