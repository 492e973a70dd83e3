---------------------------- MODULE MCSymmetric -----------------------------
(***************************************************************************)
(* Hashing, key derivation and authenticated encryption on small words:    *)
(* 4 and 8 bits for SHA-2 (octets of 4), 7 and 14 for ChaCha20-Poly1305    *)
(* (octets of 7), blocks of four octets for AES-GCM, grouped by two from   *)
(* six blocks up to seal and from two up to open.  The streaming state and *)
(* the native calls share nothing: each machine runs with the other at     *)
(* rest.                                                                   *)
(***************************************************************************)
EXTENDS NativeCrypto, FiniteSets

CONSTANTS PtSizes, MaxSealed, LongInput, OkmSizes, LongOkmSizes

NarrowK == <<1, 5, 9, 13, 2, 6, 10, 14, 3, 7, 11, 15, 4, 8, 12, 0, 3, 9>>
NarrowR == [a |-> <<1, 2, 3>>, e |-> <<1, 3, 2>>, s0 |-> <<1, 3, 2>>, s1 |-> <<2, 3, 1>>]
WideK == <<66, 113, 181, 233, 57, 89, 146, 171, 216, 18, 36, 85, 114, 128, 155, 193, 228, 239, 15>>
WideR == [a |-> <<2, 3, 5>>, e |-> <<1, 4, 6>>, s0 |-> <<1, 7, 2>>, s1 |-> <<3, 5, 1>>]
InitialOf(n) == CASE n = 224 -> <<12, 3, 7, 15, 15, 6, 1, 10>>
                  [] n = 256 -> <<6, 11, 3, 10, 5, 9, 1, 14>>
                  [] n = 384 -> <<203, 98, 145, 21, 51, 142, 219, 71>>
                  [] n = 512 -> <<106, 187, 60, 165, 81, 155, 31, 91>>
OctetAt(i) == (7 * i + i * i) % 16

FourWords == <<101, 51, 33, 107>>
QuarterRotations == <<4, 3, 2, 1>>

\* Stand-ins for the assembly.  What is not an octet is a larger number, so that
\* no two of the inputs here have one tag.
Mix(a, b) == (a * 37 + b * 1117 + 5) % 1000003
MixAll(seed, s) ==
  LET m[i \in 0..Len(s)] == IF i = 0 THEN Mix(seed, Len(s)) ELSE Mix(m[i - 1], s[i])
  IN  m[Len(s)]
Schedule(a, k) == MixAll(IF a = "aes128_gcm" THEN 1 ELSE 2, k)
Start(ek, blocks, rest, len) == Mix(MixAll(ek, blocks), MixAll(len, rest))
KeyOctet(ek, j0, i) == Mix(Mix(ek, j0), i) % 128
Tag(ek, j0, ad, c) ==
  [i \in 1..4 |-> Mix(MixAll(Mix(ek, i), ad), MixAll(Mix(j0, i), c))] \o <<>>
AesKeySize(a) == IF a = "aes128_gcm" THEN 2 ELSE 3

\* A processor with everything AES-GCM needs, and one without movbe.
Able == {"aesni", "avx", "avx2", "osxsave", "avx_xcr0", "sse", "movbe", "adx_bmi2"}
Processors == {Able, Able \ {"movbe"}}

Octets7(n, z) == [i \in 1..n |-> (i * 37 + z) % 128] \o <<>>
KeySize(suite) == IF suite \in Aes THEN AesKeySize(suite) ELSE 8
Keys(suite) == {Octets7(KeySize(suite), 5), Octets7(KeySize(suite), 6), <<1>>}
Nonces == {Octets7(3, 9), Octets7(2, 9)}
Aads == {<<>>, Octets7(5, 3)}
Plaintexts == {Octets7(n, 1) : n \in PtSizes \cup {LongInput}}

\* What comes back: the octets sealed, changed at one end, cut, or none.
Tampered(ct) ==
  {ct, [ct EXCEPT ![1] = (@ + 1) % 128], [ct EXCEPT ![Len(ct)] = (@ + 1) % 128],
   SubSeq(ct, 1, Len(ct) - 1), <<>>}

\* The arguments of a seal, or those with one of them changed.
Variations(r) ==
  {[r EXCEPT !.out = ct] : ct \in Tampered(r.out)}
    \cup {[r EXCEPT !.key = key] : key \in Keys(r.suite)}
    \cup {[r EXCEPT !.nonce = nonce] : nonce \in Nonces}
    \cup {[r EXCEPT !.aad = aad] : aad \in Aads}
    \cup {[r EXCEPT !.suite = suite, !.key = Octets7(KeySize(suite), 5)] : suite \in Algs}

NativeNext ==
  /\ function = 256 /\ feeds = 0 /\ UNCHANGED hashVars
  /\ last = Quiet /\ derived = Quiet
  /\ \/ /\ Cardinality(sealed) < MaxSealed
        /\ submitted = Quiet \/ g_autoconfig_done    \* a refusal by length is final
        /\ \E suite \in Algs : \E key \in Keys(suite), nonce \in Nonces, aad \in Aads,
              pt \in Plaintexts : Seal(suite, key, nonce, aad, pt)
     \/ \E r \in sealed : \E v \in Variations(r) : Open(v.suite, v.key, v.nonce, v.aad, v.out)
     \/ /\ sealed = {} /\ submitted = Quiet
        /\ \E k \in {3, 16, 33}, m \in {0, 17}, len \in OkmSizes \cup LongOkmSizes :
             /\ len \in LongOkmSizes => k = 3 /\ m = 17
             /\ Derive([i \in 1..k |-> OctetAt(i)] \o <<>>, [i \in 1..m |-> OctetAt(i + 3)] \o <<>>, len)

SymmetricInit ==
  \/ HashInit /\ NativeInit({Able})
  \/ HashInit /\ function = 256 /\ NativeInit(Processors)

SymmetricNext ==
  \/ NativeNext
  \/ HashNext /\ sealed = {} /\ last = Quiet /\ derived = Quiet /\ hw = Able
       /\ ~g_autoconfig_done /\ UNCHANGED nativeVars

SymmetricSpec == SymmetricInit /\ [][SymmetricNext]_<<hashVars, nativeVars>>
=============================================================================
