-------------------------------- MODULE Sha2 --------------------------------
(***************************************************************************)
(* SHA-2 and what is built on it, for one width of words: the block        *)
(* functions and one-shot hashes of Hacl_Hash_SHA2.c, the buffered states  *)
(* of Hacl_Streaming_SHA2.c, HMAC (Hacl_HMAC.c) and HKDF (Hacl_HKDF.c).    *)
(* A hash function is alg, a record of its initial state and the number of *)
(* words of its digest.  HashFamilies instantiates the module for both     *)
(* widths and names the functions of the code.                             *)
(***************************************************************************)
EXTENDS Words

CONSTANTS
  RoundKeys,       \* the constants k, one for each round
  Rotations        \* of the sums (three each) and of the schedule (two and a
                   \* shift each): [a, e, s0, s1 |-> <<_, _, _>>]

BlockOctets == 16 * WordOctets
LengthOctets == 2 * WordOctets
Rounds == Len(RoundKeys)
DigestOctets(alg) == alg.words * WordOctets

Rotr(x, n) == ShiftRight(x, n) | ShiftLeft(x, WordBits - n)
BigSum(x, r) == Rotr(x, r[1]) ^^ (Rotr(x, r[2]) ^^ Rotr(x, r[3]))
SmallSum(x, r) == Rotr(x, r[1]) ^^ (Rotr(x, r[2]) ^^ ShiftRight(x, r[3]))

\* Octets from + 1 to from + n of s.
Octets(s, from, n) == SubSeq(s, from + 1, from + n)

-----------------------------------------------------------------------------
(* The block function.                                                     *)

\* Sixteen words of the block, and one more for each further round.
Schedule(block) ==
  LET first == Buffer([i \in 1..16 |->
                 LoadBE(Octets(block, WordOctets * (i - 1), WordOctets))])
  IN  Loop(Rounds - 16, first, LAMBDA w, i :
        LET n == 16 + i
        IN  Append(w, (SmallSum(w[n - 2], Rotations.s1) + w[n - 7]
                        + SmallSum(w[n - 15], Rotations.s0) + w[n - 16]) % Base))

\* The words move down by one; t1 joins the first and the fifth.
Moved(h, t1, t2) ==
  <<(t1 + t2) % Base, h[1], h[2], h[3], (h[4] + t1) % Base, h[5], h[6], h[7]>>

Round(h, k, w) ==
  Moved(h,
    h[8] + BigSum(h[5], Rotations.e) + ((h[5] & h[6]) ^^ (Compl(h[5]) & h[7])) + k + w,
    BigSum(h[1], Rotations.a) + ((h[1] & h[2]) ^^ ((h[1] & h[3]) ^^ (h[2] & h[3]))))

Added(hash, h) == Buffer([i \in 1..8 |-> Plus(hash[i], h[i])])

Update(hash, block) ==
  Added(hash, Eagerly(LAMBDA w : Loop(Rounds, hash, LAMBDA s, i : Round(s, RoundKeys[i], w[i])),
                      Schedule(block)))

UpdateMulti(hash, blocks, n) ==
  Loop(n, hash, LAMBDA s, i : Update(s, Octets(blocks, BlockOctets * (i - 1), BlockOctets)))

\* The digest: as many words of the state as the function has.
Finish(alg, hash) ==
  FlattenSeq(Buffer([i \in 1..alg.words |-> StoreBE(hash[i], WordOctets)]))

-----------------------------------------------------------------------------
(* Padding and the hash of a whole message.                                *)

\* A one bit, the fewest zeros, and the length in bits at the end of a block.
ZeroOctets(len) ==
  (2 * BlockOctets - (LengthOctets + 1 + (len % BlockOctets))) % BlockOctets

Pad(len) ==
  <<2 ^ (OctetBits - 1)>> \o Zeros(ZeroOctets(len)) \o StoreBE(len * OctetBits, LengthOctets)

\* Faulty form: the length hashed is that of the last octets alone.
UpdateLastShort(hash, prev_len, input) ==
  Eagerly(LAMBDA all : UpdateMulti(hash, all, Len(all) \div BlockOctets),
          input \o Pad(Len(input)))

\* The end of a message of which prev_len octets are hashed already: its whole
\* blocks, and those of what is left with its padding.
UpdateLast(hash, prev_len, input) ==
  Eagerly(LAMBDA all : UpdateMulti(hash, all, Len(all) \div BlockOctets),
          input \o Pad(prev_len + Len(input)))

\* len modulo a block, with a whole block for a multiple that is not zero.
InLastBlock(len) ==
  IF len % BlockOctets = 0 /\ len > 0 THEN BlockOctets ELSE len % BlockOctets

Hash(alg, input) ==
  LET n == (Len(input) - InLastBlock(Len(input))) \div BlockOctets
      rest == Octets(input, n * BlockOctets, InLastBlock(Len(input)))
  IN  Finish(alg, UpdateLast(UpdateMulti(alg.init, input, n), n * BlockOctets, rest))

-----------------------------------------------------------------------------
(* A hash fed in pieces.  The block in buf is hashed only when more is to  *)
(* come, so that a full block may stay there.                              *)

CreateIn(alg) == [block_state |-> alg.init, buf |-> Zeros(BlockOctets), total_len |-> 0]

\* init forgets the length and leaves the octets where they are.
Restart(alg, s) == [s EXCEPT !.block_state = alg.init, !.total_len = 0]

CopyAt(buf, at, data) == SubSeq(buf, 1, at) \o data \o
                         SubSeq(buf, at + Len(data) + 1, BlockOctets)

UpdateBuffered(s, data) ==
  [s EXCEPT !.buf = CopyAt(@, InLastBlock(s.total_len), data),
            !.total_len = @ + Len(data)]

\* A full buffer is hashed, then all of data but its last block, which is kept.
UpdateBlocks(s, data) ==
  LET full == InLastBlock(s.total_len) # 0
      hashed == IF full THEN Update(s.block_state, s.buf) ELSE s.block_state
      n == (Len(data) - InLastBlock(Len(data))) \div BlockOctets
  IN  [block_state |-> UpdateMulti(hashed, data, n),
       buf |-> CopyAt(s.buf, 0, Octets(data, n * BlockOctets, Len(data) - n * BlockOctets)),
       total_len |-> s.total_len + Len(data)]

\* Faulty form: a full buffer counts as an empty one.
FeedOverFull(s, data) ==
  LET sz == s.total_len % BlockOctets
      room == BlockOctets - sz
  IN  CASE Len(data) <= room ->
             [s EXCEPT !.buf = CopyAt(@, sz, data), !.total_len = @ + Len(data)]
        [] Len(data) > room /\ sz = 0 -> UpdateBlocks(s, data)
        [] OTHER -> UpdateBlocks(UpdateBuffered(s, SubSeq(data, 1, room)),
                                 SubSeq(data, room + 1, Len(data)))

Feed(s, data) ==
  LET sz == InLastBlock(s.total_len)
      room == BlockOctets - sz
  IN  CASE Len(data) <= room -> UpdateBuffered(s, data)
        [] Len(data) > room /\ sz = 0 -> UpdateBlocks(s, data)
        [] OTHER -> UpdateBlocks(UpdateBuffered(s, SubSeq(data, 1, room)),
                                 SubSeq(data, room + 1, Len(data)))

\* On a copy of the state, which can be fed again.
FinishStream(alg, s) ==
  LET r == InLastBlock(s.total_len)
  IN  Finish(alg, UpdateLast(s.block_state, s.total_len - r, SubSeq(s.buf, 1, r)))

-----------------------------------------------------------------------------
(* HMAC and HKDF.                                                          *)

\* The hash of one block and then data; a block alone is a last block.
HashAfterBlock(alg, block, data) ==
  Finish(alg, UpdateLast(IF data = <<>> THEN alg.init ELSE Update(alg.init, block),
                         IF data = <<>> THEN 0 ELSE BlockOctets,
                         IF data = <<>> THEN block ELSE data))

\* Faulty form: a long key is cut, not hashed.
KeyBlockCut(alg, key) ==
  LET k == IF Len(key) <= BlockOctets THEN key ELSE SubSeq(key, 1, BlockOctets)
  IN  k \o Zeros(BlockOctets - Len(k))

KeyBlock(alg, key) ==
  LET k == IF Len(key) <= BlockOctets THEN key ELSE Hash(alg, key)
  IN  k \o Zeros(BlockOctets - Len(k))

\* 0x36 and 0x5c, cut to the octets of the instance.
InnerPad == 54 % 2 ^ OctetBits
OuterPad == 92 % 2 ^ OctetBits

Padded(block, v) == Buffer([i \in 1..BlockOctets |-> block[i] ^^ v])

Hmac(alg, key, data) ==
  Eagerly(LAMBDA k : Loop(2, data, LAMBDA m, i :
                       HashAfterBlock(alg, Padded(k, IF i = 1 THEN InnerPad ELSE OuterPad), m)),
          KeyBlock(alg, key))

\* n blocks of output.  The counter is one octet: a longer output repeats its
\* values.
HkdfBlocks(alg, prk, info, n) ==
  Loop(n, [tag |-> <<>>, okm |-> <<>>], LAMBDA s, i :
    Eagerly(LAMBDA tag : [tag |-> tag, okm |-> s.okm \o tag],
            Hmac(alg, prk, s.tag \o info \o <<i % 2 ^ OctetBits>>))).okm

\* Faulty form: the octets of the last block are all given out.
HkdfExpandWhole(alg, prk, info, len) ==
  HkdfBlocks(alg, prk, info, (len + DigestOctets(alg) - 1) \div DigestOctets(alg))

HkdfExpand(alg, prk, info, len) ==
  SubSeq(HkdfBlocks(alg, prk, info, (len + DigestOctets(alg) - 1) \div DigestOctets(alg)), 1, len)

HkdfExtract(alg, salt, ikm) == Hmac(alg, salt, ikm)
=============================================================================
