------------------------------ MODULE Chacha20 ------------------------------
(***************************************************************************)
(* The stream cipher of Hacl_Chacha20.c, on words of WordBits bits (32 in  *)
(* the code).  A state is 16 words: the constants, the key, the block      *)
(* counter and the nonce.                                                  *)
(***************************************************************************)
EXTENDS Words

CONSTANTS
  ChachaConstants, \* four words
  DoubleRounds,    \* 10 in the code
  ChachaRotations  \* of a quarter round: 16, 12, 8 and 7 in the code

StreamBlock == 16 * WordOctets

RotateLeft(x, n) == ShiftLeft(x, n) | ShiftRight(x, WordBits - n)

\* st[a] += st[b]; st[d] = (st[d] ^ st[a]) <<< n
AddXorRotate(st, a, b, d, n) ==
  Eagerly(LAMBDA sum : [st EXCEPT ![a] = sum, ![d] = RotateLeft(@ ^^ sum, n)],
          Plus(st[a], st[b]))

quarter_round(st, a, b, c, d) ==
  Loop(4, st, LAMBDA s, i :
    LET odd == i % 2 = 1
    IN  AddXorRotate(s, IF odd THEN a ELSE c, IF odd THEN b ELSE d, IF odd THEN d ELSE b,
                     ChachaRotations[i]))

\* Four columns, then four diagonals.
double_round(st) ==
  Loop(4, Loop(4, st, LAMBDA s, i : quarter_round(s, i, i + 4, i + 8, i + 12)),
       LAMBDA s, i :
         quarter_round(s, i, 5 + (i % 4), 9 + ((i + 1) % 4), 13 + ((i + 2) % 4)))

\* The block's offset ctr is added to the counter before and after the rounds.
chacha20_core(ctx, ctr) ==
  Eagerly(LAMBDA k : [Buffer([i \in 1..16 |-> Plus(k[i], ctx[i])]) EXCEPT ![13] = Plus(@, ctr)],
          Loop(DoubleRounds, [ctx EXCEPT ![13] = Plus(@, ctr)], LAMBDA s, i : double_round(s)))

\* The n words that octets b hold.
WordsOf(b, n) ==
  Buffer([i \in 1..n |-> LoadLE(SubSeq(b, WordOctets * (i - 1) + 1, WordOctets * i))])

chacha20_init(k, n, ctr) ==
  ChachaConstants \o WordsOf(k, 8) \o <<ctr>> \o WordsOf(n, 3)

chacha20_encrypt_block(ctx, incr, text) ==
  Eagerly(LAMBDA s : FlattenSeq(Buffer([i \in 1..16 |-> StoreLE(s.bl[i] ^^ s.k[i], WordOctets)])),
          [k |-> chacha20_core(ctx, incr), bl |-> WordsOf(text, 16)])

chacha20_encrypt_last(ctx, len, incr, text) ==
  SubSeq(chacha20_encrypt_block(ctx, incr, text \o Zeros(StreamBlock - len)), 1, len)

chacha20_update(ctx, text) ==
  LET nb == Len(text) \div StreamBlock
      rem == Len(text) % StreamBlock
  IN  Loop(nb, <<>>, LAMBDA out, i :
             out \o chacha20_encrypt_block(ctx, i - 1,
                      SubSeq(text, StreamBlock * (i - 1) + 1, StreamBlock * i)))
        \o (IF rem = 0 THEN <<>>
            ELSE chacha20_encrypt_last(ctx, rem, nb, SubSeq(text, StreamBlock * nb + 1, Len(text))))

\* Encryption and decryption are one function.
chacha20_encrypt(text, key, n, ctr) == chacha20_update(chacha20_init(key, n, ctr), text)
chacha20_decrypt(cipher, key, n, ctr) == chacha20_update(chacha20_init(key, n, ctr), cipher)
=============================================================================
