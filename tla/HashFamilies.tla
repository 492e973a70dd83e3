---------------------------- MODULE HashFamilies ----------------------------
(***************************************************************************)
(* The hash functions by name: SHA-224 and SHA-256 on the narrower words,  *)
(* SHA-384 and SHA-512 on the wider ones (Hacl_Hash_SHA2.c,                *)
(* Hacl_Streaming_SHA2.c, Hacl_HMAC.c, Hacl_HKDF.c), and a state machine   *)
(* of one streaming state: what Hacl_Ed25519.c drives, in any order and in *)
(* pieces of any size.                                                     *)
(***************************************************************************)
EXTENDS Integers, Sequences, SequencesExt

CONSTANTS
  HashOctetBits,               \* 8
  NarrowBits, WideBits,        \* 32 and 64
  NarrowKeys, NarrowRotations, WideKeys, WideRotations,
  Initial(_),                  \* initial state of each function
  NarrowSizes, WideSizes,      \* sizes of the pieces fed
  MaxFeeds,                    \* pieces fed to a state at most
  FedOctet(_)                  \* the octet at each place of what is fed

Narrow == INSTANCE Sha2 WITH WordBits <- NarrowBits, OctetBits <- HashOctetBits,
                             RoundKeys <- NarrowKeys, Rotations <- NarrowRotations
Wide == INSTANCE Sha2 WITH WordBits <- WideBits, OctetBits <- HashOctetBits,
                           RoundKeys <- WideKeys, Rotations <- WideRotations

sha2_224 == [init |-> Initial(224), words |-> 7]
sha2_256 == [init |-> Initial(256), words |-> 8]
sha2_384 == [init |-> Initial(384), words |-> 6]
sha2_512 == [init |-> Initial(512), words |-> 8]

-----------------------------------------------------------------------------
(* One shot.                                                               *)

hash_224(input) == Narrow!Hash(sha2_224, input)
hash_256(input) == Narrow!Hash(sha2_256, input)
hash_384(input) == Wide!Hash(sha2_384, input)
hash_512(input) == Wide!Hash(sha2_512, input)

update_512_block(hash, block) == Wide!Update(hash, block)
pad_512(len) == Wide!Pad(len)
update_last_512(hash, prev_len, input) == Wide!UpdateLast(hash, prev_len, input)

compute_sha2_256(key, data) == Narrow!Hmac(sha2_256, key, data)
compute_sha2_384(key, data) == Wide!Hmac(sha2_384, key, data)
compute_sha2_512(key, data) == Wide!Hmac(sha2_512, key, data)

expand_sha2_256(prk, info, len) == Narrow!HkdfExpand(sha2_256, prk, info, len)
expand_sha2_512(prk, info, len) == Wide!HkdfExpand(sha2_512, prk, info, len)
extract_sha2_256(salt, ikm) == compute_sha2_256(salt, ikm)
extract_sha2_512(salt, ikm) == compute_sha2_512(salt, ikm)

-----------------------------------------------------------------------------
(* Streaming, function by function.                                        *)

create_in_224 == Narrow!CreateIn(sha2_224)
create_in_256 == Narrow!CreateIn(sha2_256)
create_in_384 == Wide!CreateIn(sha2_384)
create_in_512 == Wide!CreateIn(sha2_512)

init_224(s) == Narrow!Restart(sha2_224, s)
init_256(s) == Narrow!Restart(sha2_256, s)
init_384(s) == Wide!Restart(sha2_384, s)
init_512(s) == Wide!Restart(sha2_512, s)

update_224(s, data) == Narrow!Feed(s, data)
update_256(s, data) == Narrow!Feed(s, data)
update_384(s, data) == Wide!Feed(s, data)
update_512(s, data) == Wide!Feed(s, data)

finish_224(s) == Narrow!FinishStream(sha2_224, s)
finish_256(s) == Narrow!FinishStream(sha2_256, s)
finish_384(s) == Wide!FinishStream(sha2_384, s)
finish_512(s) == Wide!FinishStream(sha2_512, s)

-----------------------------------------------------------------------------
(* A streaming state, and what has been fed to it since it was last        *)
(* (re)started.                                                            *)

VARIABLES function, stream, fed, feeds

hashVars == <<function, stream, fed, feeds>>

HashInit ==
  \/ function = 224 /\ stream = create_in_224 /\ fed = <<>> /\ feeds = 0
  \/ function = 256 /\ stream = create_in_256 /\ fed = <<>> /\ feeds = 0
  \/ function = 384 /\ stream = create_in_384 /\ fed = <<>> /\ feeds = 0
  \/ function = 512 /\ stream = create_in_512 /\ fed = <<>> /\ feeds = 0

Piece(n) == [i \in 1..n |-> FedOctet(feeds + Len(fed) + i)] \o <<>>

\* update of a piece of n octets.
Update(n) ==
  /\ feeds < MaxFeeds
  /\ n \in (IF function \in {224, 256} THEN NarrowSizes ELSE WideSizes)
  /\ stream' = CASE function = 224 -> update_224(stream, Piece(n))
                 [] function = 256 -> update_256(stream, Piece(n))
                 [] function = 384 -> update_384(stream, Piece(n))
                 [] function = 512 -> update_512(stream, Piece(n))
  /\ fed' = fed \o Piece(n) /\ feeds' = feeds + 1
  /\ UNCHANGED function

\* init of a state in use.
Reinit ==
  /\ fed # <<>> /\ feeds < MaxFeeds
  /\ stream' = CASE function = 224 -> init_224(stream)
                 [] function = 256 -> init_256(stream)
                 [] function = 384 -> init_384(stream)
                 [] function = 512 -> init_512(stream)
  /\ fed' = <<>> /\ UNCHANGED <<function, feeds>>

HashNext == (\E n \in NarrowSizes \cup WideSizes : Update(n)) \/ Reinit

\* finish works on a copy: it is asked of every state.
StreamDigest ==
  CASE function = 224 -> finish_224(stream)
    [] function = 256 -> finish_256(stream)
    [] function = 384 -> finish_384(stream)
    [] function = 512 -> finish_512(stream)

OneShot ==
  CASE function = 224 -> hash_224(fed)
    [] function = 256 -> hash_256(fed)
    [] function = 384 -> hash_384(fed)
    [] function = 512 -> hash_512(fed)

\* The definition: the blocks of the message and its padding.
PaddedDigest ==
  LET Of(UpdateMulti(_, _, _), Finish(_, _), Pad(_), block, alg) ==
        LET padded == fed \o Pad(Len(fed))
        IN  Finish(alg, UpdateMulti(alg.init, padded, Len(padded) \div block))
  IN  CASE function = 224 -> Of(Narrow!UpdateMulti, Narrow!Finish, Narrow!Pad, Narrow!BlockOctets, sha2_224)
        [] function = 256 -> Of(Narrow!UpdateMulti, Narrow!Finish, Narrow!Pad, Narrow!BlockOctets, sha2_256)
        [] function = 384 -> Of(Wide!UpdateMulti, Wide!Finish, Wide!Pad, Wide!BlockOctets, sha2_384)
        [] function = 512 -> Of(Wide!UpdateMulti, Wide!Finish, Wide!Pad, Wide!BlockOctets, sha2_512)

\* A state gives the digest of what it was fed, however that was cut into
\* pieces, whatever was fed before a restart, and as often as it is asked:
\* the buffer of Hacl_Streaming_SHA2.c holds a full block back until more
\* arrives, and the length it pads with is kept beside it.  One call of
\* Hacl_Hash_SHA2.c on the whole gives the same.
HashIsOneShot == feeds > 0 => StreamDigest = OneShot /\ OneShot = PaddedDigest
=============================================================================
