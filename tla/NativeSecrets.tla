--------------------------- MODULE NativeSecrets ----------------------------
(***************************************************************************)
(* The C-owned store of long-lived private keys (kroopt_ffi.c), and its    *)
(* users: provisioning of a connection, signing by handle, release at      *)
(* shutdown.  The store is a process-global table of slots; a slot points  *)
(* at a malloc'd buffer and is addressed by an id that is never reused.    *)
(*                                                                         *)
(* A key is a model value with a size in bytes.  The heap remembers every  *)
(* buffer the store ever allocated, so that a property can speak of memory *)
(* given back.  Ids do not reach 2^64.                                     *)
(***************************************************************************)
EXTENDS Integers, Sequences, FiniteSets, FiniteSetsExt

CONSTANTS
  Slots,        \* KROOPT_SECRET_SLOTS
  Keys,         \* private keys offered to the store
  KeySize,      \* the size of each key
  EntropySize,  \* bytes of an ephemeral scalar
  MaxAllocs,    \* bound of the model: buffers ever allocated
  MaxConfigs    \* bound of the model: configurations ever provisioned

SeedSize == 32

Zeros == "zeros"    \* contents of a wiped buffer
Null == 0           \* no pointer, no id

ASSUME SlotsAssumption == Slots \in Nat \ {0}
ASSUME KeysAssumption ==
  {Zeros, "none"} \cap Keys = {} /\ KeySize \in [Keys -> Nat]
ASSUME EntropyAssumption == EntropySize \in Nat \ {0}
ASSUME StoreBounds == MaxAllocs \in Nat /\ MaxConfigs \in Nat

VARIABLES
  table,      \* kroopt_secret_table: the id and the buffer of each slot
  nextId,     \* kroopt_secret_next_id
  heap,       \* buffers in the order of allocation
  draw,       \* the provisioning in progress and the bytes drawn for it
  configs,    \* RealCryptoConfig of every connection provisioned
  signature   \* the last answer of sign-by-handle

storeVars == <<table, nextId, heap>>
nativeVars == <<storeVars, draw, configs, signature>>

EmptySlot == [id |-> Null, ptr |-> Null]
NoDraw == [key |-> "none", got |-> 0]
NoSignature == [key |-> "none", config |-> 0]    \* an empty ByteArray

NativeTypeOK ==
  /\ table \in [1..Slots -> [id : 0..MaxAllocs, ptr : 0..MaxAllocs]]
  /\ nextId \in 1..(MaxAllocs + 1)
  /\ heap \in Seq([bytes : Keys \cup {Zeros}, len : Nat, live : BOOLEAN])
  /\ draw = NoDraw \/ draw \in [key : Keys, got : 0..EntropySize]
  /\ configs \in Seq([handle : 0..MaxAllocs, key : Keys, entropy : Nat])
  /\ signature \in [key : Keys \cup {Zeros, "none"}, config : 0..MaxConfigs]

NativeInit ==
  /\ table = [i \in 1..Slots |-> EmptySlot]
  /\ nextId = 1
  /\ heap = <<>>
  /\ draw = NoDraw
  /\ configs = <<>>
  /\ signature = NoSignature

-----------------------------------------------------------------------------
(* The table.                                                              *)

Used(i) == table[i].ptr # Null

\* kroopt_secret_find: the slots that answer to id; at most one does.
Find(id) == {i \in 1..Slots : id # Null /\ table[i].id = id /\ Used(i)}

\* kroopt_secret_live_count
LiveCount == Cardinality({i \in 1..Slots : Used(i)})

\* kroopt_wipe
Wipe(buffer) == [buffer EXCEPT !.bytes = Zeros]

\* Faulty form: the id names the slot, as an index would.
StoreBySlot(k, i) ==
  /\ heap' = Append(heap, [bytes |-> k, len |-> KeySize[k], live |-> TRUE])
  /\ table' = [table EXCEPT ![i] = [id |-> i, ptr |-> Len(heap) + 1]]
  /\ UNCHANGED nextId

\* The buffer of k is placed in slot i under a fresh id.
Store(k, i) ==
  /\ heap' = Append(heap, [bytes |-> k, len |-> KeySize[k], live |-> TRUE])
  /\ table' = [table EXCEPT ![i] = [id |-> nextId, ptr |-> Len(heap) + 1]]
  /\ nextId' = nextId + 1

\* kroopt_secret_alloc: the first free slot; id is what the caller gets, the
\* null id when the table is full or malloc fails.
SecretAlloc(k, id) ==
  LET free == {i \in 1..Slots : ~Used(i)}
  IN \/ /\ free # {}
        /\ Len(heap) < MaxAllocs
        /\ Store(k, Min(free))
        /\ id = table'[Min(free)].id
     \/ id = Null /\ UNCHANGED storeVars

\* Faulty form: the slot is cleared and the buffer freed as it is.
ReleaseUnwiped(id) ==
  \E i \in Find(id) :
    /\ heap' = [heap EXCEPT ![table[i].ptr].live = FALSE]
    /\ table' = [table EXCEPT ![i] = EmptySlot]

\* Faulty form: the id is forgotten and the buffer is not.
ReleaseForgets(id) ==
  \E i \in Find(id) : table' = [table EXCEPT ![i] = EmptySlot] /\ UNCHANGED heap

ReleaseFound(id) ==
  \E i \in Find(id) :
    /\ heap' = [heap EXCEPT ![table[i].ptr] = [Wipe(@) EXCEPT !.live = FALSE]]
    /\ table' = [table EXCEPT ![i] = EmptySlot]

\* kroopt_secret_release: an absent id is a no-op.
SecretRelease(id) ==
  /\ \/ ReleaseFound(id)
     \/ Find(id) = {} /\ UNCHANGED <<heap, table>>
  /\ UNCHANGED nextId

\* kroopt_secret_zeroize: the slot stays allocated.
SecretZeroize(id) ==
  /\ \E i \in Find(id) : heap' = [heap EXCEPT ![table[i].ptr] = Wipe(@)]
  /\ UNCHANGED <<table, nextId>>

-----------------------------------------------------------------------------
(* Provisioning: lint, ephemeral entropy, the key moved into the store.    *)

Lint(k) == KeySize[k] = SeedSize

Provision(k) ==
  /\ draw = NoDraw
  /\ Len(configs) < MaxConfigs
  /\ Lint(k)
  /\ draw' = [key |-> k, got |-> 0]
  /\ UNCHANGED <<storeVars, configs, signature>>

\* One getrandom of the loop in kroopt_ffi_random: any part of what is asked.
GetRandom(n) ==
  /\ draw # NoDraw
  /\ draw.got < EntropySize
  /\ draw' = [draw EXCEPT !.got = @ + n]
  /\ UNCHANGED <<storeVars, configs, signature>>

\* getrandom fails: an empty result, a typed entropy error, nothing stored.
GetRandomFails ==
  /\ draw # NoDraw
  /\ draw.got < EntropySize
  /\ draw' = NoDraw
  /\ UNCHANGED <<storeVars, configs, signature>>

\* provisionRealConfig after the draw; the id is not looked at.
Provisioned ==
  /\ draw # NoDraw
  /\ draw.got = EntropySize
  /\ \E id \in 0..MaxAllocs :
       /\ SecretAlloc(draw.key, id)
       /\ configs' = Append(configs, [handle |-> id, key |-> draw.key,
                                      entropy |-> draw.got])
  /\ draw' = NoDraw
  /\ UNCHANGED signature

-----------------------------------------------------------------------------
(* Use of a provisioned configuration.                                     *)

\* signCertificateVerify: kroopt_ed25519_sign_h for a handle, else the bytes
\* of the configuration, of which a provisioned one has none.
Sign(c) ==
  LET found == {i \in Find(configs[c].handle) :
                  heap[table[i].ptr].len = SeedSize}
  IN /\ signature' =
          IF found = {} THEN [NoSignature EXCEPT !.config = c]
          ELSE [key |-> heap[table[Min(found)].ptr].bytes, config |-> c]
     /\ UNCHANGED <<storeVars, draw, configs>>

\* Shutdown of a connection; it may be released twice, and used afterwards.
Release(c) ==
  /\ SecretRelease(configs[c].handle)
  /\ UNCHANGED <<draw, configs, signature>>

Zeroize(c) ==
  /\ SecretZeroize(configs[c].handle)
  /\ UNCHANGED <<draw, configs, signature>>

NativeNext ==
  \/ \E k \in Keys : Provision(k)
  \/ draw # NoDraw /\ \E n \in 1..(EntropySize - draw.got) : GetRandom(n)
  \/ GetRandomFails
  \/ Provisioned
  \/ \E c \in 1..Len(configs) : Sign(c) \/ Release(c) \/ Zeroize(c)

NativeSpec == NativeInit /\ [][NativeNext]_nativeVars

-----------------------------------------------------------------------------
(* Properties.                                                             *)

\* Every buffer that is not freed is held by exactly one slot and every used
\* slot holds such a buffer: no call leaks a key, frees it twice or leaves a
\* slot pointing at freed memory, whatever order the calls come in.
BuffersOwnedOnce ==
  /\ \A b \in 1..Len(heap) :
       Cardinality({i \in 1..Slots : table[i].ptr = b})
         = IF heap[b].live THEN 1 ELSE 0
  /\ LiveCount = Cardinality({b \in 1..Len(heap) : heap[b].live})

\* Memory given back to malloc holds no key.
FreedIsWiped ==
  \A b \in 1..Len(heap) : ~heap[b].live => heap[b].bytes = Zeros

\* A handle signs with the key its own configuration was provisioned with, or
\* with zeros after zeroize, or not at all: never with the key of another
\* configuration that took over its slot after a release.
SignsWithOwnKey ==
  signature.key \in Keys => signature.key = configs[signature.config].key
=============================================================================
