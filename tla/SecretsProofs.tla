--------------------------- MODULE SecretsProofs ----------------------------
(***************************************************************************)
(* Proofs about where secrets live.  The native store: who owns a buffer,  *)
(* what is wiped, whose key a handle signs with.  The arena of a           *)
(* connection: what a handle or a route resolves to.  They hold in every   *)
(* reachable state for any number of slots, keys, secrets, generations and *)
(* configurations.                                                         *)
(***************************************************************************)
EXTENDS NativeSecrets, SecretArena, ListFacts, FiniteSetTheorems

-----------------------------------------------------------------------------
(* The native store.                                                       *)

Buffer == [bytes : Keys \cup {Zeros}, len : Nat, live : BOOLEAN]
Config == [handle : 0..MaxAllocs, key : Keys, entropy : Nat]

StoreType ==
  /\ table \in [1..Slots -> [id : 0..MaxAllocs, ptr : 0..MaxAllocs]]
  /\ nextId \in 1..(MaxAllocs + 1)
  /\ heap \in Seq(Buffer)

UserType ==
  /\ draw = NoDraw \/ draw \in [key : Keys, got : 0..EntropySize]
  /\ configs \in Seq(Config) /\ Len(configs) <= MaxConfigs
  /\ draw # NoDraw => Len(configs) < MaxConfigs
  /\ signature \in [key : Keys \cup {Zeros, "none"}, config : 0..MaxConfigs]

\* Ids and buffers are numbered together and neither is used twice.
Numbered ==
  /\ nextId = Len(heap) + 1
  /\ \A i \in 1..Slots : table[i].id = table[i].ptr

\* A used slot holds a buffer of its own that is not freed, and a buffer that
\* is not freed has a slot.
Held ==
  /\ \A i \in 1..Slots : Used(i) =>
       table[i].ptr \in 1..Len(heap) /\ heap[table[i].ptr].live
  /\ \A i, j \in 1..Slots : Used(i) /\ table[i].ptr = table[j].ptr => i = j
  /\ \A b \in 1..Len(heap) : heap[b].live =>
       \E i \in 1..Slots : table[i].ptr = b

\* What a handle names is the key of its configuration, or wiped.
HandlesOwn ==
  \A c \in 1..Len(configs) :
    /\ configs[c].handle \in 0..Len(heap)
    /\ configs[c].handle # Null =>
         heap[configs[c].handle].bytes \in {configs[c].key, Zeros}

SignedOwn ==
  signature.key \in Keys =>
    /\ signature.config \in 1..Len(configs)
    /\ signature.key = configs[signature.config].key

NativeInv ==
  /\ StoreType /\ UserType
  /\ Numbered /\ Held /\ FreedIsWiped
  /\ HandlesOwn /\ SignedOwn

USE SlotsAssumption, StoreBounds DEF Null

LEMMA NativeStart ==
  ASSUME NativeInit
  PROVE  NativeInv
<1>1. heap = <<>> /\ Len(heap) = 0 /\ configs = <<>> /\ Len(configs) = 0
  BY DEF NativeInit
<1>2. StoreType
  BY <1>1 DEF NativeInit, StoreType, EmptySlot
<1>3. UserType
  BY <1>1 DEF NativeInit, UserType, NoSignature
<1>4. Numbered /\ Held /\ FreedIsWiped /\ HandlesOwn
  BY <1>1
  DEF NativeInit, Numbered, Held, FreedIsWiped, HandlesOwn, EmptySlot, Used
<1>5. SignedOwn
  BY KeysAssumption DEF NativeInit, SignedOwn, NoSignature
<1> QED
  BY <1>2, <1>3, <1>4, <1>5 DEF NativeInv

StoreInv == StoreType /\ Numbered /\ Held /\ FreedIsWiped

\* A new buffer in a free slot: nothing else in the store moves.
LEMMA StoreKeeps ==
  ASSUME StoreInv, Len(heap) < MaxAllocs,
         NEW k \in Keys, NEW i \in 1..Slots, ~Used(i), Store(k, i)
  PROVE  /\ StoreInv'
         /\ Len(heap') = Len(heap) + 1
         /\ \A b \in 1..Len(heap) : heap'[b] = heap[b]
         /\ heap'[Len(heap) + 1].bytes = k
         /\ table'[i].id = Len(heap) + 1
<1> DEFINE new == [bytes |-> k, len |-> KeySize[k], live |-> TRUE]
           n == Len(heap) + 1
<1>1. new \in Buffer
  BY KeysAssumption DEF Buffer
<1>2. /\ heap' = Append(heap, new) /\ heap \in Seq(Buffer)
      /\ table' = [table EXCEPT ![i] = [id |-> nextId, ptr |-> n]]
      /\ nextId' = nextId + 1 /\ nextId = n
  BY DEF Store, StoreInv, StoreType, Numbered
<1> HIDE DEF new
<1>3. /\ heap' \in Seq(Buffer) /\ Len(heap') = n /\ Len(heap) \in Nat
      /\ \A b \in 1..Len(heap) : heap'[b] = heap[b]
      /\ heap'[n] = new
  BY <1>1, <1>2
<1>4. /\ new.bytes = k /\ new.live
  BY DEF new
<1>5. /\ table'[i].id = n /\ table'[i].ptr = n
      /\ \A j \in 1..Slots : j # i => table'[j] = table[j]
  BY <1>2 DEF StoreInv, StoreType
<1>6. StoreType'
  BY <1>2, <1>3 DEF StoreInv, StoreType
<1>7. Numbered'
  BY <1>2, <1>3, <1>5 DEF StoreInv, Numbered
<1>8. Held'
  <2>1. \A j \in 1..Slots : table[j].ptr \in 0..Len(heap)
    BY <1>3 DEF StoreInv, Held, Used, StoreType
  <2>2. \A j \in 1..Slots : Used(j)' =>
          table'[j].ptr \in 1..Len(heap') /\ heap'[table'[j].ptr].live
    BY SMTT(30), <1>3, <1>4, <1>5, <2>1 DEF StoreInv, Held, Used
  <2>3. \A j, l \in 1..Slots :
          Used(j)' /\ table'[j].ptr = table'[l].ptr => j = l
    BY <1>3, <1>5, <2>1 DEF StoreInv, Held, Used
  <2>4. \A b \in 1..Len(heap') : heap'[b].live =>
          \E j \in 1..Slots : table'[j].ptr = b
    <3>1. SUFFICES ASSUME NEW b \in 1..Len(heap), heap[b].live
                   PROVE  \E j \in 1..Slots : table'[j].ptr = b
      BY <1>3, <1>5
    <3>2. PICK j \in 1..Slots : table[j].ptr = b
      BY <3>1 DEF StoreInv, Held
    <3>3. j # i
      BY <3>2 DEF Used
    <3> QED
      BY <1>5, <3>2, <3>3
  <2> QED
    BY <2>2, <2>3, <2>4 DEF Held
<1>9. FreedIsWiped'
  BY <1>3, <1>4 DEF StoreInv, FreedIsWiped
<1> QED
  BY <1>3, <1>4, <1>5, <1>6, <1>7, <1>8, <1>9 DEF StoreInv

\* What a call of the store may do: give a fresh id to k, wipe a buffer or
\* leave everything, and never write a key into a buffer in use.
StoreGrows(k, id) ==
  /\ StoreInv' /\ Len(heap') = Len(heap) + 1 /\ id = Len(heap')
  /\ \A b \in 1..Len(heap) : heap'[b] = heap[b]
  /\ heap'[id].bytes = k

StoreWipes ==
  /\ StoreInv' /\ Len(heap') = Len(heap)
  /\ \A b \in 1..Len(heap) : heap'[b].bytes \in {heap[b].bytes, Zeros}

LEMMA AllocKeeps ==
  ASSUME StoreInv, NEW k \in Keys, NEW id, SecretAlloc(k, id)
  PROVE  \/ StoreGrows(k, id)
         \/ id = Null /\ UNCHANGED storeVars
<1> DEFINE free == {i \in 1..Slots : ~Used(i)}
<1>1. SUFFICES ASSUME free # {}, Len(heap) < MaxAllocs, Store(k, Min(free)),
                      id = table'[Min(free)].id
               PROVE  StoreGrows(k, id)
  BY DEF SecretAlloc
<1>2. free \in SUBSET Nat
  OBVIOUS
<1>3. Min(free) \in free
  BY <1>1, <1>2, MinIn
<1> DEFINE i == Min(free)
<1>4. i \in 1..Slots /\ ~Used(i)
  BY <1>3
<1> HIDE DEF free
<1>5. Store(k, i) /\ id = table'[i].id
  BY <1>1
<1> HIDE DEF i
<1> QED
  BY <1>1, <1>4, <1>5, StoreKeeps DEF StoreGrows

\* At most one slot answers to an id, and its buffer has that number.
LEMMA FoundSlot ==
  ASSUME StoreInv, NEW id, NEW i \in Find(id)
  PROVE  /\ i \in 1..Slots /\ Used(i) /\ id # Null
         /\ table[i].id = id /\ table[i].ptr = id
         /\ id \in 1..Len(heap) /\ heap[id] \in Buffer /\ heap[id].live
BY DEF Find, StoreInv, Numbered, Held, StoreType

LEMMA ReleaseKeeps ==
  ASSUME StoreInv, NEW id, SecretRelease(id)
  PROVE  StoreWipes
<1>1. CASE Find(id) = {} /\ UNCHANGED <<heap, table>>
  <2>1. heap' = heap /\ table' = table /\ nextId' = nextId
    BY <1>1 DEF SecretRelease
  <2>2. StoreType' /\ Numbered' /\ FreedIsWiped'
    BY <2>1 DEF StoreInv, StoreType, Numbered, FreedIsWiped
  <2>3. Held'
    BY <2>1 DEF StoreInv, Held, Used
  <2> QED
    BY <2>1, <2>2, <2>3 DEF StoreInv, StoreWipes
<1>2. CASE ReleaseFound(id)
  <2> DEFINE wiped == [Wipe(heap[id]) EXCEPT !.live = FALSE]
  <2>1. PICK i \in Find(id) :
          /\ heap' = [heap EXCEPT ![table[i].ptr] =
                        [Wipe(@) EXCEPT !.live = FALSE]]
          /\ table' = [table EXCEPT ![i] = EmptySlot]
    BY <1>2 DEF ReleaseFound
  <2>2. /\ i \in 1..Slots /\ Used(i) /\ id # Null /\ table[i].ptr = id
        /\ id \in 1..Len(heap) /\ heap[id] \in Buffer /\ heap[id].live
    BY <2>1, FoundSlot
  <2>3. Wipe(heap[id]) \in Buffer /\ Wipe(heap[id]).bytes = Zeros
    BY <2>2 DEF Wipe, Buffer
  <2>4. wiped \in Buffer /\ wiped.bytes = Zeros /\ ~wiped.live
    BY <2>3 DEF Buffer
  <2>5. heap' = [heap EXCEPT ![id] = wiped]
    BY <2>1, <2>2
  <2> HIDE DEF wiped
  <2>6. heap \in Seq(Buffer) /\ Len(heap) \in Nat
    BY DEF StoreInv, StoreType
  <2>7. /\ heap' \in Seq(Buffer) /\ Len(heap') = Len(heap)
        /\ heap'[id] = wiped
        /\ \A b \in 1..Len(heap) : b # id => heap'[b] = heap[b]
    BY <2>2, <2>4, <2>5, <2>6
  <2>8. /\ table'[i].id = 0 /\ table'[i].ptr = 0
        /\ \A j \in 1..Slots : j # i => table'[j] = table[j]
        /\ table' \in [1..Slots -> [id : 0..MaxAllocs, ptr : 0..MaxAllocs]]
    BY <2>1, <2>2 DEF StoreInv, StoreType, EmptySlot
  <2>9. nextId' = nextId
    BY DEF SecretRelease
  <2>10. StoreType' /\ Numbered'
    BY <2>7, <2>8, <2>9 DEF StoreInv, StoreType, Numbered
  <2>11. Held'
    <3>1. \A j \in 1..Slots : j # i => table[j].ptr # id
      BY <2>2 DEF StoreInv, Held
    <3>2. ASSUME NEW j \in 1..Slots, Used(j)'
          PROVE  table'[j].ptr \in 1..Len(heap') /\ heap'[table'[j].ptr].live
      <4>1. j # i
        BY <2>8, <3>2 DEF Used
      <4>2. table'[j] = table[j] /\ table[j].ptr # id
        BY <2>8, <3>1, <4>1
      <4>3. table[j].ptr \in 1..Len(heap) /\ heap[table[j].ptr].live
        BY <3>2, <4>2 DEF StoreInv, Held, Used
      <4> QED
        BY <2>7, <4>2, <4>3
    <3>3. \A j, l \in 1..Slots :
            Used(j)' /\ table'[j].ptr = table'[l].ptr => j = l
      BY <2>8 DEF StoreInv, Held, Used
    <3>4. ASSUME NEW b \in 1..Len(heap'), heap'[b].live
          PROVE  \E j \in 1..Slots : table'[j].ptr = b
      <4>1. b # id /\ heap[b].live /\ b \in 1..Len(heap)
        BY <2>4, <2>7, <3>4
      <4>2. PICK j \in 1..Slots : table[j].ptr = b
        BY <4>1 DEF StoreInv, Held
      <4> QED
        BY <2>2, <2>8, <4>1, <4>2
    <3> QED
      BY <3>2, <3>3, <3>4 DEF Held
  <2>12. FreedIsWiped'
    BY <2>4, <2>7 DEF StoreInv, FreedIsWiped
  <2> QED
    BY <2>4, <2>7, <2>10, <2>11, <2>12 DEF StoreInv, StoreWipes
<1> QED
  BY <1>1, <1>2 DEF SecretRelease

LEMMA ZeroizeKeeps ==
  ASSUME StoreInv, NEW id, SecretZeroize(id)
  PROVE  StoreWipes
<1> DEFINE wiped == Wipe(heap[id])
<1>1. PICK i \in Find(id) : heap' = [heap EXCEPT ![table[i].ptr] = Wipe(@)]
  BY DEF SecretZeroize
<1>2. /\ table[i].ptr = id
      /\ id \in 1..Len(heap) /\ heap[id] \in Buffer /\ heap[id].live
  BY <1>1, FoundSlot
<1>3. wiped \in Buffer /\ wiped.bytes = Zeros /\ wiped.live
  BY <1>2 DEF Wipe, Buffer
<1>4. heap' = [heap EXCEPT ![id] = wiped]
  BY <1>1, <1>2
<1> HIDE DEF wiped
<1>5. heap \in Seq(Buffer) /\ Len(heap) \in Nat
  BY DEF StoreInv, StoreType
<1>6. /\ heap' \in Seq(Buffer) /\ Len(heap') = Len(heap)
      /\ heap'[id] = wiped
      /\ \A b \in 1..Len(heap) : b # id => heap'[b] = heap[b]
  BY <1>2, <1>3, <1>4, <1>5
<1>7. table' = table /\ nextId' = nextId
  BY DEF SecretZeroize
<1>8. StoreType' /\ Numbered'
  BY <1>6, <1>7 DEF StoreInv, StoreType, Numbered
<1>9. Held'
  BY <1>2, <1>3, <1>6, <1>7 DEF StoreInv, Held, Used
<1>10. FreedIsWiped'
  BY <1>3, <1>6 DEF StoreInv, FreedIsWiped
<1> QED
  BY <1>3, <1>6, <1>8, <1>9, <1>10 DEF StoreInv, StoreWipes

\* A step that at most wipes leaves every handle with its own key.
LEMMA WipesKeepHandles ==
  ASSUME NativeInv, StoreWipes, UNCHANGED configs
  PROVE  HandlesOwn'
<1> SUFFICES ASSUME NEW c \in 1..Len(configs)
             PROVE  /\ configs[c].handle \in 0..Len(heap')
                    /\ configs[c].handle # 0 =>
                         heap'[configs[c].handle].bytes
                           \in {configs[c].key, Zeros}
  BY DEF HandlesOwn
<1> QED
  BY DEF NativeInv, HandlesOwn, StoreWipes

LEMMA RestKeepsStore ==
  ASSUME NativeInv, UNCHANGED storeVars
  PROVE  StoreInv' /\ StoreWipes
<1>1. heap' = heap /\ table' = table /\ nextId' = nextId
  BY DEF storeVars
<1>2. StoreType' /\ Numbered' /\ FreedIsWiped'
  BY <1>1 DEF NativeInv, StoreType, Numbered, FreedIsWiped
<1>3. Held'
  BY <1>1 DEF NativeInv, Held, Used
<1> QED
  BY <1>1, <1>2, <1>3 DEF StoreInv, StoreWipes

\* A step that changes nothing but the draw, or wipes beside it.
LEMMA DrawKeeps ==
  ASSUME NativeInv, StoreWipes, UNCHANGED <<configs, signature>>, UserType'
  PROVE  NativeInv'
<1>1. HandlesOwn'
  BY WipesKeepHandles
<1>2. SignedOwn'
  BY DEF NativeInv, SignedOwn
<1> QED
  BY <1>1, <1>2 DEF NativeInv, StoreWipes, StoreInv

LEMMA ProvisionKeeps ==
  ASSUME NativeInv, NEW k \in Keys, Provision(k)
  PROVE  NativeInv'
<1>1. UserType'
  BY EntropyAssumption DEF Provision, NativeInv, UserType
<1> QED
  BY <1>1, RestKeepsStore, DrawKeeps DEF Provision

LEMMA GetRandomKeeps ==
  ASSUME NativeInv, draw # NoDraw, NEW n \in 1..(EntropySize - draw.got),
         GetRandom(n)
  PROVE  NativeInv'
<1>1. draw' \in [key : Keys, got : 0..EntropySize]
  BY EntropyAssumption DEF GetRandom, NativeInv, UserType
<1>2. UserType'
  BY <1>1 DEF GetRandom, NativeInv, UserType
<1> QED
  BY <1>2, RestKeepsStore, DrawKeeps DEF GetRandom

LEMMA GetRandomFailsKeeps ==
  ASSUME NativeInv, GetRandomFails
  PROVE  NativeInv'
<1>1. UserType'
  BY DEF GetRandomFails, NativeInv, UserType
<1> QED
  BY <1>1, RestKeepsStore, DrawKeeps DEF GetRandomFails

LEMMA ProvisionedKeeps ==
  ASSUME NativeInv, Provisioned
  PROVE  NativeInv'
<1>1. PICK id \in 0..MaxAllocs :
        /\ SecretAlloc(draw.key, id)
        /\ configs' = Append(configs, [handle |-> id, key |-> draw.key,
                                       entropy |-> draw.got])
  BY DEF Provisioned
<1> DEFINE config == [handle |-> id, key |-> draw.key, entropy |-> draw.got]
           n == Len(configs) + 1
<1>2. /\ draw.key \in Keys /\ draw.got = EntropySize
      /\ Len(configs) < MaxConfigs
  BY DEF Provisioned, NativeInv, UserType
<1>3. config \in Config /\ config.handle = id /\ config.key = draw.key
  BY <1>2, EntropyAssumption DEF Config
<1>4. configs' = Append(configs, config) /\ configs \in Seq(Config)
  BY <1>1 DEF NativeInv, UserType
<1> HIDE DEF config
<1>5. /\ configs' \in Seq(Config) /\ Len(configs') = n /\ Len(configs) \in Nat
      /\ configs'[n] = config
      /\ \A c \in 1..Len(configs) : configs'[c] = configs[c]
  BY <1>3, <1>4
<1>6. UserType'
  BY <1>2, <1>5 DEF Provisioned, NativeInv, UserType
<1>7. SignedOwn'
  BY <1>5 DEF Provisioned, NativeInv, SignedOwn
<1>8. StoreInv
  BY DEF NativeInv, StoreInv
<1>9. CASE StoreGrows(draw.key, id)
  <2>1. /\ StoreInv' /\ Len(heap') = Len(heap) + 1 /\ id = Len(heap')
        /\ \A b \in 1..Len(heap) : heap'[b] = heap[b]
        /\ heap'[id].bytes = draw.key
    BY <1>9 DEF StoreGrows
  <2>2. Len(heap) \in Nat
    BY <1>8 DEF StoreInv, StoreType
  <2>3. ASSUME NEW c \in 1..Len(configs)
        PROVE  /\ configs'[c].handle \in 0..Len(heap')
               /\ configs'[c].handle # 0 =>
                    heap'[configs'[c].handle].bytes \in {configs'[c].key, Zeros}
    <3>1. /\ configs[c].handle \in 0..Len(heap)
          /\ configs[c].handle # 0 =>
               heap[configs[c].handle].bytes \in {configs[c].key, Zeros}
      BY DEF NativeInv, HandlesOwn
    <3> QED
      BY <1>5, <2>1, <2>2, <3>1
  <2>4. HandlesOwn'
    BY <1>3, <1>5, <2>1, <2>2, <2>3 DEF HandlesOwn
  <2> QED
    BY <1>6, <1>7, <2>1, <2>4 DEF NativeInv, StoreInv
<1>10. CASE id = 0 /\ UNCHANGED storeVars
  <2>1. StoreInv' /\ heap' = heap
    BY <1>10, RestKeepsStore DEF storeVars
  <2>2. Len(heap) \in Nat
    BY <1>8 DEF StoreInv, StoreType
  <2>3. HandlesOwn'
    BY <1>3, <1>5, <1>10, <2>1, <2>2 DEF NativeInv, HandlesOwn
  <2> QED
    BY <1>6, <1>7, <2>1, <2>3 DEF NativeInv, StoreInv
<1> QED
  BY <1>1, <1>2, <1>8, <1>9, <1>10, AllocKeeps

LEMMA SignKeeps ==
  ASSUME NativeInv, NEW c \in 1..Len(configs), Sign(c)
  PROVE  NativeInv'
<1> DEFINE found == {i \in Find(configs[c].handle) :
                       heap[table[i].ptr].len = SeedSize}
<1>1. /\ StoreInv /\ StoreWipes
  BY RestKeepsStore DEF Sign, NativeInv, StoreInv
<1>2. /\ c \in 0..MaxConfigs /\ configs[c] \in Config
      /\ signature \in [key : Keys \cup {Zeros, "none"}, config : 0..MaxConfigs]
  BY DEF NativeInv, UserType
<1>3. CASE found = {}
  <2>1. signature' = [NoSignature EXCEPT !.config = c]
    BY <1>3 DEF Sign
  <2>2. signature'.key = "none" /\ signature'.key \notin Keys
        /\ signature' \in [key : Keys \cup {Zeros, "none"}, config : 0..MaxConfigs]
    BY <1>2, <2>1, KeysAssumption DEF NoSignature
  <2>3. UserType' /\ SignedOwn'
    BY <2>2 DEF Sign, NativeInv, UserType, SignedOwn
  <2> QED
    BY <1>1, <2>3, WipesKeepHandles DEF Sign, NativeInv, StoreWipes, StoreInv
<1>4. CASE found # {}
  <2>1. found \in SUBSET Nat
    BY DEF Find
  <2>2. PICK i \in found : i = Min(found)
    BY <1>4, <2>1, MinIn
  <2>3. /\ i \in Find(configs[c].handle)
        /\ signature' = [key |-> heap[table[i].ptr].bytes, config |-> c]
    BY <1>4, <2>2 DEF Sign
  <2>4. /\ table[i].ptr = configs[c].handle /\ configs[c].handle # 0
        /\ configs[c].handle \in 1..Len(heap)
    BY <1>1, <2>3, FoundSlot
  <2>5. heap[configs[c].handle].bytes \in {configs[c].key, Zeros}
    BY <2>4 DEF NativeInv, HandlesOwn
  <2>6. /\ signature'.key \in {configs[c].key, Zeros}
        /\ signature'.config = c
        /\ signature' \in [key : Keys \cup {Zeros, "none"}, config : 0..MaxConfigs]
    BY <1>2, <2>3, <2>4, <2>5 DEF Config
  <2>7. UserType' /\ SignedOwn'
    BY <1>2, <2>6, KeysAssumption DEF Sign, NativeInv, UserType, SignedOwn
  <2> QED
    BY <1>1, <2>7, WipesKeepHandles DEF Sign, NativeInv, StoreWipes, StoreInv
<1> QED
  BY <1>3, <1>4

LEMMA ReleaseConfigKeeps ==
  ASSUME NativeInv, NEW c \in 1..Len(configs), Release(c) \/ Zeroize(c)
  PROVE  NativeInv'
<1>1. StoreInv
  BY DEF NativeInv, StoreInv
<1>2. StoreWipes
  BY <1>1, ReleaseKeeps, ZeroizeKeeps DEF Release, Zeroize
<1>3. UserType' /\ UNCHANGED <<configs, signature>>
  BY DEF Release, Zeroize, NativeInv, UserType
<1> QED
  BY <1>2, <1>3, DrawKeeps

LEMMA NativeStep ==
  ASSUME NativeInv, [NativeNext]_nativeVars
  PROVE  NativeInv'
<1>1. CASE \E k \in Keys : Provision(k)
  BY <1>1, ProvisionKeeps
<1>2. CASE draw # NoDraw /\ \E n \in 1..(EntropySize - draw.got) : GetRandom(n)
  BY <1>2, GetRandomKeeps
<1>3. CASE GetRandomFails
  BY <1>3, GetRandomFailsKeeps
<1>4. CASE Provisioned
  BY <1>4, ProvisionedKeeps
<1>5. CASE \E c \in 1..Len(configs) : Sign(c) \/ Release(c) \/ Zeroize(c)
  BY <1>5, SignKeeps, ReleaseConfigKeeps
<1>6. CASE UNCHANGED nativeVars
  <2>1. UNCHANGED storeVars /\ UNCHANGED <<draw, configs, signature>>
    BY <1>6 DEF nativeVars
  <2>2. UserType'
    BY <2>1 DEF NativeInv, UserType
  <2> QED
    BY <2>1, <2>2, RestKeepsStore, DrawKeeps
<1> QED
  BY <1>1, <1>2, <1>3, <1>4, <1>5, <1>6 DEF NativeNext

\* One buffer for every used slot and one used slot for every live buffer.
LEMMA HeldIsOwnedOnce ==
  ASSUME StoreType, Held
  PROVE  BuffersOwnedOnce
<1> DEFINE holders(b) == {i \in 1..Slots : table[i].ptr = b}
           used == {i \in 1..Slots : Used(i)}
           live == {b \in 1..Len(heap) : heap[b].live}
<1>1. Len(heap) \in Nat
  BY DEF StoreType
<1>2. ASSUME NEW b \in 1..Len(heap)
      PROVE  Cardinality(holders(b)) = IF heap[b].live THEN 1 ELSE 0
  <2>1. \A i \in holders(b) : Used(i)
    BY <1>1 DEF Used
  <2>2. CASE heap[b].live
    <3>1. PICK i \in 1..Slots : table[i].ptr = b
      BY <2>2 DEF Held
    <3>2. holders(b) = {i}
      BY <2>1, <3>1 DEF Held
    <3> HIDE DEF holders
    <3> QED
      BY <2>2, <3>2, FS_Singleton
  <2>3. CASE ~heap[b].live
    <3>1. holders(b) = {}
      BY <2>1, <2>3 DEF Held
    <3> HIDE DEF holders
    <3> QED
      BY <2>3, <3>1, FS_EmptySet
  <2> QED
    BY <2>2, <2>3
<1>3. IsFiniteSet(used)
  <2>1. IsFiniteSet(1..Slots)
    BY FS_Interval
  <2> QED
    BY <2>1, FS_Subset
<1>4. ExistsBijection(used, live)
  <2> DEFINE f == [i \in used |-> table[i].ptr]
  <2>1. f \in [used -> live]
    BY DEF Held
  <2>2. \A i, j \in used : f[i] = f[j] => i = j
    BY DEF Held
  <2>3. \A b \in live : \E i \in used : f[i] = b
    <3>1. SUFFICES ASSUME NEW b \in live
                   PROVE  \E i \in used : f[i] = b
      OBVIOUS
    <3>2. PICK i \in 1..Slots : table[i].ptr = b
      BY DEF Held
    <3>3. b # 0
      BY <1>1
    <3> QED
      BY <3>2, <3>3 DEF Used
  <2> HIDE DEF f, used, live
  <2>4. f \in Bijection(used, live)
    BY <2>1, <2>2, <2>3 DEF Bijection, Injection, Surjection, IsInjective
  <2> QED
    BY <2>4 DEF ExistsBijection
<1>5. Cardinality(live) = Cardinality(used)
  BY <1>3, <1>4, FS_Bijection
<1> QED
  BY <1>2, <1>5 DEF BuffersOwnedOnce, LiveCount

\* The inductive invariant of the store holds in every reachable state.
THEOREM NativeInvariant == NativeSpec => []NativeInv
<1>1. NativeInit => NativeInv
  BY NativeStart
<1>2. NativeInv /\ [NativeNext]_nativeVars => NativeInv'
  BY NativeStep
<1> QED
  BY <1>1, <1>2, PTL DEF NativeSpec

\* The table, the heap, the draw and the configurations keep their types.
THEOREM NativeTypeCorrect == NativeSpec => []NativeTypeOK
<1>1. NativeInv => NativeTypeOK
  BY DEF NativeInv, StoreType, UserType, NativeTypeOK, Buffer, Config
<1> QED
  BY <1>1, NativeInvariant, PTL

\* No order of provisioning, signing, release and zeroize, full tables, failed
\* allocations and repeated releases included, leaks a buffer, frees it twice
\* or leaves a slot pointing at freed memory (kroopt_secret_alloc, _release).
THEOREM OwnedOnceCorrect == NativeSpec => []BuffersOwnedOnce
<1>1. NativeInv => BuffersOwnedOnce
  BY HeldIsOwnedOnce DEF NativeInv
<1> QED
  BY <1>1, NativeInvariant, PTL

\* What kroopt_secret_release gives back to malloc never holds a key.
THEOREM FreedIsWipedCorrect == NativeSpec => []FreedIsWiped
<1>1. NativeInv => FreedIsWiped
  BY DEF NativeInv
<1> QED
  BY <1>1, NativeInvariant, PTL

\* A handle never signs with the key of another configuration, also when its
\* slot was released and taken over.
THEOREM SignsCorrect == NativeSpec => []SignsWithOwnKey
<1>1. NativeInv => SignsWithOwnKey
  BY DEF NativeInv, SignedOwn, SignsWithOwnKey
<1> QED
  BY <1>1, NativeInvariant, PTL

-----------------------------------------------------------------------------
(* The arena.                                                              *)

Secret == 1..Len(origin)
Entry == [id : Nat, secret : Nat]
Origin == [as : {"secret", "key", "iv"}, from : Nat]
KeyRecord == [route : Routes, value : [key : Nat, iv : Nat]]
BaseRecord == [route : Routes, value : Nat]
SuiteRecord == [route : Routes, value : Suites]

ArenaType ==
  /\ entries \in Seq(Entry)
  /\ arenaNextId \in Nat \ {0} /\ generation \in Nat
  /\ installed \in Seq(KeyRecord)
  /\ baseSecrets \in Seq(BaseRecord)
  /\ installedSuites \in Seq(SuiteRecord)
  /\ origin \in Seq(Origin)
  /\ \A i \in 1..Len(entries) : entries[i].secret \in Secret
  /\ \A h \in issued : h.secret \in Secret
  /\ current \in [Routes -> [secret : Nat, suite : Suites \cup {"none"}]]

\* No id of the current generation is given out twice, and the entry that has
\* it holds what the handle was returned for.
HandlesFresh ==
  /\ \A i \in 1..Len(entries) : entries[i].id < arenaNextId
  /\ \A h \in issued :
       /\ h.generation \in 0..generation
       /\ h.generation = generation =>
            /\ h.id \in 0..(arenaNextId - 1)
            /\ \A i \in 1..Len(entries) :
                 entries[i].id = h.id => entries[i].secret = h.secret

\* The three lists of routes grow together, with adjacent ids.
RoutesAligned ==
  /\ Len(baseSecrets) = Len(installed) /\ Len(installedSuites) = Len(installed)
  /\ \A j \in 1..Len(installed) :
       /\ baseSecrets[j].route = installed[j].route
       /\ installedSuites[j].route = installed[j].route
       /\ installed[j].value.iv = installed[j].value.key + 1
       /\ baseSecrets[j].value = installed[j].value.key + 2
       /\ baseSecrets[j].value < arenaNextId

Newest(j) == \A k \in 1..(j - 1) : installed[k].route # installed[j].route

\* The ids of installation j hold what was derived from s, if anything.
HoldsKeysOf(j, s) ==
  \A i \in 1..Len(entries) :
    /\ entries[i].id = installed[j].value.key =>
         origin[entries[i].secret] = [as |-> "key", from |-> s]
    /\ entries[i].id = installed[j].value.iv =>
         origin[entries[i].secret] = [as |-> "iv", from |-> s]
    /\ entries[i].id = baseSecrets[j].value => entries[i].secret = s

\* Key and IV of one installation were derived one after the other.
KeyPairs ==
  \A j \in 1..Len(installed), i, l \in 1..Len(entries) :
    entries[i].id = installed[j].value.key
      /\ entries[l].id = installed[j].value.iv =>
        entries[l].secret = entries[i].secret + 1

\* The newest installation of a route is the current one.
RoutesCurrent ==
  /\ \A j \in 1..Len(installed) : Newest(j) =>
       \E s \in Secret :
         /\ current[installed[j].route]
              = [secret |-> s, suite |-> installedSuites[j].value]
         /\ HoldsKeysOf(j, s)
  /\ \A r \in Routes :
       current[r] = Nothing \/ \E j \in 1..Len(installed) : installed[j].route = r

ArenaInv ==
  /\ ArenaType
  /\ HandlesFresh /\ RoutesAligned /\ RoutesCurrent /\ KeyPairs
  /\ NothingStranded

-----------------------------------------------------------------------------
(* Filtering and looking up.                                               *)

IsKept(f, list, id, m) ==
  f = [n \in 0..m |-> IF n = 0 THEN <<>>
                      ELSE IF list[n].id = id THEN f[n - 1]
                      ELSE Append(f[n - 1], list[n])]

\* The recursion of Without defines a function on every prefix.
LEMMA KeptExists ==
  ASSUME NEW list, NEW id, NEW N \in Nat
  PROVE  \E f : IsKept(f, list, id, N)
<1> DEFINE Fails == {m \in Nat : ~\E f : IsKept(f, list, id, m)}
<1>1. SUFFICES ASSUME Fails # {}
               PROVE  FALSE
  OBVIOUS
<1>2. PICK m \in Fails : \A l \in Fails : m <= l
  <2>1. Fails \in SUBSET Nat
    OBVIOUS
  <2> QED
    BY <1>1, <2>1, Least
<1>3. CASE m = 0
  <2>1. IsKept([n \in 0..0 |-> <<>>], list, id, 0)
    BY DEF IsKept
  <2> QED
    BY <1>2, <1>3, <2>1
<1>4. CASE m # 0
  <2>1. PICK g : IsKept(g, list, id, m - 1)
    BY <1>2, <1>4
  <2> DEFINE last == IF list[m].id = id THEN g[m - 1]
                     ELSE Append(g[m - 1], list[m])
             f == [n \in 0..m |-> IF n = m THEN last ELSE g[n]]
  <2>2. \A n \in 0..(m - 1) :
          g[n] = IF n = 0 THEN <<>>
                 ELSE IF list[n].id = id THEN g[n - 1]
                 ELSE Append(g[n - 1], list[n])
    BY <2>1 DEF IsKept
  <2>3. \A n \in 0..m :
          f[n] = IF n = 0 THEN <<>>
                 ELSE IF list[n].id = id THEN f[n - 1]
                 ELSE Append(f[n - 1], list[n])
    <3>1. SUFFICES ASSUME NEW n \in 0..m
                   PROVE  f[n] = IF n = 0 THEN <<>>
                                 ELSE IF list[n].id = id THEN f[n - 1]
                                 ELSE Append(f[n - 1], list[n])
      OBVIOUS
    <3>2. CASE n = m
      <4>1. f[n] = last /\ f[n - 1] = g[n - 1] /\ n # 0
        BY <1>2, <1>4, <3>2
      <4> QED
        BY <3>2, <4>1
    <3>3. CASE n # m /\ n # 0
      <4>1. f[n] = g[n] /\ f[n - 1] = g[n - 1] /\ n \in 0..(m - 1)
        BY <1>2, <1>4, <3>3
      <4> HIDE DEF f
      <4> QED
        BY <2>2, <3>3, <4>1
    <3>4. CASE n # m /\ n = 0
      <4>1. f[n] = g[n] /\ n \in 0..(m - 1)
        BY <1>2, <1>4, <3>4
      <4> HIDE DEF f
      <4> QED
        BY <2>2, <3>4, <4>1
    <3> QED
      BY <3>2, <3>3, <3>4
  <2>4. f = [n \in 0..m |-> f[n]]
    OBVIOUS
  <2> HIDE DEF f
  <2>5. IsKept(f, list, id, m)
    BY <2>3, <2>4 DEF IsKept
  <2> QED
    BY <1>2, <2>5
<1> QED
  BY <1>3, <1>4

LEMMA KeptValue ==
  ASSUME NEW f, NEW list, NEW id, NEW N \in Nat, IsKept(f, list, id, N)
  PROVE  /\ f[0] = <<>>
         /\ \A n \in 1..N :
              /\ list[n].id = id => f[n] = f[n - 1]
              /\ list[n].id # id => f[n] = Append(f[n - 1], list[n])
<1>1. \A n \in 0..N : f[n] = IF n = 0 THEN <<>>
                            ELSE IF list[n].id = id THEN f[n - 1]
                            ELSE Append(f[n - 1], list[n])
  BY DEF IsKept
<1>2. 0 \in 0..N /\ \A n \in 1..N : n \in 0..N /\ n # 0
  OBVIOUS
<1>3. f[0] = <<>>
  BY <1>1, <1>2, Zenon
<1>4. \A n \in 1..N :
        /\ list[n].id = id => f[n] = f[n - 1]
        /\ list[n].id # id => f[n] = Append(f[n - 1], list[n])
  BY <1>1, <1>2, Zenon
<1> QED
  BY <1>3, <1>4

\* What remains was there before under another id.
LEMMA WithoutKeeps ==
  ASSUME NEW T, NEW list \in Seq(T), NEW id
  PROVE  /\ Without(list, id) \in Seq(T)
         /\ \A i \in 1..Len(Without(list, id)) : \E j \in 1..Len(list) :
              Without(list, id)[i] = list[j] /\ list[j].id # id
<1> DEFINE N == Len(list)
           f == CHOOSE f : IsKept(f, list, id, N)
           Good(n) == /\ f[n] \in Seq(T)
                      /\ \A i \in 1..Len(f[n]) : \E j \in 1..N :
                           f[n][i] = list[j] /\ list[j].id # id
           Bad == {n \in 0..N : ~Good(n)}
<1>1. N \in Nat
  OBVIOUS
<1>2. IsKept(f, list, id, N)
  BY <1>1, KeptExists
<1>3. Without(list, id) = f[N]
  BY DEF Without, IsKept
<1> HIDE DEF f
<1>4. /\ f[0] = <<>>
      /\ \A n \in 1..N : /\ list[n].id = id => f[n] = f[n - 1]
                         /\ list[n].id # id => f[n] = Append(f[n - 1], list[n])
  BY <1>1, <1>2, KeptValue
<1>5. SUFFICES ASSUME Bad # {}
               PROVE  FALSE
  <2>1. N \in 0..N
    BY <1>1
  <2>2. Good(N) => /\ Without(list, id) \in Seq(T)
                   /\ \A i \in 1..Len(Without(list, id)) :
                        \E j \in 1..N : /\ Without(list, id)[i] = list[j]
                                       /\ list[j].id # id
    BY <1>3, Zenon
  <2> HIDE DEF Good
  <2> QED
    BY <2>1, <2>2
<1> HIDE DEF Good
<1>6. PICK n \in Bad : \A l \in Bad : n <= l
  <2>1. Bad \in SUBSET Nat
    BY <1>1
  <2> QED
    BY <1>5, <2>1, Least
<1>7. CASE n = 0
  <2>1. f[n] = <<>>
    BY <1>4, <1>7
  <2>2. f[n] \in Seq(T) /\ Len(f[n]) = 0
    BY <2>1
  <2> QED
    BY <1>6, <2>2 DEF Good
<1>8. CASE n # 0
  <2>1. n \in 1..N /\ n - 1 \in 0..N
    BY <1>1, <1>6, <1>8
  <2>2. Good(n - 1)
    <3> SUFFICES ASSUME ~Good(n - 1)
                 PROVE  FALSE
      OBVIOUS
    <3>1. n - 1 \in Bad
      BY <2>1
    <3>2. n <= n - 1
      BY <1>6, <3>1, Zenon
    <3> QED
      BY <2>1, <3>2
  <2>3. CASE list[n].id = id
    <3>1. f[n] = f[n - 1]
      BY <1>4, <2>1, <2>3
    <3>2. Good(n)
      BY <2>2, <3>1, Zenon DEF Good
    <3> QED
      BY <1>6, <3>2
  <2>4. CASE list[n].id # id
    <3>1. f[n] = Append(f[n - 1], list[n])
      BY <1>4, <2>1, <2>4
    <3>t. list[n] \in T
      BY <1>1, <2>1
    <3>2. /\ f[n] \in Seq(T) /\ Len(f[n]) = Len(f[n - 1]) + 1
          /\ f[n][Len(f[n - 1]) + 1] = list[n]
          /\ \A i \in 1..Len(f[n - 1]) : f[n][i] = f[n - 1][i]
          /\ Len(f[n - 1]) \in Nat
      BY <2>2, <3>1, <3>t DEF Good
    <3>3. ASSUME NEW i \in 1..Len(f[n])
          PROVE  \E j \in 1..N : f[n][i] = list[j] /\ list[j].id # id
      <4>1. CASE i = Len(f[n - 1]) + 1
        BY <2>1, <2>4, <3>2, <4>1
      <4>2. CASE i \in 1..Len(f[n - 1])
        BY <2>2, <3>2, <4>2 DEF Good
      <4> QED
        BY <3>2, <4>1, <4>2
    <3> QED
      BY <1>6, <3>2, <3>3 DEF Good
  <2> QED
    BY <2>3, <2>4
<1> QED
  BY <1>7, <1>8

\* The first entry with an id is the one that answers to it.
LEMMA GetByIdIs ==
  ASSUME entries \in Seq(Entry), NEW id, NEW s \in GetById(id)
  PROVE  \E i \in 1..Len(entries) : entries[i].id = id /\ entries[i].secret = s
BY DEF GetById, FirstMatch

\* The lookup by route returns the value recorded last for the route.
LEMMA LookupIs ==
  ASSUME NEW T, NEW list \in Seq(T), NEW r, NEW v
  PROVE  v \in Lookup(list, r) <=>
           \E j \in 1..Len(list) :
             /\ list[j].route = r /\ list[j].value = v
             /\ \A k \in 1..(j - 1) : list[k].route # r
<1> DEFINE hits == {i \in DOMAIN list : list[i].route = r}
<1>1. DOMAIN list = 1..Len(list) /\ Len(list) \in Nat
  OBVIOUS
<1>2. Lookup(list, r) =
        {e.value : e \in {list[i] : i \in {j \in hits : \A k \in hits : j <= k}}}
  BY DEF Lookup, FirstMatch
<1>3. \A j \in hits : (\A k \in hits : j <= k)
                      <=> (\A k \in 1..(j - 1) : list[k].route # r)
  BY <1>1
<1> QED
  BY <1>1, <1>2, <1>3

-----------------------------------------------------------------------------
(* The arena's steps.                                                      *)

LEMMA ArenaStart ==
  ASSUME ArenaInit
  PROVE  ArenaInv
<1>1. /\ Len(entries) = 0 /\ Len(installed) = 0 /\ Len(baseSecrets) = 0
      /\ Len(installedSuites) = 0 /\ DOMAIN entries = {}
  BY DEF ArenaInit
<1>2. ArenaType
  BY <1>1 DEF ArenaInit, ArenaType, Nothing
<1>3. HandlesFresh /\ RoutesAligned /\ RoutesCurrent /\ NothingStranded
  BY <1>1
  DEF ArenaInit, HandlesFresh, RoutesAligned, RoutesCurrent, NothingStranded
<1>4. KeyPairs
  BY <1>1 DEF KeyPairs
<1> QED
  BY <1>2, <1>3, <1>4 DEF ArenaInv

\* What StoreAll adds stands before the entries there were.
LEMMA StoreAllAdds ==
  ASSUME ArenaType, NEW secrets \in Seq(Nat), StoreAll(secrets)
  PROVE  /\ entries' \in Seq(Entry)
         /\ Len(entries') = Len(secrets) + Len(entries)
         /\ \A i \in 1..Len(entries') :
              \/ /\ i \in 1..Len(secrets)
                 /\ entries'[i].id = arenaNextId + Len(secrets) - i
                 /\ entries'[i].secret = secrets[Len(secrets) - i + 1]
              \/ /\ i - Len(secrets) \in 1..Len(entries)
                 /\ entries'[i] = entries[i - Len(secrets)]
<1> DEFINE made == [i \in DOMAIN secrets |->
                     [id |-> arenaNextId + i - 1, secret |-> secrets[i]]]
           new == Reverse(made)
           n == Len(secrets)
<1>1. n \in Nat /\ DOMAIN secrets = 1..n /\ arenaNextId \in Nat \ {0}
      /\ entries \in Seq(Entry) /\ Len(entries) \in Nat
  BY DEF ArenaType
<1>2. made \in Seq(Entry) /\ Len(made) = n
  BY <1>1 DEF Entry
<1>3. \A i \in 1..n : /\ made[i].id = arenaNextId + i - 1
                      /\ made[i].secret = secrets[i]
  BY <1>1
<1> HIDE DEF made
<1>4. new = [i \in 1..n |-> made[n - i + 1]]
  BY <1>2 DEF Reverse
<1>5. new \in Seq(Entry) /\ Len(new) = n
  BY <1>1, <1>2, <1>4
<1>6. \A i \in 1..n : /\ new[i].id = arenaNextId + n - i
                      /\ new[i].secret = secrets[n - i + 1]
  BY <1>1, <1>3, <1>4
<1>7. entries' = new \o entries
  BY DEF StoreAll, made
<1> HIDE DEF new
<1>8. /\ entries' \in Seq(Entry) /\ Len(entries') = n + Len(entries)
      /\ \A i \in 1..n : entries'[i] = new[i]
      /\ \A i \in (n + 1)..(n + Len(entries)) : entries'[i] = entries[i - n]
  BY <1>1, <1>5, <1>7
<1>9. ASSUME NEW i \in 1..Len(entries')
      PROVE  \/ /\ i \in 1..n
                /\ entries'[i].id = arenaNextId + n - i
                /\ entries'[i].secret = secrets[n - i + 1]
             \/ /\ i - n \in 1..Len(entries)
                /\ entries'[i] = entries[i - n]
  <2>1. CASE i \in 1..n
    BY <1>6, <1>8, <2>1
  <2>2. CASE i \notin 1..n
    <3>1. i \in (n + 1)..(n + Len(entries)) /\ i - n \in 1..Len(entries)
      BY <1>1, <1>8, <2>2
    <3> QED
      BY <1>8, <3>1
  <2> QED
    BY <2>1, <2>2
<1> QED
  BY <1>8, <1>9

\* The types of the parts of one entry and of one installation.
LEMMA ArenaFacts ==
  ASSUME ArenaInv
  PROVE  /\ arenaNextId \in Nat \ {0} /\ generation \in Nat
         /\ entries \in Seq(Entry) /\ Len(entries) \in Nat
         /\ DOMAIN entries = 1..Len(entries)
         /\ Len(origin) \in Nat /\ Len(installed) \in Nat
         /\ DOMAIN installed = 1..Len(installed)
         /\ Len(baseSecrets) = Len(installed)
         /\ DOMAIN baseSecrets = 1..Len(installed)
         /\ Len(installedSuites) = Len(installed)
BY DEF ArenaInv, ArenaType, RoutesAligned

LEMMA EntryFacts ==
  ASSUME ArenaInv, NEW l \in 1..Len(entries)
  PROVE  /\ entries[l].id \in Nat /\ entries[l].id < arenaNextId
         /\ entries[l].secret \in Secret
<1>1. entries \in Seq(Entry) /\ entries[l].secret \in Secret
  BY DEF ArenaInv, ArenaType
<1>2. entries[l].id < arenaNextId
  BY DEF ArenaInv, HandlesFresh
<1>3. entries[l] \in Entry
  BY <1>1
<1> QED
  BY <1>1, <1>2, <1>3 DEF Entry

LEMMA RouteFacts ==
  ASSUME ArenaInv, NEW j \in 1..Len(installed)
  PROVE  /\ installed[j].route \in Routes
         /\ baseSecrets[j].route = installed[j].route
         /\ installedSuites[j].route = installed[j].route
         /\ installed[j].value.key \in Nat
         /\ installed[j].value.iv = installed[j].value.key + 1
         /\ baseSecrets[j].value = installed[j].value.key + 2
         /\ baseSecrets[j].value < arenaNextId
         /\ installedSuites[j].value \in Suites
<1>1. /\ installed \in Seq(KeyRecord) /\ installedSuites \in Seq(SuiteRecord)
      /\ Len(installedSuites) = Len(installed)
  BY DEF ArenaInv, ArenaType, RoutesAligned
<1>2. installed[j] \in KeyRecord /\ installedSuites[j] \in SuiteRecord
  BY <1>1
<1>3. /\ baseSecrets[j].route = installed[j].route
      /\ installedSuites[j].route = installed[j].route
      /\ installed[j].value.iv = installed[j].value.key + 1
      /\ baseSecrets[j].value = installed[j].value.key + 2
      /\ baseSecrets[j].value < arenaNextId
  BY DEF ArenaInv, RoutesAligned
<1> QED
  BY <1>2, <1>3 DEF KeyRecord, SuiteRecord

\* A step that stores k secrets under fresh ids and forgets nothing.
Grows(k) ==
  /\ k \in Nat /\ arenaNextId' = arenaNextId + k /\ generation' = generation
  /\ entries' \in Seq(Entry)
  /\ \A i \in 1..Len(entries') :
       /\ entries'[i].secret \in 1..Len(origin')
       /\ \/ entries'[i].id \in arenaNextId..(arenaNextId + k - 1)
          \/ \E l \in 1..Len(entries) : entries'[i] = entries[l]
  /\ origin' \in Seq(Origin) /\ Len(origin') >= Len(origin)
  /\ \A s \in Secret : origin'[s] = origin[s]

\* Fresh ids leave what earlier installations hold as it was.
LEMMA GrowsKeepsRoutes ==
  ASSUME ArenaInv, NEW k, Grows(k),
         NEW j \in 1..Len(installed), NEW s, HoldsKeysOf(j, s),
         NEW i \in 1..Len(entries')
  PROVE  /\ entries'[i].id = installed[j].value.key =>
              origin'[entries'[i].secret] = [as |-> "key", from |-> s]
         /\ entries'[i].id = installed[j].value.iv =>
              origin'[entries'[i].secret] = [as |-> "iv", from |-> s]
         /\ entries'[i].id = baseSecrets[j].value => entries'[i].secret = s
<1>1. /\ installed[j].value.key \in Nat
      /\ installed[j].value.iv = installed[j].value.key + 1
      /\ baseSecrets[j].value = installed[j].value.key + 2
      /\ baseSecrets[j].value < arenaNextId
      /\ arenaNextId \in Nat
  BY RouteFacts, ArenaFacts
<1>2. CASE entries'[i].id \in arenaNextId..(arenaNextId + k - 1)
  <2>1. entries'[i].id \in Nat /\ entries'[i].id >= arenaNextId /\ k \in Nat
    BY <1>1, <1>2 DEF Grows
  <2> QED
    <3>1. /\ entries'[i].id # installed[j].value.key
          /\ entries'[i].id # baseSecrets[j].value
      BY <1>1, <2>1
    <3>2. entries'[i].id # installed[j].value.iv
      BY <1>1, <2>1
    <3> QED
      BY <3>1, <3>2, Zenon
<1>3. ASSUME NEW l \in 1..Len(entries), entries'[i] = entries[l]
      PROVE  /\ entries'[i].id = installed[j].value.key =>
                  origin'[entries'[i].secret] = [as |-> "key", from |-> s]
             /\ entries'[i].id = installed[j].value.iv =>
                  origin'[entries'[i].secret] = [as |-> "iv", from |-> s]
             /\ entries'[i].id = baseSecrets[j].value => entries'[i].secret = s
  <2>1. entries[l].secret \in Secret
    BY EntryFacts
  <2>2. origin'[entries[l].secret] = origin[entries[l].secret]
    BY <2>1 DEF Grows
  <2> QED
    BY <1>3, <2>2 DEF HoldsKeysOf
<1> QED
  BY <1>2, <1>3 DEF Grows

LEMMA GrowsKeepsPairs ==
  ASSUME ArenaInv, NEW k, Grows(k), NEW j \in 1..Len(installed),
         NEW i \in 1..Len(entries'), NEW l \in 1..Len(entries'),
         entries'[i].id = installed[j].value.key,
         entries'[l].id = installed[j].value.iv
  PROVE  entries'[l].secret = entries'[i].secret + 1
<1>1. /\ installed[j].value.key \in Nat
      /\ installed[j].value.iv = installed[j].value.key + 1
      /\ installed[j].value.key + 2 < arenaNextId
      /\ arenaNextId \in Nat
  BY RouteFacts, ArenaFacts
<1>2. \A m \in 1..Len(entries') :
        \/ entries'[m].id \in arenaNextId..(arenaNextId + k - 1)
        \/ \E o \in 1..Len(entries) : entries'[m] = entries[o]
  BY DEF Grows
<1>a. k \in Nat
  BY DEF Grows
<1>b. /\ entries'[i].id \notin arenaNextId..(arenaNextId + k - 1)
      /\ entries'[l].id \notin arenaNextId..(arenaNextId + k - 1)
  BY <1>1, <1>a
<1>3. PICK o \in 1..Len(entries) : entries'[i] = entries[o]
  BY <1>2, <1>b
<1>4. PICK q \in 1..Len(entries) : entries'[l] = entries[q]
  BY <1>2, <1>b
<1> QED
  BY <1>3, <1>4 DEF ArenaInv, KeyPairs

\* The handles given out before still resolve to their own.
LEMMA GrowsKeepsHandles ==
  ASSUME ArenaInv, NEW k, Grows(k)
  PROVE  /\ \A i \in 1..Len(entries') : entries'[i].id < arenaNextId'
         /\ \A h \in issued :
              /\ h.generation \in 0..generation'
              /\ h.generation = generation' =>
                   /\ h.id \in 0..(arenaNextId' - 1)
                   /\ \A i \in 1..Len(entries') :
                        entries'[i].id = h.id => entries'[i].secret = h.secret
<1>1. arenaNextId \in Nat \ {0} /\ k \in Nat /\ arenaNextId' = arenaNextId + k
  BY ArenaFacts DEF Grows
<1>2. \A i \in 1..Len(entries') : entries'[i].id < arenaNextId'
  <2> SUFFICES ASSUME NEW i \in 1..Len(entries')
               PROVE  entries'[i].id < arenaNextId'
    OBVIOUS
  <2>1. \A l \in 1..Len(entries) :
          entries[l].id \in Nat /\ entries[l].id < arenaNextId
    BY EntryFacts
  <2> QED
    BY <1>1, <2>1 DEF Grows
<1>3. ASSUME NEW h \in issued, h.generation = generation
      PROVE  /\ h.id \in 0..(arenaNextId' - 1)
             /\ \A i \in 1..Len(entries') :
                  entries'[i].id = h.id => entries'[i].secret = h.secret
  <2>1. /\ h.id \in 0..(arenaNextId - 1)
        /\ \A i \in 1..Len(entries) :
             entries[i].id = h.id => entries[i].secret = h.secret
    BY <1>3 DEF ArenaInv, HandlesFresh
  <2>2. \A i \in 1..Len(entries') :
          \/ entries'[i].id \in arenaNextId..(arenaNextId + k - 1)
          \/ \E l \in 1..Len(entries) : entries'[i] = entries[l]
    BY DEF Grows
  <2>3. \A i \in 1..Len(entries') :
          entries'[i].id = h.id => entries'[i].secret = h.secret
    BY <1>1, <2>1, <2>2
  <2> QED
    BY <1>1, <2>1, <2>3
<1> QED
  BY <1>2, <1>3 DEF Grows, ArenaInv, HandlesFresh

LEMMA ProduceKeeps ==
  ASSUME ArenaInv, Produce
  PROVE  ArenaInv'
<1> DEFINE n == Len(origin) + 1
           new == [as |-> "secret", from |-> 0]
           h == [id |-> arenaNextId, generation |-> generation, secret |-> n]
<1>1. /\ ArenaType /\ Len(origin) \in Nat /\ Len(entries) \in Nat
      /\ arenaNextId \in Nat \ {0} /\ generation \in Nat
  BY ArenaFacts DEF ArenaInv
<1>2. /\ <<n>> \in Seq(Nat) /\ Len(<<n>>) = 1 /\ <<n>>[1] = n
      /\ n = Len(origin) + 1 /\ n \in Nat
  BY <1>1
<1>3. /\ StoreAll(<<n>>) /\ origin' = Append(origin, new)
      /\ generation' = generation /\ issued' = issued \cup {h}
      /\ installed' = installed /\ baseSecrets' = baseSecrets
      /\ installedSuites' = installedSuites /\ current' = current
  BY DEF Produce, lists
<1>h. h.generation = generation /\ h.id = arenaNextId /\ h.secret = n
  OBVIOUS
<1>o. new \in Origin
  BY DEF Origin
<1> HIDE DEF n, h, new
<1>4. /\ entries' \in Seq(Entry) /\ Len(entries') = 1 + Len(entries)
      /\ \A i \in 1..Len(entries') :
           \/ i = 1 /\ entries'[i].id = arenaNextId /\ entries'[i].secret = n
           \/ i - 1 \in 1..Len(entries) /\ entries'[i] = entries[i - 1]
  <2>1. /\ entries' \in Seq(Entry) /\ Len(entries') = 1 + Len(entries)
        /\ \A i \in 1..Len(entries') :
             \/ /\ i \in 1..1
                /\ entries'[i].id = arenaNextId + 1 - i
                /\ entries'[i].secret = <<n>>[1 - i + 1]
             \/ /\ i - 1 \in 1..Len(entries)
                /\ entries'[i] = entries[i - 1]
    BY <1>1, <1>2, <1>3, StoreAllAdds
  <2> QED
    BY <1>1, <1>2, <2>1
<1>5. arenaNextId' = arenaNextId + 1
  BY <1>2, <1>3 DEF StoreAll
<1>6. /\ origin' \in Seq(Origin)
      /\ Len(origin') = n /\ \A s \in Secret : origin'[s] = origin[s]
  BY <1>1, <1>2, <1>3, <1>o DEF ArenaType, Secret
<1>e. \A l \in 1..Len(entries) :
        /\ entries[l].id \in Nat /\ entries[l].id < arenaNextId
        /\ entries[l].secret \in 1..Len(origin)
  BY EntryFacts DEF Secret
<1>c. \A i \in 1..Len(entries') :
        \/ entries'[i].id = arenaNextId /\ entries'[i].secret = n
        \/ /\ entries'[i].id \in Nat /\ entries'[i].id < arenaNextId
           /\ entries'[i].secret \in 1..Len(origin)
  <2> SUFFICES ASSUME NEW i \in 1..Len(entries')
               PROVE  \/ entries'[i].id = arenaNextId /\ entries'[i].secret = n
                      \/ /\ entries'[i].id \in Nat
                         /\ entries'[i].id < arenaNextId
                         /\ entries'[i].secret \in 1..Len(origin)
    OBVIOUS
  <2>1. CASE i - 1 \in 1..Len(entries) /\ entries'[i] = entries[i - 1]
    BY <1>e, <2>1
  <2> QED
    BY <1>4, <2>1
<1>7. \A i \in 1..Len(entries') : entries'[i].secret \in 1..n
  BY <1>1, <1>2, <1>c
<1>8. Grows(1)
  <2>1. \A i \in 1..Len(entries') :
          \/ entries'[i].id \in arenaNextId..(arenaNextId + 1 - 1)
          \/ \E l \in 1..Len(entries) : entries'[i] = entries[l]
    <3> SUFFICES ASSUME NEW i \in 1..Len(entries')
                 PROVE  \/ entries'[i].id \in arenaNextId..(arenaNextId + 1 - 1)
                        \/ \E l \in 1..Len(entries) : entries'[i] = entries[l]
      OBVIOUS
    <3>1. CASE i = 1 /\ entries'[i].id = arenaNextId
      <4>1. arenaNextId \in arenaNextId..(arenaNextId + 1 - 1)
        BY <1>1
      <4> QED
        BY <3>1, <4>1, Zenon
    <3>2. CASE i - 1 \in 1..Len(entries) /\ entries'[i] = entries[i - 1]
      BY <3>2, Zenon
    <3> QED
      BY <1>4, <3>1, <3>2, Zenon
  <2>2. Len(origin') >= Len(origin) /\ 1 \in Nat
    BY <1>1, <1>2, <1>6
  <2>3. generation' = generation /\ Len(origin') = n
    BY <1>3, <1>6
  <2> QED
    BY <1>4, <1>5, <1>6, <1>7, <2>1, <2>2, <2>3 DEF Grows
<1>9. ArenaType'
  <2>1. \A g \in issued' : g.secret \in 1..n
    BY <1>1, <1>2, <1>3, <1>h DEF ArenaType, Secret
  <2>2. arenaNextId' \in Nat \ {0} /\ generation' \in Nat
    BY <1>1, <1>3, <1>5 DEF ArenaType
  <2>3. /\ installed' \in Seq(KeyRecord) /\ baseSecrets' \in Seq(BaseRecord)
        /\ installedSuites' \in Seq(SuiteRecord)
        /\ current' \in [Routes -> [secret : Nat, suite : Suites \cup {"none"}]]
    BY <1>1, <1>3 DEF ArenaType
  <2>4. Secret' = 1..n
    BY <1>6 DEF Secret
  <2> QED
    BY <1>4, <1>6, <1>7, <2>1, <2>2, <2>3, <2>4, Zenon DEF ArenaType
<1>10. HandlesFresh'
  <2>1. \A i \in 1..Len(entries') :
          entries'[i].id = h.id => entries'[i].secret = h.secret
    BY <1>1, <1>h, <1>c
  <2> QED
    BY <1>1, <1>3, <1>5, <1>h, <1>8, <2>1, GrowsKeepsHandles DEF HandlesFresh
<1>11. RoutesAligned'
  <2>1. RoutesAligned
    BY DEF ArenaInv
  <2>2. ASSUME NEW j \in 1..Len(installed)
        PROVE  baseSecrets[j].value < arenaNextId + 1
    <3>1. /\ installed[j].value.key \in Nat
          /\ baseSecrets[j].value = installed[j].value.key + 2
          /\ baseSecrets[j].value < arenaNextId
      BY RouteFacts, Zenon
    <3>2. arenaNextId \in Nat
      BY <1>1
    <3> QED
      BY <3>1, <3>2
  <2>3. /\ installed' = installed /\ baseSecrets' = baseSecrets
        /\ installedSuites' = installedSuites
    BY <1>3
  <2> QED
    BY <1>5, <2>1, <2>2, <2>3, Zenon DEF RoutesAligned
<1>12. RoutesCurrent'
  <2>1. ASSUME NEW j \in 1..Len(installed), NEW s, HoldsKeysOf(j, s)
        PROVE  HoldsKeysOf(j, s)'
    <3>1. \A i \in 1..Len(entries') :
            /\ entries'[i].id = installed[j].value.key =>
                 origin'[entries'[i].secret] = [as |-> "key", from |-> s]
            /\ entries'[i].id = installed[j].value.iv =>
                 origin'[entries'[i].secret] = [as |-> "iv", from |-> s]
            /\ entries'[i].id = baseSecrets[j].value => entries'[i].secret = s
      BY <1>8, <2>1, GrowsKeepsRoutes
    <3> QED
      BY <1>3, <3>1 DEF HoldsKeysOf
  <2>2. \A x \in Secret : x \in Secret'
    BY <1>1, <1>2, <1>6 DEF Secret
  <2> QED
    BY <1>3, <2>1, <2>2 DEF ArenaInv, RoutesCurrent, Newest
<1>14. KeyPairs'
  BY <1>3, <1>8, GrowsKeepsPairs DEF KeyPairs
<1>13. NothingStranded'
  <2>1. DOMAIN entries' = 1..Len(entries')
    BY <1>4
  <2>2. SUFFICES ASSUME NEW i \in 1..Len(entries')
                 PROVE  \/ \E g \in issued' : g.id = entries'[i].id
                                            /\ g.generation = generation
                        \/ \E j \in DOMAIN installed :
                             entries'[i].id \in {installed[j].value.key,
                                                installed[j].value.iv}
                        \/ \E j \in DOMAIN baseSecrets :
                             baseSecrets[j].value = entries'[i].id
    BY <1>3, <2>1 DEF NothingStranded
  <2>3. CASE entries'[i].id = arenaNextId
    BY <1>3, <1>h, <2>3
  <2>4. CASE i - 1 \in 1..Len(entries) /\ entries'[i] = entries[i - 1]
    BY <1>3, <2>4, ArenaFacts DEF ArenaInv, NothingStranded
  <2> QED
    BY <1>4, <2>3, <2>4
<1> QED
  BY <1>9, <1>10, <1>11, <1>12, <1>13, <1>14 DEF ArenaInv

\* What was recorded before stands one place further.
LEMMA RecordAdds ==
  ASSUME NEW T, NEW list \in Seq(T), NEW route, NEW value,
         [route |-> route, value |-> value] \in T
  PROVE  /\ Record(list, route, value) \in Seq(T)
         /\ Len(Record(list, route, value)) = Len(list) + 1
         /\ Record(list, route, value)[1].route = route
         /\ Record(list, route, value)[1].value = value
         /\ \A j \in 1..Len(list) : Record(list, route, value)[j + 1] = list[j]
<1> DEFINE e == [route |-> route, value |-> value]
<1>1. e \in T /\ e.route = route /\ e.value = value
  OBVIOUS
<1>2. Record(list, route, value) = <<e>> \o list
  BY DEF Record
<1> HIDE DEF e
<1> QED
  BY <1>1, <1>2

LEMMA ResolvedSecret ==
  ASSUME ArenaInv, NEW h, NEW s \in Get(h)
  PROVE  s \in Secret
<1>1. s \in GetById(h.id)
  BY DEF Get
<1>2. PICK i \in 1..Len(entries) : entries[i].secret = s
  BY <1>1, GetByIdIs, ArenaFacts
<1> QED
  BY <1>2, EntryFacts

LEMMA InstallKeeps ==
  ASSUME ArenaInv, NEW suite \in Suites, NEW r \in Routes, NEW h,
         InstallTrafficKeys(suite, r, h)
  PROVE  ArenaInv'
<1> DEFINE n == Len(origin) + 1
           value == [key |-> arenaNextId, iv |-> arenaNextId + 1]
<1>1. PICK s \in Get(h) :
        /\ origin' = origin \o <<[as |-> "key", from |-> s],
                                 [as |-> "iv", from |-> s]>>
        /\ StoreAll(<<n, n + 1, s>>)
        /\ installed' = Record(installed, r, value)
        /\ baseSecrets' = Record(baseSecrets, r, arenaNextId + 2)
        /\ installedSuites' = Record(installedSuites, r, suite)
        /\ current' = [current EXCEPT ![r] = [secret |-> s, suite |-> suite]]
        /\ generation' = generation /\ issued' = issued
  BY DEF InstallTrafficKeys
<1>2. /\ ArenaType /\ Len(origin) \in Nat /\ Len(entries) \in Nat
      /\ arenaNextId \in Nat \ {0} /\ generation \in Nat
      /\ Len(installed) \in Nat /\ Len(baseSecrets) = Len(installed)
      /\ Len(installedSuites) = Len(installed)
  BY ArenaFacts DEF ArenaInv
<1>3. s \in 1..Len(origin) /\ s \in Nat \ {0}
  BY <1>2, ResolvedSecret DEF Secret
<1>4. /\ value.key = arenaNextId /\ value.iv = arenaNextId + 1
      /\ [route |-> r, value |-> value] \in KeyRecord
      /\ [route |-> r, value |-> arenaNextId + 2] \in BaseRecord
      /\ [route |-> r, value |-> suite] \in SuiteRecord
  BY <1>2 DEF KeyRecord, BaseRecord, SuiteRecord
<1>5. n \in Nat /\ n = Len(origin) + 1
  BY <1>2
<1> HIDE DEF value, n
<1>6. /\ installed' \in Seq(KeyRecord) /\ Len(installed') = Len(installed) + 1
      /\ installed'[1].route = r /\ installed'[1].value = value
      /\ \A j \in 1..Len(installed) : installed'[j + 1] = installed[j]
  <2> DEFINE value0 == value
             new == Record(installed, r, value0)
  <2>1. installed \in Seq(KeyRecord)
    BY <1>2 DEF ArenaType
  <2>2. /\ new \in Seq(KeyRecord) /\ Len(new) = Len(installed) + 1
        /\ new[1].route = r /\ new[1].value = value0
        /\ \A j \in 1..Len(installed) : new[j + 1] = installed[j]
    BY <1>4, <2>1, RecordAdds
  <2> HIDE DEF new
  <2>3. installed' = new
    BY <1>1 DEF new
  <2> QED
    BY <1>2, <2>2, <2>3
<1>7. /\ baseSecrets' \in Seq(BaseRecord)
      /\ Len(baseSecrets') = Len(installed) + 1
      /\ baseSecrets'[1].route = r /\ baseSecrets'[1].value = arenaNextId + 2
      /\ \A j \in 1..Len(installed) : baseSecrets'[j + 1] = baseSecrets[j]
  <2> DEFINE value0 == arenaNextId + 2
             new == Record(baseSecrets, r, value0)
  <2>1. baseSecrets \in Seq(BaseRecord)
    BY <1>2 DEF ArenaType
  <2>2. /\ new \in Seq(BaseRecord) /\ Len(new) = Len(baseSecrets) + 1
        /\ new[1].route = r /\ new[1].value = value0
        /\ \A j \in 1..Len(baseSecrets) : new[j + 1] = baseSecrets[j]
    BY <1>4, <2>1, RecordAdds
  <2> HIDE DEF new
  <2>3. baseSecrets' = new
    BY <1>1 DEF new
  <2> QED
    BY <1>2, <2>2, <2>3
<1>8. /\ installedSuites' \in Seq(SuiteRecord)
      /\ Len(installedSuites') = Len(installed) + 1
      /\ installedSuites'[1].route = r /\ installedSuites'[1].value = suite
      /\ \A j \in 1..Len(installed) : installedSuites'[j + 1] = installedSuites[j]
  <2> DEFINE value0 == suite
             new == Record(installedSuites, r, value0)
  <2>1. installedSuites \in Seq(SuiteRecord)
    BY <1>2 DEF ArenaType
  <2>2. /\ new \in Seq(SuiteRecord) /\ Len(new) = Len(installedSuites) + 1
        /\ new[1].route = r /\ new[1].value = value0
        /\ \A j \in 1..Len(installedSuites) : new[j + 1] = installedSuites[j]
    BY <1>4, <2>1, RecordAdds
  <2> HIDE DEF new
  <2>3. installedSuites' = new
    BY <1>1 DEF new
  <2> QED
    BY <1>2, <2>2, <2>3
<1>9. /\ origin' \in Seq(Origin) /\ Len(origin') = n + 1
      /\ origin'[n] = [as |-> "key", from |-> s]
      /\ origin'[n + 1] = [as |-> "iv", from |-> s]
      /\ \A x \in 1..Len(origin) : origin'[x] = origin[x]
  <2> DEFINE k == [as |-> "key", from |-> s]
             v == [as |-> "iv", from |-> s]
  <2>1. k \in Origin /\ v \in Origin
    BY <1>3 DEF Origin
  <2>2. origin \in Seq(Origin) /\ origin' = origin \o <<k, v>>
    BY <1>1, <1>2 DEF ArenaType
  <2> HIDE DEF k, v
  <2>3. <<k, v>> \in Seq(Origin) /\ Len(<<k, v>>) = 2
    BY <2>1
  <2>4. /\ origin' \in Seq(Origin) /\ Len(origin') = n + 1
        /\ origin'[n] = k /\ origin'[n + 1] = v
        /\ \A x \in 1..Len(origin) : origin'[x] = origin[x]
    BY <1>2, <1>5, <2>2, <2>3
  <2> QED
    BY <2>4 DEF k, v
<1>10. /\ entries' \in Seq(Entry) /\ Len(entries') = 3 + Len(entries)
       /\ arenaNextId' = arenaNextId + 3
       /\ \A i \in 1..Len(entries') :
            \/ entries'[i].id = arenaNextId + 2 /\ entries'[i].secret = s
            \/ entries'[i].id = arenaNextId + 1 /\ entries'[i].secret = n + 1
            \/ entries'[i].id = arenaNextId /\ entries'[i].secret = n
            \/ \E l \in 1..Len(entries) : entries'[i] = entries[l]
  <2>1. /\ <<n, n + 1, s>> \in Seq(Nat) /\ Len(<<n, n + 1, s>>) = 3
        /\ <<n, n + 1, s>>[1] = n /\ <<n, n + 1, s>>[2] = n + 1
        /\ <<n, n + 1, s>>[3] = s
    BY <1>3, <1>5
  <2> DEFINE secrets == <<n, n + 1, s>>
  <2> HIDE DEF secrets
  <2>2. /\ entries' \in Seq(Entry) /\ Len(entries') = Len(secrets) + Len(entries)
        /\ \A i \in 1..Len(entries') :
             \/ /\ i \in 1..Len(secrets)
                /\ entries'[i].id = arenaNextId + Len(secrets) - i
                /\ entries'[i].secret = secrets[Len(secrets) - i + 1]
             \/ /\ i - Len(secrets) \in 1..Len(entries)
                /\ entries'[i] = entries[i - Len(secrets)]
    BY <1>1, <1>2, <2>1, StoreAllAdds DEF secrets
  <2>3. arenaNextId' = arenaNextId + Len(secrets)
    BY <1>1 DEF StoreAll, secrets
  <2>4. /\ Len(secrets) = 3 /\ secrets[1] = n /\ secrets[2] = n + 1
        /\ secrets[3] = s
    BY <2>1 DEF secrets
  <2>5. ASSUME NEW i \in 1..Len(entries')
        PROVE  \/ entries'[i].id = arenaNextId + 2 /\ entries'[i].secret = s
               \/ entries'[i].id = arenaNextId + 1 /\ entries'[i].secret = n + 1
               \/ entries'[i].id = arenaNextId /\ entries'[i].secret = n
               \/ \E l \in 1..Len(entries) : entries'[i] = entries[l]
    <3>1. CASE i = 1 \/ i = 2 \/ i = 3
      BY <1>2, <2>2, <2>4, <3>1
    <3>2. CASE i \notin 1..3
      BY <2>2, <2>4, <3>2
    <3> QED
      BY SMTT(30), <1>2, <2>2, <2>4, <3>1, <3>2
  <2> QED
    BY <2>2, <2>3, <2>4, <2>5
<1>11. \A l \in 1..Len(entries) :
        /\ entries[l].id \in Nat /\ entries[l].id < arenaNextId
        /\ entries[l].secret \in 1..Len(origin)
  BY EntryFacts DEF Secret
<1>12. \A i \in 1..Len(entries') : entries'[i].secret \in 1..(n + 1)
  <2>1. s \in 1..(n + 1) /\ n \in 1..(n + 1) /\ n + 1 \in 1..(n + 1)
    BY <1>2, <1>3, <1>5
  <2>2. \A l \in 1..Len(entries) : entries[l].secret \in 1..(n + 1)
    BY <1>2, <1>5, <1>11
  <2> QED
    BY <1>10, <2>1, <2>2
<1>13. Grows(3)
  <2>1. \A i \in 1..Len(entries') :
          \/ entries'[i].id \in arenaNextId..(arenaNextId + 3 - 1)
          \/ \E l \in 1..Len(entries) : entries'[i] = entries[l]
    BY <1>2, <1>10
  <2>2. Len(origin') >= Len(origin) /\ 3 \in Nat
    BY <1>2, <1>5, <1>9
  <2> QED
    BY <1>1, <1>9, <1>10, <1>12, <2>1, <2>2 DEF Grows, Secret
<1>14. ArenaType'
  <2>1. \A g \in issued' : g.secret \in 1..Len(origin')
    BY <1>1, <1>2, <1>5, <1>9 DEF ArenaType, Secret
  <2>2. current' \in [Routes -> [secret : Nat, suite : Suites \cup {"none"}]]
    BY <1>1, <1>2, <1>3 DEF ArenaType
  <2> QED
    BY SMTT(30), <1>1, <1>2, <1>6, <1>7, <1>8, <1>9, <1>10, <1>12, <2>1, <2>2
    DEF ArenaType, Secret
<1>15. HandlesFresh'
  BY <1>1, <1>13, GrowsKeepsHandles DEF HandlesFresh
<1>16. RoutesAligned'
  <2>1. ASSUME NEW j \in 1..Len(installed')
        PROVE  /\ baseSecrets'[j].route = installed'[j].route
               /\ installedSuites'[j].route = installed'[j].route
               /\ installed'[j].value.iv = installed'[j].value.key + 1
               /\ baseSecrets'[j].value = installed'[j].value.key + 2
               /\ baseSecrets'[j].value < arenaNextId'
    <3>1. CASE j = 1
      BY <1>2, <1>4, <1>6, <1>7, <1>8, <1>10, <3>1
    <3>2. CASE j - 1 \in 1..Len(installed)
      <4>1. /\ installed'[j] = installed[j - 1]
            /\ baseSecrets'[j] = baseSecrets[j - 1]
            /\ installedSuites'[j] = installedSuites[j - 1]
        BY <1>6, <1>7, <1>8, <3>2
      <4>2. /\ baseSecrets[j - 1].route = installed[j - 1].route
            /\ installedSuites[j - 1].route = installed[j - 1].route
            /\ installed[j - 1].value.key \in Nat
            /\ installed[j - 1].value.iv = installed[j - 1].value.key + 1
            /\ baseSecrets[j - 1].value = installed[j - 1].value.key + 2
            /\ baseSecrets[j - 1].value < arenaNextId
        BY <3>2, RouteFacts
      <4> QED
        BY SMTT(30), <1>2, <1>10, <4>1, <4>2
    <3> QED
      BY <1>2, <1>6, <3>1, <3>2
  <2> QED
    BY <1>6, <1>7, <1>8, <2>1 DEF RoutesAligned
<1>f. s \in 1..Len(origin') /\ \A x \in Secret : x \in 1..Len(origin')
  BY <1>2, <1>3, <1>5, <1>9 DEF Secret
<1>17. RoutesCurrent'
  <2>1. ASSUME NEW j \in 1..Len(installed'), Newest(j)'
        PROVE  \E t \in 1..Len(origin') :
                 /\ current'[installed'[j].route]
                      = [secret |-> t, suite |-> installedSuites'[j].value]
                 /\ HoldsKeysOf(j, t)'
    <3>1. CASE j = 1
      <4>1. current'[r] = [secret |-> s, suite |-> suite]
        BY <1>1, <1>2 DEF ArenaType
      <4>2. ASSUME NEW i \in 1..Len(entries')
            PROVE  /\ entries'[i].id = arenaNextId => entries'[i].secret = n
                   /\ entries'[i].id = arenaNextId + 1 =>
                        entries'[i].secret = n + 1
                   /\ entries'[i].id = arenaNextId + 2 => entries'[i].secret = s
        BY SMTT(30), <1>2, <1>10, <1>11
      <4>3. HoldsKeysOf(j, s)'
        BY <1>4, <1>6, <1>7, <1>9, <3>1, <4>2 DEF HoldsKeysOf
      <4> QED
        BY <1>f, <1>6, <1>8, <3>1, <4>1, <4>3
    <3>2. CASE j - 1 \in 1..Len(installed)
      <4> DEFINE o == j - 1
      <4>1. /\ o \in 1..Len(installed) /\ j = o + 1
            /\ installed'[j] = installed[o]
            /\ baseSecrets'[j] = baseSecrets[o]
            /\ installedSuites'[j] = installedSuites[o]
        BY <1>2, <1>6, <1>7, <1>8, <3>2
      <4> HIDE DEF o
      <4>2. PICK q \in Routes : q = installed[o].route
        BY <4>1, RouteFacts
      <4>3. q # r
        <5>1. installed'[1].route # installed'[j].route
          BY <1>2, <2>1, <4>1 DEF Newest
        <5> QED
          BY <1>6, <4>1, <4>2, <5>1
      <4>4. Newest(o)
        <5>1. ASSUME NEW k \in 1..(o - 1)
              PROVE  installed[k].route # installed[o].route
          <6>1. k + 1 \in 1..(j - 1) /\ k \in 1..Len(installed)
            BY <1>2, <4>1
          <6>2. installed'[k + 1].route # installed'[j].route
            BY <2>1, <6>1 DEF Newest
          <6> QED
            BY <1>6, <4>1, <6>1, <6>2
        <5> QED
          BY <5>1 DEF Newest
      <4>5. PICK t \in Secret :
              /\ current[q] = [secret |-> t, suite |-> installedSuites[o].value]
              /\ HoldsKeysOf(o, t)
        BY <4>1, <4>2, <4>4 DEF ArenaInv, RoutesCurrent
      <4>6. current'[q] = current[q]
        BY <1>1, <1>2, <4>2, <4>3 DEF ArenaType
      <4>7. \A i \in 1..Len(entries') :
              /\ entries'[i].id = installed[o].value.key =>
                   origin'[entries'[i].secret] = [as |-> "key", from |-> t]
              /\ entries'[i].id = installed[o].value.iv =>
                   origin'[entries'[i].secret] = [as |-> "iv", from |-> t]
              /\ entries'[i].id = baseSecrets[o].value => entries'[i].secret = t
        BY <1>13, <4>1, <4>5, GrowsKeepsRoutes
      <4>8. HoldsKeysOf(j, t)'
        BY <4>1, <4>7 DEF HoldsKeysOf
      <4> QED
        BY <1>f, <4>1, <4>2, <4>5, <4>6, <4>8
    <3>3. j = 1 \/ j - 1 \in 1..Len(installed)
      BY <1>2, <1>6
    <3> QED
      BY <3>1, <3>2, <3>3, Zenon
  <2>2. ASSUME NEW q \in Routes
        PROVE  \/ current'[q] = Nothing
               \/ \E j \in 1..Len(installed') : installed'[j].route = q
    <3>1. CASE q = r
      BY <1>2, <1>6, <3>1
    <3>2. CASE q # r /\ current[q] = Nothing
      BY <1>1, <1>2, <3>2 DEF ArenaType
    <3>3. ASSUME NEW j \in 1..Len(installed), installed[j].route = q
          PROVE  \E l \in 1..Len(installed') : installed'[l].route = q
      <4>1. j + 1 \in 1..Len(installed')
        BY <1>2, <1>6
      <4> QED
        BY <1>6, <3>3, <4>1
    <3> QED
      BY <3>1, <3>2, <3>3 DEF ArenaInv, RoutesCurrent
  <2> QED
    BY <2>1, <2>2 DEF RoutesCurrent, Nothing, Secret
<1>19. KeyPairs'
  <2>1. ASSUME NEW j \in 1..Len(installed'), NEW i \in 1..Len(entries'),
               NEW l \in 1..Len(entries'),
               entries'[i].id = installed'[j].value.key,
               entries'[l].id = installed'[j].value.iv
        PROVE  entries'[l].secret = entries'[i].secret + 1
    <3>1. CASE j = 1
      <4>1. ASSUME NEW m \in 1..Len(entries')
            PROVE  /\ entries'[m].id = arenaNextId => entries'[m].secret = n
                   /\ entries'[m].id = arenaNextId + 1 =>
                        entries'[m].secret = n + 1
        <5>1. CASE \E o \in 1..Len(entries) : entries'[m] = entries[o]
          BY <1>2, <1>11, <5>1
        <5>2. CASE ~\E o \in 1..Len(entries) : entries'[m] = entries[o]
          <6>1. \/ entries'[m].id = arenaNextId + 2
                \/ entries'[m].id = arenaNextId + 1
                   /\ entries'[m].secret = n + 1
                \/ entries'[m].id = arenaNextId /\ entries'[m].secret = n
            BY <1>10, <5>2, Zenon
          <6> QED
            BY <1>2, <6>1
        <5> QED
          BY <5>1, <5>2
      <4> QED
        BY <1>4, <1>6, <2>1, <3>1, <4>1
    <3>2. CASE j - 1 \in 1..Len(installed)
      <4>1. installed'[j] = installed[j - 1]
        BY <1>2, <1>6, <3>2
      <4> QED
        BY <1>13, <2>1, <3>2, <4>1, GrowsKeepsPairs
    <3>3. j = 1 \/ j - 1 \in 1..Len(installed)
      BY <1>2, <1>6
    <3> QED
      BY <3>1, <3>2, <3>3, Zenon
  <2> QED
    BY <2>1 DEF KeyPairs
<1>18. NothingStranded'
  <2>1. /\ DOMAIN entries' = 1..Len(entries')
        /\ DOMAIN installed' = 1..(Len(installed) + 1)
        /\ DOMAIN baseSecrets' = 1..(Len(installed) + 1)
    BY <1>6, <1>7, <1>10
  <2>2. SUFFICES ASSUME NEW i \in 1..Len(entries')
                 PROVE  \/ \E g \in issued' : g.id = entries'[i].id
                                            /\ g.generation = generation'
                        \/ \E j \in 1..(Len(installed) + 1) :
                             entries'[i].id \in {installed'[j].value.key,
                                                installed'[j].value.iv}
                        \/ \E j \in 1..(Len(installed) + 1) :
                             baseSecrets'[j].value = entries'[i].id
    BY <2>1 DEF NothingStranded
  <2>3. CASE entries'[i].id \in {arenaNextId, arenaNextId + 1, arenaNextId + 2}
    BY <1>2, <1>4, <1>6, <1>7, <2>3
  <2>4. ASSUME NEW l \in 1..Len(entries), entries'[i] = entries[l]
        PROVE  \/ \E g \in issued' : g.id = entries'[i].id
                                   /\ g.generation = generation'
               \/ \E j \in 1..(Len(installed) + 1) :
                    entries'[i].id \in {installed'[j].value.key,
                                       installed'[j].value.iv}
               \/ \E j \in 1..(Len(installed) + 1) :
                    baseSecrets'[j].value = entries'[i].id
    <3>1. \/ \E g \in issued : g.id = entries[l].id /\ g.generation = generation
          \/ \E j \in 1..Len(installed) :
               entries[l].id \in {installed[j].value.key, installed[j].value.iv}
          \/ \E j \in 1..Len(installed) : baseSecrets[j].value = entries[l].id
      BY ArenaFacts DEF ArenaInv, NothingStranded
    <3>2. \A j \in 1..Len(installed) :
            /\ j + 1 \in 1..(Len(installed) + 1)
            /\ installed'[j + 1] = installed[j]
            /\ baseSecrets'[j + 1] = baseSecrets[j]
      <4> SUFFICES ASSUME NEW j \in 1..Len(installed)
                   PROVE  /\ j + 1 \in 1..(Len(installed) + 1)
                          /\ installed'[j + 1] = installed[j]
                          /\ baseSecrets'[j + 1] = baseSecrets[j]
        OBVIOUS
      <4>1. j + 1 \in 1..(Len(installed) + 1)
        BY <1>2
      <4> QED
        BY <1>6, <1>7, <4>1
    <3> QED
      BY <1>1, <2>4, <3>1, <3>2
  <2> QED
    BY <1>10, <2>3, <2>4
<1> QED
  BY <1>14, <1>15, <1>16, <1>17, <1>18, <1>19 DEF ArenaInv

LEMMA ReleaseHandleKeeps ==
  ASSUME ArenaInv, NEW h, ReleaseHandle(h)
  PROVE  ArenaInv'
<1>1. /\ entries' = Without(entries, h.id) /\ arenaNextId' = arenaNextId
      /\ generation' = generation /\ origin' = origin /\ issued' = issued
      /\ installed' = installed /\ baseSecrets' = baseSecrets
      /\ installedSuites' = installedSuites /\ current' = current
  BY DEF ReleaseHandle, lists
<1>2. /\ entries' \in Seq(Entry)
      /\ \A i \in 1..Len(entries') :
           \E l \in 1..Len(entries) : entries'[i] = entries[l]
  BY <1>1, WithoutKeeps, ArenaFacts
<1>3. ArenaType'
  BY <1>1, <1>2 DEF ArenaInv, ArenaType, Secret
<1>4. HandlesFresh'
  <2>1. \A i \in 1..Len(entries') : entries'[i].id < arenaNextId
    BY <1>2 DEF ArenaInv, HandlesFresh
  <2>2. ASSUME NEW g \in issued, g.generation = generation
        PROVE  \A i \in 1..Len(entries') :
                 entries'[i].id = g.id => entries'[i].secret = g.secret
    BY <1>2, <2>2 DEF ArenaInv, HandlesFresh
  <2> QED
    BY <1>1, <2>1, <2>2 DEF ArenaInv, HandlesFresh
<1>5. RoutesAligned'
  BY <1>1 DEF ArenaInv, RoutesAligned
<1>6. RoutesCurrent'
  <2>1. ASSUME NEW j, NEW s, HoldsKeysOf(j, s)
        PROVE  HoldsKeysOf(j, s)'
    BY <1>1, <1>2, <2>1 DEF HoldsKeysOf
  <2> QED
    BY <1>1, <2>1 DEF ArenaInv, RoutesCurrent, Newest, Secret
<1>7. KeyPairs'
  <2>1. ASSUME NEW j \in 1..Len(installed), NEW i \in 1..Len(entries'),
               NEW l \in 1..Len(entries'),
               entries'[i].id = installed[j].value.key,
               entries'[l].id = installed[j].value.iv
        PROVE  entries'[l].secret = entries'[i].secret + 1
    <3>1. PICK o \in 1..Len(entries) : entries'[i] = entries[o]
      BY <1>2
    <3>2. PICK q \in 1..Len(entries) : entries'[l] = entries[q]
      BY <1>2
    <3> QED
      BY <2>1, <3>1, <3>2 DEF ArenaInv, KeyPairs
  <2> QED
    BY <1>1, <2>1 DEF KeyPairs
<1>8. NothingStranded'
  <2>1. DOMAIN entries' = 1..Len(entries') /\ DOMAIN entries = 1..Len(entries)
    BY <1>2, ArenaFacts
  <2> QED
    BY <1>1, <1>2, <2>1 DEF ArenaInv, NothingStranded
<1> QED
  BY <1>3, <1>4, <1>5, <1>6, <1>7, <1>8 DEF ArenaInv

LEMMA BumpKeeps ==
  ASSUME ArenaInv, BumpGeneration
  PROVE  ArenaInv'
<1>1. /\ entries' = <<>> /\ installed' = <<>> /\ baseSecrets' = <<>>
      /\ installedSuites' = <<>> /\ arenaNextId' = 1
      /\ generation' = generation + 1 /\ generation \in Nat
      /\ current' = [r \in Routes |-> Nothing]
      /\ origin' = origin /\ issued' = issued
  BY ArenaFacts DEF BumpGeneration
<1>2. /\ Len(entries') = 0 /\ Len(installed') = 0 /\ Len(baseSecrets') = 0
      /\ Len(installedSuites') = 0 /\ DOMAIN entries' = {}
  BY <1>1
<1>3. ArenaType'
  <2>1. current' \in [Routes -> [secret : Nat, suite : Suites \cup {"none"}]]
    BY <1>1 DEF Nothing
  <2> QED
    BY <1>1, <1>2, <2>1 DEF ArenaInv, ArenaType, Secret
<1>4. HandlesFresh'
  BY <1>1, <1>2 DEF ArenaInv, HandlesFresh
<1>5. RoutesAligned' /\ RoutesCurrent' /\ KeyPairs' /\ NothingStranded'
  BY <1>1, <1>2 DEF RoutesAligned, RoutesCurrent, KeyPairs, NothingStranded
<1> QED
  BY <1>3, <1>4, <1>5 DEF ArenaInv

LEMMA ArenaStutter ==
  ASSUME ArenaInv, UNCHANGED arenaVars
  PROVE  ArenaInv'
<1>1. /\ entries' = entries /\ arenaNextId' = arenaNextId
      /\ generation' = generation /\ origin' = origin /\ issued' = issued
      /\ installed' = installed /\ baseSecrets' = baseSecrets
      /\ installedSuites' = installedSuites /\ current' = current
  BY DEF arenaVars, arena, lists
<1>2. ArenaType'
  BY <1>1 DEF ArenaInv, ArenaType, Secret
<1>3. HandlesFresh' /\ RoutesAligned'
  BY <1>1 DEF ArenaInv, HandlesFresh, RoutesAligned
<1>4. RoutesCurrent'
  <2>1. ASSUME NEW j, NEW s, HoldsKeysOf(j, s)
        PROVE  HoldsKeysOf(j, s)'
    BY <1>1, <2>1 DEF HoldsKeysOf
  <2> QED
    BY <1>1, <2>1 DEF ArenaInv, RoutesCurrent, Newest, Secret
<1>5. KeyPairs' /\ NothingStranded'
  BY <1>1 DEF ArenaInv, KeyPairs, NothingStranded
<1> QED
  BY <1>2, <1>3, <1>4, <1>5 DEF ArenaInv

LEMMA ArenaStep ==
  ASSUME ArenaInv, [ArenaNext]_arenaVars
  PROVE  ArenaInv'
<1>1. CASE Ecdhe
  BY <1>1, ProduceKeeps DEF Ecdhe
<1>2. CASE \E s, k \in issued : \E salts \in {{}, {s}}, ikms \in {{}, {k}} :
             Extract(salts, ikms)
  BY <1>2, ProduceKeeps DEF Extract
<1>3. CASE \E h \in issued : ExpandLabel(h) \/ ReleaseHandle(h)
  BY <1>3, ProduceKeeps, ReleaseHandleKeeps DEF ExpandLabel
<1>4. CASE \E suite \in Suites, r \in Routes, h \in issued :
             InstallTrafficKeys(suite, r, h)
  BY <1>4, InstallKeeps
<1>5. CASE BumpGeneration
  BY <1>5, BumpKeeps
<1>6. CASE UNCHANGED arenaVars
  BY <1>6, ArenaStutter
<1> QED
  BY <1>1, <1>2, <1>3, <1>4, <1>5, <1>6 DEF ArenaNext

\* The inductive invariant of the arena holds in every reachable state.
THEOREM ArenaInvariant == ArenaSpec => []ArenaInv
<1>1. ArenaInit => ArenaInv
  BY ArenaStart
<1>2. ArenaInv /\ [ArenaNext]_arenaVars => ArenaInv'
  BY ArenaStep
<1> QED
  BY <1>1, <1>2, PTL DEF ArenaSpec

\* A handle resolves to the secret it was returned for or to nothing, also
\* after the ids have started again (SecretArena.get in Crypto/Arena.lean).
THEOREM HandlesCorrect == ArenaSpec => []HandlesResolveToOwn
<1>1. ASSUME ArenaInv
      PROVE  HandlesResolveToOwn
  <2>1. ASSUME NEW h \in issued, NEW s \in Get(h)
        PROVE  s = h.secret
    <3>1. h.generation = generation /\ s \in GetById(h.id)
      BY <2>1 DEF Get
    <3>2. PICK i \in 1..Len(entries) :
            entries[i].id = h.id /\ entries[i].secret = s
      BY <1>1, <3>1, GetByIdIs, ArenaFacts
    <3> QED
      BY <1>1, <3>1, <3>2 DEF ArenaInv, HandlesFresh
  <2> QED
    BY <2>1 DEF HandlesResolveToOwn
<1>2. ArenaInv => HandlesResolveToOwn
  BY <1>1
<1> QED
  BY <1>2, ArenaInvariant, PTL

\* Of each route the newest installation is recorded first, if there is one.
LEMMA NewestExists ==
  ASSUME ArenaInv, NEW r, NEW j \in 1..Len(installed), installed[j].route = r
  PROVE  \E l \in 1..Len(installed) : installed[l].route = r /\ Newest(l)
<1> DEFINE S == {l \in 1..Len(installed) : installed[l].route = r}
<1>1. S \in SUBSET Nat /\ S # {}
  OBVIOUS
<1>2. PICK l \in S : \A m \in S : l <= m
  BY <1>1, Least
<1>3. Newest(l)
  BY <1>2, ArenaFacts DEF Newest
<1> QED
  BY <1>2, <1>3

LEMMA NewestUnique ==
  ASSUME ArenaInv, NEW j \in 1..Len(installed), NEW l \in 1..Len(installed),
         installed[j].route = installed[l].route, Newest(j), Newest(l)
  PROVE  j = l
BY ArenaFacts DEF Newest

\* What a route resolves to comes from its newest installation.
LEMMA LookupNewest ==
  ASSUME ArenaInv, NEW r, NEW j \in 1..Len(installed), NEW list,
         list \in {installed, baseSecrets, installedSuites},
         list[j].route = r, \A k \in 1..(j - 1) : list[k].route # r
  PROVE  installed[j].route = r /\ Newest(j)
<1>1. \A k \in 1..Len(installed) : list[k].route = installed[k].route
  BY RouteFacts
<1> QED
  BY <1>1, ArenaFacts DEF Newest

LEMMA CurrentRoutes ==
  ASSUME ArenaInv, NEW r \in Routes
  PROVE  /\ \A k \in RecordKeys(r) :
              /\ current[r].secret # 0
              /\ origin[k.key] = [as |-> "key", from |-> current[r].secret]
              /\ origin[k.iv] = [as |-> "iv", from |-> current[r].secret]
              /\ k.iv = k.key + 1
         /\ BaseSecret(r) \subseteq {current[r].secret}
         /\ Lookup(installedSuites, r)
              = IF current[r] = Nothing THEN {} ELSE {current[r].suite}
<1>1. /\ installed \in Seq(KeyRecord) /\ baseSecrets \in Seq(BaseRecord)
      /\ installedSuites \in Seq(SuiteRecord)
      /\ Len(baseSecrets) = Len(installed) /\ Len(installedSuites) = Len(installed)
      /\ entries \in Seq(Entry)
  BY DEF ArenaInv, ArenaType, RoutesAligned
<1>2. ASSUME NEW j \in 1..Len(installed), installed[j].route = r, Newest(j)
      PROVE  \E s \in Secret :
               /\ current[r] = [secret |-> s, suite |-> installedSuites[j].value]
               /\ HoldsKeysOf(j, s)
  BY <1>2 DEF ArenaInv, RoutesCurrent
<1>3. ASSUME NEW k \in RecordKeys(r)
      PROVE  /\ current[r].secret # 0
             /\ origin[k.key] = [as |-> "key", from |-> current[r].secret]
             /\ origin[k.iv] = [as |-> "iv", from |-> current[r].secret]
             /\ k.iv = k.key + 1
  <2>1. PICK p \in Lookup(installed, r) :
          k.key \in GetById(p.key) /\ k.iv \in GetById(p.iv)
    BY <1>3 DEF RecordKeys
  <2>2. PICK j \in 1..Len(installed) :
          /\ installed[j].route = r /\ installed[j].value = p
          /\ \A l \in 1..(j - 1) : installed[l].route # r
    BY <1>1, <2>1, LookupIs
  <2>3. Newest(j)
    BY <2>2 DEF Newest
  <2>4. PICK s \in Secret :
          /\ current[r] = [secret |-> s, suite |-> installedSuites[j].value]
          /\ HoldsKeysOf(j, s)
    BY <1>2, <2>2, <2>3
  <2>5. PICK i \in 1..Len(entries) :
          entries[i].id = p.key /\ entries[i].secret = k.key
    BY <1>1, <2>1, GetByIdIs
  <2>6. PICK l \in 1..Len(entries) :
          entries[l].id = p.iv /\ entries[l].secret = k.iv
    BY <1>1, <2>1, GetByIdIs
  <2>7. current[r].secret = s /\ s # 0
    BY <2>4 DEF Secret
  <2>8. /\ origin[k.key] = [as |-> "key", from |-> s]
        /\ origin[k.iv] = [as |-> "iv", from |-> s]
    BY <2>2, <2>4, <2>5, <2>6 DEF HoldsKeysOf
  <2>9. k.iv = k.key + 1
    BY <2>2, <2>5, <2>6 DEF ArenaInv, KeyPairs
  <2> QED
    BY <2>7, <2>8, <2>9
<1>4. ASSUME NEW s \in BaseSecret(r)
      PROVE  s = current[r].secret
  <2>1. PICK id \in Lookup(baseSecrets, r) : s \in GetById(id)
    BY <1>4 DEF BaseSecret
  <2>2. PICK j \in 1..Len(installed) :
          /\ baseSecrets[j].route = r /\ baseSecrets[j].value = id
          /\ \A l \in 1..(j - 1) : baseSecrets[l].route # r
    BY <1>1, <2>1, LookupIs
  <2>3. installed[j].route = r /\ Newest(j)
    BY <2>2, LookupNewest
  <2>4. PICK t \in Secret :
          /\ current[r] = [secret |-> t, suite |-> installedSuites[j].value]
          /\ HoldsKeysOf(j, t)
    BY <1>2, <2>3
  <2>5. PICK i \in 1..Len(entries) : entries[i].id = id /\ entries[i].secret = s
    BY <1>1, <2>1, GetByIdIs
  <2> QED
    BY <2>2, <2>4, <2>5 DEF HoldsKeysOf
<1>5. ASSUME NEW suite \in Lookup(installedSuites, r)
      PROVE  current[r] # Nothing /\ suite = current[r].suite
  <2>1. PICK j \in 1..Len(installed) :
          /\ installedSuites[j].route = r /\ installedSuites[j].value = suite
          /\ \A l \in 1..(j - 1) : installedSuites[l].route # r
    BY <1>1, <1>5, LookupIs
  <2>2. installed[j].route = r /\ Newest(j)
    BY <2>1, LookupNewest
  <2>3. PICK t \in Secret :
          current[r] = [secret |-> t, suite |-> installedSuites[j].value]
    BY <1>2, <2>2
  <2>4. t # 0 /\ current[r].secret = t /\ Nothing.secret = 0
    BY <2>3 DEF Secret, Nothing
  <2> QED
    BY <2>1, <2>3, <2>4
<1>6. ASSUME current[r] # Nothing
      PROVE  current[r].suite \in Lookup(installedSuites, r)
  <2>1. PICK l \in 1..Len(installed) : installed[l].route = r
    BY <1>6 DEF ArenaInv, RoutesCurrent
  <2>2. PICK j \in 1..Len(installed) : installed[j].route = r /\ Newest(j)
    BY <2>1, NewestExists
  <2>3. PICK t \in Secret :
          current[r] = [secret |-> t, suite |-> installedSuites[j].value]
    BY <1>2, <2>2
  <2>4. /\ installedSuites[j].route = r
        /\ \A k \in 1..(j - 1) : installedSuites[k].route # r
    <3>1. \A k \in 1..Len(installed) :
            installedSuites[k].route = installed[k].route
      BY RouteFacts
    <3>2. Len(installed) \in Nat /\ \A k \in 1..(j - 1) : k \in 1..Len(installed)
      BY ArenaFacts
    <3> QED
      BY <2>2, <3>1, <3>2 DEF Newest
  <2>5. installedSuites[j].value \in Lookup(installedSuites, r)
    <3>1. \A v : v \in Lookup(installedSuites, r) <=>
                   \E i \in 1..Len(installedSuites) :
                     /\ installedSuites[i].route = r
                     /\ installedSuites[i].value = v
                     /\ \A k \in 1..(i - 1) : installedSuites[k].route # r
      BY <1>1, LookupIs
    <3> QED
      BY <1>1, <2>4, <3>1
  <2> QED
    BY <2>3, <2>5
<1> QED
  BY <1>3, <1>4, <1>5, <1>6

\* A record is protected under the key and IV of the installation that is
\* current on its route, the Finished key comes from the same secret, or the
\* call fails: never from an earlier installation or generation
\* (RealProvider.submit).
THEOREM RoutesCorrect == ArenaSpec => []RoutesResolveToCurrent
<1>1. ArenaInv => RoutesResolveToCurrent
  BY CurrentRoutes DEF RoutesResolveToCurrent
<1> QED
  BY <1>1, ArenaInvariant, PTL

\* An operation that fails for want of room leaves no secret in the arena
\* that neither a handle nor a route names.
THEOREM NothingStrandedCorrect == ArenaSpec => []NothingStranded
<1>1. ArenaInv => NothingStranded
  BY DEF ArenaInv
<1> QED
  BY <1>1, ArenaInvariant, PTL
=============================================================================
