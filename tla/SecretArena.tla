---------------------------- MODULE SecretArena -----------------------------
(***************************************************************************)
(* The secrets of one connection (Crypto/Arena.lean) and the provider      *)
(* calls that store and resolve them (RealProvider.submit).  A handle is   *)
(* an id and a generation; ids start again at 1 with every generation.     *)
(*                                                                         *)
(* A secret is the number of its derivation, and origin says what it was   *)
(* derived from: two secrets are never confused, however the ids fall.     *)
(***************************************************************************)
EXTENDS Integers, Sequences, FiniteSets, SequencesExt

CONSTANTS
  Capacity,         \* SecretArena.capacity
  Suites,           \* cipher suites
  Routes,           \* pairs of a direction and an epoch that keys are for
  MaxSecrets,       \* bound of the model: secrets ever derived
  MaxGeneration     \* bound of the model: resets of the arena

ASSUME CapacityAssumption == Capacity \in Nat
ASSUME ArenaBounds == MaxSecrets \in Nat /\ MaxGeneration \in Nat

VARIABLES
  entries,          \* stored secrets, newest first: [id, secret]
  arenaNextId, generation,
  installed,        \* key and IV ids by route, newest first
  baseSecrets,      \* id of the traffic secret by route, newest first
  installedSuites,  \* suite by route, newest first
  origin,           \* history: what each secret was derived from
  issued,           \* history: the secret each handle was returned for
  current           \* history: what was last installed on each route

lists == <<installed, baseSecrets, installedSuites>>
arena == <<entries, arenaNextId, generation, lists>>
arenaVars == <<arena, origin, issued, current>>

Nothing == [secret |-> 0, suite |-> "none"]

ArenaInit ==
  /\ entries = <<>> /\ arenaNextId = 1 /\ generation = 0
  /\ installed = <<>> /\ baseSecrets = <<>> /\ installedSuites = <<>>
  /\ origin = <<>>
  /\ issued = {}
  /\ current = [r \in Routes |-> Nothing]

-----------------------------------------------------------------------------
(* Resolving.  An optional value is a set of at most one.                  *)

FirstMatch(list, P(_)) ==
  LET hits == {i \in DOMAIN list : P(list[i])}
  IN {list[i] : i \in {j \in hits : \A k \in hits : j <= k}}

GetById(id) ==
  {e.secret : e \in FirstMatch(entries, LAMBDA e : e.id = id)}

\* Faulty form: the generation is not compared.
GetAnyGeneration(h) == GetById(h.id)

Get(h) == IF h.generation = generation THEN GetById(h.id) ELSE {}

\* lookupInstalled, lookupBaseSecret, lookupInstalledSuite
Lookup(list, route) ==
  {e.value : e \in FirstMatch(list, LAMBDA e : e.route = route)}

\* What aeadSeal and aeadOpen resolve for the metadata of a record.
RecordKeys(route) ==
  UNION {{[key |-> k, iv |-> v] : k \in GetById(p.key), v \in GetById(p.iv)} :
           p \in Lookup(installed, route)}

\* What computeServerFinished and verifyFinished resolve.
BaseSecret(route) == UNION {GetById(id) : id \in Lookup(baseSecrets, route)}

-----------------------------------------------------------------------------
(* Storing.                                                                *)

\* store, once for each of the secrets, in their order; the caller's Except
\* gives the whole up when there is no room for all of them.
StoreAll(secrets) ==
  /\ Len(entries) + Len(secrets) <= Capacity
  /\ entries' = Reverse([i \in DOMAIN secrets |->
                   [id |-> arenaNextId + i - 1, secret |-> secrets[i]]]) \o entries
  /\ arenaNextId' = arenaNextId + Len(secrets)

Record(list, route, value) ==
  <<[route |-> route, value |-> value]>> \o list

\* An operation that returns a handle to one new secret.
Produce ==
  LET n == Len(origin) + 1
  IN /\ n <= MaxSecrets
     /\ origin' = Append(origin, [as |-> "secret", from |-> 0])
     /\ StoreAll(<<n>>)
     /\ issued' = issued \cup
          {[id |-> arenaNextId, generation |-> generation, secret |-> n]}
     /\ UNCHANGED <<generation, lists, current>>

\* ecdheX25519, ecdheP256
Ecdhe == Produce

\* hkdfExtract: both inputs resolve, or default to zeros.
Extract(salts, ikms) ==
  (\A h \in salts \cup ikms : Get(h) # {}) /\ Produce

\* hkdfExpandLabel
ExpandLabel(h) == Get(h) # {} /\ Produce

\* Faulty form: the key is kept though there is no room for the IV.
InstallInPart(suite, route, h) ==
  \E s \in Get(h) :
    LET n == Len(origin) + 1
    IN /\ n <= MaxSecrets
       /\ origin' = Append(origin, [as |-> "key", from |-> s])
       /\ StoreAll(<<n>>)
       /\ UNCHANGED <<generation, lists, issued, current>>

\* installTrafficKeys: key, IV and traffic secret stored and recorded.
InstallTrafficKeys(suite, route, h) ==
  \E s \in Get(h) :
    LET n == Len(origin) + 1
    IN /\ n + 1 <= MaxSecrets
       /\ origin' = origin \o <<[as |-> "key", from |-> s],
                                [as |-> "iv", from |-> s]>>
       /\ StoreAll(<<n, n + 1, s>>)
       /\ installed' = Record(installed, route,
                              [key |-> arenaNextId, iv |-> arenaNextId + 1])
       /\ baseSecrets' = Record(baseSecrets, route, arenaNextId + 2)
       /\ installedSuites' = Record(installedSuites, route, suite)
       /\ current' = [current EXCEPT ![route] =
                        [secret |-> s, suite |-> suite]]
       /\ UNCHANGED <<generation, issued>>

\* The entries of list that are not stored under id, in their order.
Without(list, id) ==
  LET kept[n \in 0..Len(list)] ==
        IF n = 0 THEN <<>>
        ELSE IF list[n].id = id THEN kept[n - 1]
        ELSE Append(kept[n - 1], list[n])
  IN kept[Len(list)]

\* release drops the id whatever generation the handle has.
ReleaseHandle(h) ==
  /\ entries' = Without(entries, h.id)
  /\ UNCHANGED <<arenaNextId, generation, lists, origin, issued, current>>

\* Faulty form: what was installed is remembered.
BumpKeepsInstalled ==
  /\ generation < MaxGeneration
  /\ generation' = generation + 1
  /\ entries' = <<>> /\ arenaNextId' = 1
  /\ UNCHANGED lists
  /\ current' = [r \in Routes |-> Nothing]
  /\ UNCHANGED <<origin, issued>>

\* bumpGeneration: every way a connection ends.
BumpGeneration ==
  /\ generation < MaxGeneration
  /\ generation' = generation + 1
  /\ entries' = <<>> /\ arenaNextId' = 1
  /\ installed' = <<>> /\ baseSecrets' = <<>> /\ installedSuites' = <<>>
  /\ current' = [r \in Routes |-> Nothing]
  /\ UNCHANGED <<origin, issued>>

ArenaNext ==
  \/ Ecdhe
  \/ \E s, k \in issued : \E salts \in {{}, {s}}, ikms \in {{}, {k}} :
       Extract(salts, ikms)
  \/ \E h \in issued : ExpandLabel(h) \/ ReleaseHandle(h)
  \/ \E suite \in Suites, r \in Routes, h \in issued :
       InstallTrafficKeys(suite, r, h)
  \/ BumpGeneration

ArenaSpec == ArenaInit /\ [][ArenaNext]_arenaVars

-----------------------------------------------------------------------------
(* Properties.                                                             *)

\* A handle resolves to the secret it was returned for or to nothing: never,
\* after a reset has started the ids again, to a secret of a later generation.
HandlesResolveToOwn ==
  \A h \in issued : Get(h) \subseteq {h.secret}

\* On every route a record is protected under the key and the IV derived from
\* the secret installed last, and the Finished key comes from that secret, or
\* the call fails: never under what an earlier installation or an earlier
\* generation left behind, and never with key and IV of two installations.
RoutesResolveToCurrent ==
  \A r \in Routes :
    /\ \A k \in RecordKeys(r) :
         /\ current[r].secret # 0
         /\ origin[k.key] = [as |-> "key", from |-> current[r].secret]
         /\ origin[k.iv] = [as |-> "iv", from |-> current[r].secret]
         /\ k.iv = k.key + 1
    /\ BaseSecret(r) \subseteq {current[r].secret}
    /\ Lookup(installedSuites, r)
         = IF current[r] = Nothing THEN {} ELSE {current[r].suite}

\* Every secret in the arena is one that a handle or a route still names: an
\* operation that fails for want of room leaves none of its secrets behind.
NothingStranded ==
  \A i \in DOMAIN entries :
    \/ \E h \in issued : h.id = entries[i].id /\ h.generation = generation
    \/ \E j \in DOMAIN installed :
         entries[i].id \in {installed[j].value.key, installed[j].value.iv}
    \/ \E j \in DOMAIN baseSecrets : baseSecrets[j].value = entries[i].id
=============================================================================
