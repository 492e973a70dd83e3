# kroopt in TLA+

A verification development beside `src/Kroopt`, a TLS 1.3 server in Lean whose
protocol core is a pure function

    step : State -> InputEvent -> Except TlsError (State x List OutputAction)

and whose interpreter carries the actions out over a socket and a crypto
provider. The modules below model the core handler by handler, the interpreter
and the public calls around it, the negotiation of a ClientHello, the octets
between socket and messages, the two stores of secrets, and the cryptography
under the provider: the vendored HACL* routines that kroopt reaches and its own C
bindings. TLC checks them on small instances; for every value of the constants
TLAPS proves the safety properties of the core, the channel, the connection,
negotiation, the octet stream and the two stores of secrets, and that the
connection implements an abstract secure channel.

Contents: 1 the system, 2 the modules, 3 how the model corresponds to the code,
4 the runs, 5 bounds and fairness, 6 what the runs found, 7 the proofs, 8 what is
only model-checked, 9 what is not modelled, 10 the plan.

To repeat the work, in this directory: `tlc -config MCTlsCore.cfg MCTlsCore`,
and likewise for the rest; `tlapm TlsCoreProofs.tla`, and likewise.


## 1. The system

One connection is one core state and one runtime state, both owned by a
`TlsConn`. Nothing runs in parallel inside it: what makes it hard is that every
operation of the handshake is asked of a provider whose answer comes back as a
later event, and that closes, alerts, end of stream, timeouts and malformed
records may fall between any two of them.

| Component | State it keeps | Operations | Meets | Correct when |
|---|---|---|---|---|
| Protocol core: `Core/Step`, `RecordPath`, `Handshake`, `State` | phase, close state, read and write epoch with sequence numbers, outstanding operations, buffers, pending plaintext and Finished, transcript, key schedule, budgets | one handler per input event | events in, actions out | phases in order; `connected` only over one whole flight; every operation over the right transcript prefix; nothing waits for nobody; phase and close state agree |
| Key schedule driver: `Core/KeyScheduleDriver` | phase, transcript of each stage | `advance`, `expand` | the core pumps it with every answer | one chain of thirteen operations, each asked for once |
| Transcript, budgets: `Core/Transcript`, `Core/Budget` | message bytes, counters | append, snapshot, charge | the core | snapshots on the right side of each append |
| Provider boundary: `Core/Crypto`, `Crypto/RealProvider` | secrets, installed traffic keys | `submit` | calls from the interpreter, answers to the core | an answer for exactly what is outstanding; no nonce twice |
| Interpreter and API: `Conn/Interpreter`, `Conn/TlsConn`, `Conn/Transport` | outbound queue, plaintext out, accepted bytes, last error, terminal, keys | `recv`, `send`, `flush`, `close`, `progress`; one case per action | drives the core until no event is left or its fuel is gone | plaintext in order and once; accepted bytes owned once; alerts last; cap held; secrets dropped |
| Negotiation, configuration: `Core/Config`, `CipherSuite`, `Cert`, `Crypto/ConfigCheck` | the configuration a connection was accepted with | validation, route and parameter selection | `onClientHello` | the right certificate, parameters of both lists, no dead route |
| Parsers: `Parse/*` | none | take one record, take one message, validate a ClientHello | buffers of the core | framing independent of how bytes arrive; budgets charged for what arrived |
| Socket shim, reactor: `Native/kroopt_socket.c` | kernel buffers, descriptors, the loop's own buffers | read, write, poll, close; one turn of the loop | the core below, a client beyond | no octet lost or doubled; what is complete is framed before the loop waits |
| Secret arena: `Crypto/Arena` | secrets, generation, installed keys by direction and epoch | store, resolve, install, bump | the provider | no handle or route of an earlier generation resolves; an installation is whole or none |
| Native store: `Native/kroopt_ffi.c`, `Crypto/NativeSecret`, `Provision` | table of C buffers, next id | alloc, read, wipe, release, sign by handle | provisioning, signing | every buffer owned once; wiped before it is freed; a handle signs with its own key |
| Hashes, key derivation, encryption: `Native/hacl`, `kroopt_aesgcm.c` | a streaming state; the detected processor | hash, update, finish, MAC, extract, expand, seal, open | the provider | streams equal one shot; opens exactly what was sealed; nothing leaks from a failed open |
| Key exchange, signatures: `Native/hacl` | none | public, shared, sign, verify | the provider | what the group laws say; hostile shares and signatures refused |
| Observers: `Conn/Metrics`, `Trace`, `Uniform` | counters | record | the action stream | no influence on it |

The hard behaviours, each with its line, are the `hazards` of `PROJECT.json`:
answers that arrive after the phase they were meant for; snapshots used several
steps after they are taken; three state machines (phase, key schedule,
outstanding operation) that must advance together; ceilings met in the middle of
a handler; one counter of sequence numbers shared by data, close_notify and
alerts; a queue the transport takes any prefix of; a drive loop with limited
fuel; a runtime that gives up in the middle of an action list; routes that are
equal only after normalisation; slots and ids that are used again; and arithmetic
on words whose carries, masks and unreduced limbs go wrong on operands that no
random test meets.


## 2. The modules

    TlsTypes          phases, epochs, messages, operations, key schedule table
      TlsCore         step: one action per leaf of every handler; the open core
        TlsCoreProofs     types, phases, the close state, the flight, keys
        TlsPeer       one genuine client behind a hostile network
          TlsChannel  core + peer + asynchronous provider
            TlsChannelProofs    operations, answers and numbers
          TlsConn     core + peer + interpreter + public calls
            TlsConnProofs       secrets, seals, records, alerts, the flight
              TlsDeliveryProofs delivery, and the channel that is implemented
        SecureChannel     what a connection promises; TlsConn implements it
    TlsNegotiation    configurations, endpoints, parameters
      TlsNegotiationProofs      whom a client is shown, and on what
    Socket            the shim over a kernel that takes and gives any part
      TlsStream       octets to records to messages, and the reactor loop
        TlsStreamProofs         octets kept, in order, framed as written
    NativeSecrets     the C store of private keys, provisioning, signing by handle
    SecretArena       the secrets of a connection, by id and generation
      SecretsProofs             both stores
    ListFacts         least elements, flattened sequences: lemmas of several proofs

    Words             machine words, carries, masks, 128 bits as pairs, octets
      Sha2            SHA-2, streaming states, HMAC, HKDF for one width
        HashFamilies  the functions by name on two widths; one streaming state
      Chacha20, Poly1305, Chacha20Poly1305
      EverCrypt       agile AES-GCM around its assembly, processor detection
        NativeCrypto  the bindings: hashes, derivation, seals and opens
      Bignum          multi-word integers, Karatsuba, Montgomery, powers
        RSAPSS        keys, encoding, signing, verification
      Bignum256       the same for four words, with a context for a modulus
      Field25519      five limbs
      Curve25519      the ladder
        Ed25519       points, scalars, signatures
      P256            field, points, ECDH, ECDSA
    KeyAlgebra        reference: modular arithmetic, affine group laws
      NativeKeys      the bindings: key exchange and signatures
        KeyArithmetic the integers below, against TLA+'s own

    MCTlsCore, MCTlsChannel, MCTlsConn, MCTlsStream, MCServer, MCSymmetric,
    MCAsymmetric: values for the constants; MCServer and MCSymmetric also say which
    of the machines that share no state moves.

`TlsCore` is open: any record, any answer and any call may come at any time. It
is what the theorems are about, because whatever holds of it holds under every
provider, peer and caller. `TlsChannel` and `TlsConn` close it in two different
ways. `TlsChannel` uses the asynchronous provider the core is specified for
(answers late, in any order, or never unless fairness says so). `TlsConn` uses
the synchronous interpreter that is in the repository and adds the transport and
the caller. `TlsNegotiation` opens the one thing `TlsCore` abstracts: the verdict
of `onClientHello`, which for the core is a name for the message
(`ClientHello`, or a refused one).

Two further levels refine what the channel modules take as given. `TlsStream` has
the octets that `TlsCore` counts in fragments; `SecretArena`, `NativeSecrets`,
`NativeCrypto` and `NativeKeys` have what stands behind a provider call that
`TlsConn` answers ideally.

`SecureChannel` is the abstract end: two sequences of units (read and committed)
and a status that goes from opening over open to ended. `TlsConn!Channel`
instantiates it with a refinement mapping over core, runtime and the action list
under way; `ImplementsChannel` is checked over every step of handshake, records,
provider and transport, and proved (`ChannelCorrect`).


## 3. Correspondence to the code

**State.** `TlsCore` keeps the fields of `Core.State` under short names: `hs`
(handshake), `closeState`, `readEpoch`, `writeEpoch`, `pendingOps` and
`nextOpId`, `inbound` and `outbound` (inboundCiphertext, outboundCiphertext),
`reasm` (handshakeReasm), `pendingPlain` (pendingPlainOut), `pendingFinished`,
`transcript`, `keySched`, `budgets`. `out` is the list of actions of the last
step; it is part of the state so that properties can speak of it. An optional
value is a sequence of length at most one.

**Actions.** Every event of `InputEvent` is an action or a family of actions, one
disjunct per leaf of the handler, so a guard is the conjunction of the conditions
on the path to that leaf. `Fail` is `recordFailAlert`, `failAlert` and `hsFail`;
`AllocOrFail` is `allocOpOrFail` with everything its callers do in either case;
`Absorb` is `absorbTerminal`. A step that follows an early failure keeps what the
code had already written (for instance the transcript append of
`onClientFinishedBytes` before the ceiling on operations is met).

**Data.**

- A handshake message is a name and a number of *fragments*, one or two. Framing,
  splitting over records, coalescing and the three byte budgets work on
  fragments. `Malformed` stands for a message whose body does not parse, the
  refused ClientHello for one that negotiation rejects.
- A record is its outer type with fragments, an alert or a sealed body. A body in
  the open core is a model value that may open to anything in `Inners`; in
  `TlsPeer` it carries the epoch, number and content it was sealed with, and opens
  under exactly those. That is the AEAD and MAC assumption, and it is the only
  one. A nonce is its epoch and number: `Core/Nonce.lean` XORs the number into a
  fixed IV, which is injective.
- The transcript is the sequence of messages; a snapshot is a prefix.
- The key schedule is a table from phase to operation and next phase. That table
  is `KeyScheduleDriver.advance`.
- Ciphertext in `TlsConn` is counted in *units*: one for the overhead of a record,
  one for each unit of application plaintext, one for a flight record or an alert.
  The transport takes a prefix of any length, blocks or breaks.
- A label of a server name has a text, may be written in capitals, and has one of
  four forms (plain, decimal octet, reserved, bad): what the name profile tells
  apart. A byte-level parse failure of a ClientHello is one flag.

**The drive loop.** `TlsConn` holds the events not handled (`events`), the
follow-ups of the actions of the last step (`followUps`), how many actions are
done (`performed`) and the fuel. `Step` takes one event through the core,
`Execute` carries out one action, and the follow-ups go before the remaining
events, as in `driveEvents`. A public call is an action that starts the drive,
and one that returns its result when the drive has ended, with the reads of the
transport in between for `recv`.


**Octets and the socket.** `TlsStream` keeps octets as numbers with scaled headers
(one octet of length), so that a header may be cut too. `Server` is the loop of
`Tests/LiveServerNb.lean` (`flushOutbound`, `pumpInbound`, `drainBuffered`,
`reactorToConnected`) as a program counter over its calls; each call into
`Socket` is an operator over what the C function returns, and its guards are the
tests of `errno` there. The core's part is `handleTransportBytes` up to the message,
with both budgets. The client is external.

**Secrets.** A private key is a model value with a size. `heap` remembers every
buffer the C store allocated, freed ones included, so that a property can speak of
memory given back; a slot holds a pointer into it. In the arena a secret is the
number of its derivation, with the inputs it came from, so two secrets are never
confused however the ids fall.

**Cryptography.** The vendored code is written once per width, per curve or per
function; the modules are written once over parameters and instantiated. An
unrolled loop is a loop or a sequence, an updated buffer a returned value. Word
arithmetic wraps at `2^WordBits`, masks and carries are computed as the code
computes them (`Words`), and limbs stay unreduced where the code leaves them so.
`Loop` is a counted loop; `Eagerly` only has TLC compute a value once.
What is not computed:

- The AES-GCM assembly (Vale) is four parameters: schedule, counter, key stream and
  tag. `EverCrypt` is the C around it, which refuses, cuts and reassembles.
- `Curve25519` and `Ed25519` hold field elements as values and leave the limbs to
  `Field25519`; the ladder, the point formulas and the scalars are as in the code.
- `Poly1305` holds limbs and leaves the products of limbs, which stay below one
  word, to integers.
- SHA-256 inside ECDSA and RSA-PSS and SHA-512 inside Ed25519 are parameters:
  `Sha2` has them.
- ECDSA nonces and RSA salts are inputs, as for the bindings.

`SecureChannel` (an abstract specification) and `KeyAlgebra`, `KeyArithmetic`
(references and their comparison) translate no code and have no `map` entries.


## 4. The runs

Twelve runs, each a question of its own. States are distinct states found.

| Run | Module / cfg | States | Question |
|---|---|---|---|
| core | MCTlsCore | 451,637 | does the core keep its promises under any inputs? |
| channel_async | MCTlsChannel, Async | 89,299 | with answers late and out of order: correlation, nonces, completion |
| conn | MCTlsConn | 1,736,887 | what the consumer and the wire see, and that it is a secure channel |
| server | MCServer | 33,532 | whom is a client shown, and on which parameters? Can a secret leak, be freed twice, or answer for another? |
| stream | MCTlsStream | 20,474 | does the way octets arrive and leave matter? |
| symmetric | MCSymmetric | 4,229 | hashes, derivations, seals and opens against their definitions |
| asymmetric | MCAsymmetric | 3,532 | secrets, signatures, verdicts and integers against theirs |
| overwrite, handshake_nonce, clean_end, secrets_kept, seal_refusal | one cfg each | stops at the counterexample | a sentence of the documents the code does not keep (section 6) |

Properties of the passing runs, and what would be needed to break each:

- `TypeOK`: the one type invariant. It carries the ceilings: no sequence number
  above `MaxSeq`, at most one record of plaintext.
- `ConnectedOnlyAfterFlight`: in `connected` the transcript is a ClientHello, the
  five server messages and the client Finished, both stages of the key schedule
  ran over the right prefixes, both directions use installed application keys.
- `FlightBinding`: every signature, MAC, verification and traffic secret the core
  asks for is over the prefix RFC 8446 gives it. Snapshots are taken in one step
  and used answers later.
- `FlightAwaitsItsAnswer`: in the flight exactly one operation is outstanding and
  it is the one that phase and key schedule wait for.
- `CloseStateAgrees`, `HeldOnlyOnOpenChannel`: phase, close state and buffered
  plaintext never contradict each other, whatever ends race.
- `PhaseOrder`: every step moves along `legalEdge`; the one exception is the
  abortive close, which goes straight to `closed`.
- `OpsMatchProvider`: the operations outstanding in the core are the calls the
  provider has not answered, by id and kind, as long as the connection lives.
- `ApplicationNonceFresh`: data, close_notify and alerts never seal twice under
  one number of the application key.
- `FlightCompletes`: a flight that starts ends, in `sentServerFinished` or in
  failure (liveness).
- `InOrderDelivery`: what `recv` returned and what waits behind it is a prefix of
  what the peer sealed.
- `OwnedExactlyOnce`: `wrote n` means that the connection holds exactly n units
  more, once and in order, through partial writes and refusals. The units in the
  queue and on the wire are numbered; `Places` and `Before` count them.
- `ApplicationRecords`: data records and close_notify leave numbered 0, 1, 2
  without a gap, whatever lies between them.
- `AlertIsLast`: nothing follows an alert; a graceful close shuts the transport
  behind close_notify.
- `SecretsDropped`: a connection that the core, the caller or the runtime alone has
  ended returns without a traffic key, and none comes back, whatever a core that
  does not know is asked for afterwards. One ending is excepted: a transport that
  broke in a write (`secrets_kept`, section 6).
- `FlightProtected`: all of the flight but ServerHello is encrypted (for a
  certificate that fits a record; see section 6).
- `CapHolds`: the queue is within the cap after every accepting send.
- `OwnEndpoint`, `ParametersAgreed`, `RefusedForCause`, `EveryRouteServes`: each
  client gets the one endpoint its name belongs to in the configuration it was
  accepted under; parameters are in both lists and preferred by the right side;
  a refusal has a cause; no route of a valid configuration is dead.
- `ImplementsChannel`: plaintext is read only after the channel opened, arrives as
  the peer's next units, and `send` reports exactly what was sealed; nothing is
  sealed after the end, and a channel neither reopens nor ends twice.
- `BuffersOwnedOnce`, `FreedIsWiped`, `SignsWithOwnKey`: over provisioning,
  signing, wiping and releasing (twice, too), with allocations that fail and slots
  that are used again.
- `HandlesResolveToOwn`, `RoutesResolveToCurrent`, `NothingStranded`: over ids that
  restart with every generation, and an arena that is full between the first and
  the third secret of an installation.
- `MessagesAsWritten`: messages and reassembly buffer together are the octets of
  the handshake records, each message whole; the budgets are charged for what
  arrived and refuse when they are crossed and not before.
- `NoOctetLost`, `RepliesInOrder`: every octet is, once and in order, in the kernel
  or a buffer, in both directions, over partial writes and reads.
- `EverythingFramed`: what a client wrote is framed in the end, records coalesced
  in one read included (liveness).
- `HashIsOneShot`: however a message is cut, restarted and asked for, a stream
  gives the digest of one call, which is that of the padded blocks.
- `KdfExact`: HMAC and HKDF are their RFC definitions for keys shorter than,
  equal to and longer than a block and outputs that end within a digest or with
  one, up to the last block the counter octet can number; past it
  `hkdf_expand384` answers with nothing.
- `OpensOnlySealed`: an open succeeds exactly on a seal's suite, key, nonce,
  additional data and octets, and gives the plaintext back.
- `FailsClosed`: an open that fails has no octet of plaintext in its answer.
- `SharedSecretsExact`: shares and secrets are the multiples the group laws give,
  the same for both parties; a share off the curve, of small order or malformed is
  refused, and laid to the peer only when the own secret is good.
- `SignaturesVerify`: a signature made is the textbook one and verifies.
- `VerdictExact`: a verifier accepts exactly what satisfies its equation, over
  every altered part, out of range scalars and points that are none.
- `ArithmeticExact`: words, double words, bignums, powers, limbs, scalars modulo
  the order and the P-256 field are what integers say, on operands at the edges.

Every one of these has a mutant in `PROJECT.json`: a definition of the model
changed the way a bug would change the code, under which TLC finds the property
violated with the run's own configuration. The faulty forms stand beside the
definitions they replace and are used nowhere else.


## 5. Bounds and fairness

**Bounds of the code** are CONSTANTS with their meaning in the code: `MaxSeq`
(the last sequence number), `MaxFragment` (the fragment limit of `send`),
`MaxPendingOps`, the three byte budgets, `MaxCiphertext`, `MaxSteps` (the fuel of
a drive), `MaxLabels`. Small values make the ceilings reachable.

**Bounds of the model** are named so and stand in guards: `MaxOps` (operations
issued), `MaxInbound` (records buffered), `MaxSends` (units offered to `send`).

- A full handshake issues 19 operations: random, ECDHE, seven for the handshake
  stage, the signature, the server Finished, six for the application stage, the
  opening of the client Finished and its verification. `MaxOps` of 21 to 24 leaves
  two to five for the established channel, which is where seals, opens and their
  failures interleave.
- `MaxPendingOps = 2` is the smallest value at which the ceiling is met both in
  and after the flight while a handshake still completes.
- `MaxSeq = 2` or 3: reached by sending and by opening within those operations.
- Messages are one or two fragments, so a message is whole, split over two
  records, or followed by the beginning of the next. `MaxHandshakeBytes` 5 and
  `MaxReasmBytes` 4 are met by three such records.
- In `conn`, `MaxCiphertext = 3` admits one data record and part of the next, so
  the second send meets the cap; `MaxSteps = 21` lets a handshake through one
  call. The peer sends two data records and
  close_notify; the network delivers them alone, in pairs, out of order, twice or
  not at all.
- `server`, negotiation: every list of up to three routes over two spellings of one name
  and the wildcard that covers it, three ALPN modes, one unsound field at a time in
  endpoints, limits and names; clients differ in one or two of name, protocols,
  shares, schemes, well-formedness. The two selections do not interact beyond the
  endpoint, which is why pairs are enough.
- `server`, stores: two slots and three keys, one of a wrong size, so a slot is reused and
  the table is full; two generations and an arena of six, one short of two
  installations and a seventh secret. Negotiation, store and arena share nothing,
  so each is explored while the others rest.
- `stream`: six clients (a message split, coalesced, over each budget, of an
  unknown type, too long) against a kernel of four octets, less than a record
  with its neighbours, and reads of up to eight.
- `symmetric`: words of 4 and 8 bits for SHA-2, one block being 16 and 32 octets;
  pieces of none, 1, one less and one more than a block (15 and 17, 31 and 33); keys
  of 3, 16 and 33 octets. Digests have 8, 12 and 16 octets, outputs 0, 8, 12, 13, 16,
  24 and 25, and 120, 180, 181 and 240, which are the fifteen blocks an octet of 4
  bits numbers and one octet more for `hkdf_expand384`. Words of 14 bits for Poly1305 and of
  7 for ChaCha20, so that limbs of 6 keep the relation 5 * 26 > 128 of the code.
  AES blocks of four octets in groups of two, from six blocks up for a seal and from
  two up for an open (18 and 6 in the code, groups of six), with texts on both sides
  of either threshold: those of 8 to 47 octets are sealed block by block and opened
  in groups.
- `asymmetric`: curves and moduli of the code's shape over small primes. P-256 has
  the prime 199 = h^8 - h^7 + h^6 + h^3 - 1 for h = 2, the shape of the NIST prime,
  words of two bits and the prime order 179; 2^15 - 19 = 32749 stands for 2^255 - 19
  and has a Montgomery and an Edwards curve of matching orders; RSA moduli have 12
  and 15 bits, on both sides of a whole number of words. The integers of
  `KeyArithmetic` have words of three and four bits and limbs of three, so that the
  operands run through all of them.

Every routine is one and the same over its widths: the code's constants enter as
parameters, and a property that fails on small words fails for a reason in the
algorithm. That the constants of the code themselves are right (round keys, curve
coefficients, Barrett's mu) is out of scope: the vendored code's test vectors
cover it.

`CHECK_DEADLOCK` is on for the protocol modules, which stutter through `Absorb`,
never by having no step. It is off where the system stops: the stores (and
with them negotiation, which shares their run) and the native calls when the bounds
are used up, the reactor when its loop is done.

**Fairness.** `TlsChannel` and `TlsStream` have liveness properties. `FairChannelSpec` assumes
weak fairness of `ProviderAnswers`: the interpreter submits every call in the step
that issued it and feeds the answer, or the provider's error as a failed result,
to the core (`execAction`, `callCrypto`), so a call cannot stay unanswered for
ever. Nothing is assumed of peer, network, caller or timer. `FlightCompletes`
needs no more, for between the ClientHello and the server Finished the core waits
for the provider alone.

`StreamSpec` assumes weak fairness of `Server` (one thread runs the loop until it
ends), of `ClientWrites` and of `ClientReads`: a client that can write or read
does. Nothing is assumed of closes and breaks. `EverythingFramed` excepts what no
loop can help: a broken connection, a failed core, and a poll that timed out while
octets were still on their way.


## 6. What the runs found

Each expects a violation of one property, which states a sentence of the
repository; `findings` in `PROJECT.json` quotes it.

| Run | Property | The code |
|---|---|---|
| overwrite | InOrderDelivery | a record opened before `recv` took the last one replaces it; reached by a caller that also calls `progress` on readability (`ReadsInProgress`) |
| handshake_nonce | HandshakeNonceFresh | flight records are numbered 0 to 3 literally; an alert in the flight is sealed under 0 again |
| clean_end | CleanEndIsEof | after the peer's close_notify `recv` answers wouldBlock; nothing builds `eof` |
| secrets_kept | EveryEndDropsSecrets | `drainOutbound` ends the runtime on a transport that fails in a write without `terminate`: the traffic keys stay until the caller closes or the core ends |
| seal_refusal | RefusedSealFails | a seal of AES-GCM on a processor without movbe, or of refused lengths, is an empty array, which `submit` answers as a sealed record |

Further disagreements, each met while modelling and modelled as it is, without a
run of its own:

- After `connected` an opened record that is not application data does not advance
  the read number (`RecordPath.lean:220`); RFC 005 7.1 says every one does.
- A Certificate larger than a record ends the runtime and drops its keys in the
  middle of an action list; the signature behind it is still asked for and
  CertificateVerify leaves in a plaintext record (`Interpreter.lean:246`).
  `OversizeCertificate = TRUE` in `MCTlsConn.cfg` shows `FlightProtected` violated.
- With `maxProgressStepsPerCall = 1`, which `validLimits` admits (it asks for more
  than 0, `Config.lean:398`), the answer to the seal of a `send` is the second
  event of its drive and is dropped: the number is used, the plaintext accepted,
  and no record written. The default is 256. The theorems about seals assume
  `MaxSteps >= 2`.
- `closeTransport` closes with what a blocked transport has left in the queue
  (`Interpreter.lean:296`); RFC 013 5 says it is flushed first.
- A drive out of fuel drops its events and reports nothing (`Interpreter.lean:327`);
  RFC 010 7 asks for a typed error.
- Two records in one read: `recv` frames the first, and the second waits, whole,
  until more bytes arrive (`RecordPath.lean:133`). The reactor loop drives the core
  again with no octets (`drainBuffered`), which is why `EverythingFramed` holds.
- Provisioning does not look at the id the store returns (`Provision.lean:102`): with
  the table full or no memory it is 0, and the configuration then signs with the
  empty array of its `certPrivate`. `Sign` answers no signature for it.
- Leading zeros of an RSA modulus are counted as octets of it (`kroopt_ffi.c:331`):
  such a key, which DER has whenever the first bit is set, can neither sign nor
  verify. `SignaturesVerify` states it so (`RsaPadded` in `MCAsymmetric`).

Two disagreements the repository already tracks are modelled as they are and not
repeated as findings: the suite is chosen before the endpoint is known (B1, RFC
045), and the signature scheme is the first common one, whether or not the key can
sign with it.


## 7. The proofs

Eight modules hold theorems. Each theorem is of the specification the runs check,
for all values of the constants that satisfy the assumptions of its module.

| Theorem | Module | Property or content |
|---|---|---|
| TypeCorrect | TlsCoreProofs | TypeOK |
| OrderCorrect | TlsCoreProofs | PhaseOrder |
| CloseCorrect, HeldCorrect | TlsCoreProofs | CloseStateAgrees, HeldOnlyOnOpenChannel |
| FlightInvariant | TlsCoreProofs | FlightInv |
| BindingCorrect, ConnectedCorrect | TlsCoreProofs | FlightBinding, ConnectedOnlyAfterFlight |
| FlightNeverStuck | TlsCoreProofs | FlightAwaitsItsAnswer |
| ChannelInvariant | TlsChannelProofs | ChannelInv |
| MatchCorrect | TlsChannelProofs | OpsMatchProvider |
| NonceCorrect | TlsChannelProofs | ApplicationNonceFresh |
| ConnInvariant | TlsConnProofs | ConnInv |
| SecretsCorrect | TlsConnProofs | SecretsDropped |
| SealInvariant | TlsConnProofs | SealInv, for MaxSteps >= 2 |
| RecordsCorrect, OwnedCorrect | TlsConnProofs | ApplicationRecords, OwnedExactlyOnce, for MaxSteps >= 2 |
| AlertCorrect, CapCorrect | TlsConnProofs | AlertIsLast, CapHolds, for MaxSteps >= 2 |
| ProtectedCorrect | TlsConnProofs | FlightProtected, for certificates that fit a record |
| DeliveryInvariant, StreamCorrect | TlsDeliveryProofs | DeliveryInv, BeginsTheStream, for callers that read in `recv` |
| DeliveryCorrect | TlsDeliveryProofs | InOrderDelivery, for the same and numbered streams |
| ChannelCorrect | TlsDeliveryProofs | ImplementsChannel, for the same and MaxSteps >= 2 |
| NegotiationInvariant | TlsNegotiationProofs | NegotiationInv |
| OwnEndpointCorrect, ParametersCorrect | TlsNegotiationProofs | OwnEndpoint, ParametersAgreed |
| RefusalsCorrect, RoutesServeCorrect | TlsNegotiationProofs | RefusedForCause, EveryRouteServes |
| StreamInvariant, StreamTypeCorrect | TlsStreamProofs | StreamInv, its types |
| RepliesCorrect, NoLossCorrect, MessagesCorrect | TlsStreamProofs | RepliesInOrder, NoOctetLost, MessagesAsWritten |
| NativeInvariant, NativeTypeCorrect | SecretsProofs | NativeInv, its types |
| OwnedOnceCorrect, FreedIsWipedCorrect, SignsCorrect | SecretsProofs | BuffersOwnedOnce, FreedIsWiped, SignsWithOwnKey |
| ArenaInvariant | SecretsProofs | ArenaInv |
| HandlesCorrect, RoutesCorrect, NothingStrandedCorrect | SecretsProofs | HandlesResolveToOwn, RoutesResolveToCurrent, NothingStranded |

**Assumptions.** They say what inputs are, and bound nothing that the code does
not bound. Payloads are byte sequences, the last sequence number and the fragment
limit are positive, enumerated records and inner plaintexts are well typed
(`PayloadsAssumption`, `MaxSeqAssumption`, `MaxFragmentAssumption`,
`InputsAssumption`); sealed bodies have an epoch, a number and an inner plaintext
(`SealedAssumption`); a private key is not the wiped or absent value
(`KeysAssumption`); the length field of a record is that of its body or above the
limit (`ScriptsAssumption`: a shorter body is a record that has not arrived yet,
a longer one does not exist); two labels with one text have one form
(`LabelsAssumption`), configurations are over these labels and clients are
well typed (`ConfigsAssumption`, `HellosAssumption`). The ceilings on operations
and budgets need no assumption. No theorem of the core uses the bounds of the
model: each step lemma is about `CoreStep`, the next-state relation without
`WithinBounds`, for any typed input at all, and `NextIsCoreStep` shows that `Next`
is a special case of it.

Three hypotheses are in theorems and not in a module, because without them the
property is false and the code admits it: `MaxSteps >= 2`,
`OversizeCertificate = FALSE` and `ReadsInProgress = FALSE` (section 6; two reads
in progress may besides ask for the same record twice, hazard `RecordPath.lean:137`).
A fourth, `NumberedStreams`, says how units are named and nothing of the code: the
peer's plaintext is 1, 2, 3 and so on, as in `MCStreams`. `InOrderDelivery` and
`SecureChannel` are stated in these names; `StreamCorrect`, which says that what
`recv` has returned is how the peer's plaintext begins, needs no names.

**The core: types.** `TypeOK` is inductive. It is split into five parts (outcome,
operations, epochs, buffers, flight) and every handler has a lemma that it
preserves them; the helpers (`Fail`, `Allocate`, `AllocOrFail`, `Framed`,
`Advance`) have theirs.

**The core: the flight.** Neither `ConnectedOnlyAfterFlight` nor
`FlightAwaitsItsAnswer` nor `FlightBinding` is inductive: the first says nothing
of the phases before `connected`, and the step into `connected` appends to
whatever the transcript was. The invariant is

    FlightInv   ==  TypeOK /\ FlightShape /\ FlightBinding
    FlightShape ==  OpsShape /\ FinishedShape /\ EpochShape
                    /\ \E ch \in ClientHello : TranscriptShape(ch) /\ ScheduleShape(ch)

which makes the transcript, the prefixes in the key schedule, the outstanding
operation, the buffered Finished and the epochs functions of the phase. The one
existential, over the ClientHello that began the handshake, is what the shape of
all phases shares. A step either ends the connection (`EndingShape`: the shape says
nothing of an ending phase), leaves the flight alone (`UndisturbedShape`), or is one
of nine handlers of the flight, each with a lemma from the shape of its phase to the
shape of the next. An answer reaches its handler only through an outstanding
operation, so `OpsShape` of the phase decides which handler may run
(`AnswerInFlight`): an answer of another kind is impossible, not merely ignored.

**The core: order and close.** Every step stays, moves along the flight or ends the
connection (`Moves == Stays \/ Forward \/ Ends`), and each ending sets phase and
close state together. `PhaseOrder` and the close invariant follow from `Moves` alone.
`Concludes` says, in the same way for every handler, what a step does with
operations and actions: it stops with a terminate among its actions, keeps the
operations, or asks for one more. Everything about provider and interpreter is
proved from `Moves`, `Concludes` and `WriteKeyMoves`, not from the handlers.

**The channel.** `OpsMatchProvider` is inductive once identifiers are known to be
issued once and below the next (`IdsIssued`). `ApplicationNonceFresh` is about a
history, so the invariant bounds it: every number in `sealed` under the application
key is below the next one (`NumbersUsed`), and before the flight is over no such
key exists (`WriteKeyShape`), which is why the numbers may start at 0.

**The connection: secrets.** `ConnInv` carries the invariant of the core over to
the interpreter (every event of a drive is a step the core is specified for) and
adds `SecretsShape`: an ended connection has no key, or one of the actions that
are left will drop them; no action of a connection that is ending installs one.
The second part is needed because secrets are dropped in the middle of an action
list whose rest is still carried out.

`SecretsDropped` also speaks of a runtime that has ended under a core that goes on,
by an answer of the wrong kind or a certificate too large for a record. `DropShape`
says what that core may still do: the keys are gone, and every call that is left or
will be asked is barren (`Barren`): it fails for the key it resolves, or it is the
signature, whose answer only leads to a call that fails. No installation can be
among them, since a step that installs follows an answer that no longer comes. The
proof uses `SealInv`'s `ChainShape`, `CallsShape` and `EarlyShape`. A transport
broken in a write is excepted, as in the property: `drainOutbound` keeps the keys.

**The connection: seals.** Four properties share one invariant, `SealInv`:

- `ChainShape`: a drive is a chain. At most one event is queued and at most one
  action that is left raises the next, never both; what a call offers is its first
  event and meets the full fuel.
- `CallsShape`: the calls asked and answers under way belong to outstanding
  operations, so the core takes an answer instead of dropping it.
- `EarlyShape`: before `connected` no number is used; after it no key is installed.
- `SealShape`, four stages of a seal. `AskShape`: it is asked for as the first
  action of its step, with the number before `writeEpoch.seq`. `AnswerShape`: its
  answer is queued and there is fuel for it. `WriteShape`: its record is to be
  written, for the operation answered last. `SendShape`: the offered units
  continue `owned`, fit below the cap, and are accepted only while a seal is in
  hand. `Ledger` closes the books: numbers used are records written plus the one in
  hand, and units written are those owned plus those accepted in this call; once a
  terminate has dropped the key (`Lost`) nothing is claimed, for then a number may
  be used in vain.
- `DataNumbered`, `ApplicationRecords`: what is written already is in order.
- `AlertsEnd`: behind an alert nothing is left that could write.
- `NotifyShape`: close_notify is in hand or written last.

Step, action and call have a lemma for each part. What is written is changed by
appending only (`Adds`), and `PlacesAdded` gives, for any types of records, where
they lie afterwards; counting is by `Cardinality`, not by recursion.

**The connection: the flight.** `FlightProtected` needs to know that the handshake
write key is there when a record of the flight is written under it. `KeyShape` says
that from the moment the core has taken the answer to its installation (`KeyDue`)
the key is there or the connection can go no further: no call is left and no answer
is on its way. A misanswered call drops the keys and leaves just that state
behind. Whatever a step of the core does, it is off the flight (`OffFlight`: it
writes no flight record and does not move in these phases) or on it (`OnFlight`:
records first, then one call, `KeyDue` as the phase and the key schedule say). The
application write key has the same history: `AppDue` says from where on it is there
or the connection can go no further.

**The connection: delivery.** `InOrderDelivery` is not inductive: it speaks of what
was delivered, and says nothing of what a record on its way to be opened may hold.
`DeliveryInv` follows the plaintext back to the peer:

- `BodiesShape`: every protected body in the core's buffer, in an event or in a call
  is the peer's or forged, and a call to open has the number the core is at
  (`InStep`). What opens is therefore the peer's record of that number.
- `PullShape`: the transport is read only by a `recv` that found nothing, and only
  when the core holds no plaintext, so an opened record replaces nothing.
- `PlainShape`: plaintext moves from the core over the runtime to the caller within
  one drive, for which there is fuel; it is in one of the three places at a time.
- `CountShape`: what the caller has and what waits behind it is, end to end, the
  plaintext of the first `readEpoch.seq` records (`Upto`). When the connection has
  ended, plaintext may be lost, and what is left is a beginning of the stream.

For the core a step leaves plaintext alone, hands it over, reads on or takes an
opened record (`Leaves`, `Takes`, `Reads`, `Arrives`); each case has its effect
on the shapes, and interpreter and caller have theirs.

**The connection: the channel it implements.** `ChannelCorrect` shows that the
initial states map to `Channel!Init` and every step to a step of the channel or a
stutter, under `ViewInv == DeliveryInv /\ SealInv /\ StageShape /\ OpenKey`. The
status of the channel is read off the phase and the key, so the proof must know
when they change together: `StageShape` says that keys are installed during the
flight only, that what drops a key later drops them all in an ending connection,
and that once the flight is sent the application write key is there as long as any
key is; `OpenKey`, that an opened record is answered only while keys are there.
Reading maps to the peer's next units by `CountShape`, sealing and reporting to
the channel's by `Ledger`: they happen only while the channel is open, and what
`send` returns is what was sealed.

**Negotiation.** A configuration in force is sound (`Sound`: names canonical,
patterns distinct, endpoints valid), and the outcome kept with a connection is what
`Negotiate` gives for its configuration and client. The properties are then facts
about operators: `Negotiate` on sound configurations, `ValidateSniRoutes` on any.

**The stream.** `StreamInv` states the three properties with the octets in transit
as one concatenation: what was written is what the records taken encode followed by
core buffer, reactor buffer and kernel (`Kept`); replies likewise (`Delivered`);
the buffers of the core are the remainder of the octets taken (`CoreSound`). Every
transfer then moves a boundary in an associative product.

**The stores.** In the C store ids and buffers are numbered together, a used slot
holds a live buffer of its own and every live buffer has a slot (`Held`), and what a
handle names is its configuration's key or wiped (`HandlesOwn`): an id never comes
back, so a slot that was taken over cannot answer. In the arena ids do come back,
with the next generation; `HandlesFresh` says that they are below the next id within
theirs, `RoutesAligned` that the three lists of an installation have grown together
with adjacent ids, `RoutesCurrent` that the newest of a route is the current one.


## 8. Only model-checked

- `FlightCompletes` and `EverythingFramed`: liveness under fairness, which needs
  ENABLED.
- Everything about cryptography (`Words` to `KeyArithmetic`). These modules rest on
  the bitwise operators of the community modules and on RECURSIVE definitions,
  which the prover does not have, and on loops over words, whose proofs are
  inductions over data.
- `InOrderDelivery`, `ImplementsChannel`, `FlightProtected` and the properties of
  seals outside the hypotheses of their theorems: there they are false (section 6).
- The findings, which are counterexamples.

Where a recursive definition was in the way of a proof it was restated: the first
match of a list is the entry at the least position (`First` in `TlsNegotiation`,
`Without` in `SecretArena`), and flattened sequences have their facts in
`ListFacts`. Induction over the length of a list is written as the least
counterexample (`Least`).


## 9. Not modelled

- Byte layout: readers, vector framing, serialisation (`Parse/Reader`,
  `Parse/Wire`, `Conn/Flight`, `Conn/Record13`). Which message, epoch and number is
  written is modelled; how it is spelled is not.
- Alert descriptions beyond close_notify, fatal and truncated. Which description a
  failure sends does not change the state.
- `KeyScheduleDriver.start` and its wait for a shared secret: the core enters
  the schedule through `startPostEcdhe` and calls neither.
- Metrics, trace, uniform error results and the certificate lint: observers or
  start-up tools.
- Vendored code that kroopt does not reach: HMAC over SHA-1 and BLAKE2, the 32-bit
  duplicates of the bignum functions, and the headers of the parts of HACL* that
  are not in the repository (FFDHE, Frodo, HPKE, vectorised ciphers). They are
  most of what the map leaves uncovered under `Native/hacl`.
- Timing: that the masks make the code's running time independent of secrets is
  not a property of states. Allocation failure inside HACL* contexts, which the
  code does not check either.
- The Lean bindings (declarations), the sanitizer harness (a test driver), and the
  repository's own Lean proofs, which are compared with the findings but are no
  behaviour.


## 10. The plan

Done: the core, the channel, the connection and the abstract channel it
implements, negotiation, the octet stream and the socket, the two stores of
secrets, the cryptography kroopt reaches; and proofs of every invariant and action
property outside cryptography, and of the refinement.

What is left is out of the prover's reach (section 8) or not modelled (section 9).
Should the code change, the places where the model would follow first are those of
section 6: fuel that reports what it drops would lift `MaxSteps >= 2`, a core that
refuses a second open while one is under way would lift `ReadsInProgress = FALSE`,
and flight records that are numbered by `writeEpoch` would turn the run
`handshake_nonce` into one that passes.
