------------------------------ MODULE TlsTypes ------------------------------
(***************************************************************************)
(* The vocabulary of the kroopt protocol core: phases, epochs, records,    *)
(* handshake messages, crypto operations and their results, the key        *)
(* schedule table and the configured ceilings.                             *)
(*                                                                         *)
(* Bytes are abstracted to what the control flow tells apart.  Application *)
(* plaintext is a sequence of numbered units; a handshake message is a     *)
(* short sequence of fragments, so that it can be split over records and   *)
(* coalesced into one; a protected record is an opaque body; a ciphertext  *)
(* is named by the operation that produced it.                             *)
(***************************************************************************)
EXTENDS Integers, Sequences, FiniteSets

CONSTANTS
  Payloads,             \* plaintexts the application sends or a record carries
  Sealed,               \* bodies of protected records
  MaxSeq,               \* ceiling of a record sequence number (SeqNo)
  MaxFragment,          \* maxPlaintextFragment, in units
  MaxPendingOps,        \* ResourceLimits.maxPendingCryptoOps
  MaxHandshakeBytes,    \* ResourceLimits.maxHandshakeBytes, in fragments
  MaxClientHelloBytes,  \* ResourceLimits.maxClientHelloBytes, in fragments
  MaxReasmBytes         \* maxHandshakeReasmBytes, in fragments

Bytes == Seq(Nat)

ASSUME PayloadsAssumption == Payloads \subseteq Bytes
ASSUME MaxSeqAssumption == MaxSeq \in Nat \ {0}
ASSUME MaxFragmentAssumption == MaxFragment \in Nat \ {0}
ASSUME LimitsAssumption ==   \* validLimits
  /\ MaxPendingOps \in Nat \ {0}
  /\ MaxHandshakeBytes \in Nat \ {0}
  /\ MaxClientHelloBytes \in 1..MaxHandshakeBytes
  /\ MaxReasmBytes \in Nat \ {0}

-----------------------------------------------------------------------------
(* Phases, close states, epochs.                                           *)

Flight == {"requestedServerRandom", "requestedEcdhe",
           "derivedHandshakeSecrets", "requestedCertificateVerifySignature",
           "requestedServerFinishedMac", "sentCertificateVerify"}

\* The phases in the order of the handshake.
FlightOrder ==
  <<"start", "requestedServerRandom", "requestedEcdhe",
    "derivedHandshakeSecrets", "requestedCertificateVerifySignature",
    "requestedServerFinishedMac", "sentCertificateVerify",
    "sentServerFinished", "requestedClientFinishedVerify", "connected">>

TerminalPhase == {"closed", "failed"}

Phase == {"start"} \cup Flight \cup
         {"sentServerFinished", "requestedClientFinishedVerify",
          "connected", "closing"} \cup TerminalPhase

CloseState == {"open", "sentCloseNotify", "receivedCloseNotify",
               "transportEofBeforeCloseNotify", "fatalSent", "fatalReceived",
               "transportClosed"}

CloseMode == {"graceful", "fatal", "abortive"}

Epoch == {"initial", "handshake", "application"}

Direction == {"read", "write"}

EpochState == [epoch : Epoch, seq : 0..MaxSeq, keysInstalled : BOOLEAN]

\* EpochState.fresh and installEpoch.
FreshEpoch == [epoch |-> "initial", seq |-> 0, keysInstalled |-> FALSE]
InstallEpoch(e) == [epoch |-> e, seq |-> 0, keysInstalled |-> TRUE]

-----------------------------------------------------------------------------
(* Handshake messages.  A client message is named by the verdict of parser *)
(* and negotiation: NoScheme is refused before the ClientHello budget is   *)
(* committed, NoGroup after; Malformed stands for any other bytes.         *)

ClientHello == {"ClientHello", "LongClientHello"}
Refused == {"NoScheme", "NoGroup"}
Message == ClientHello \cup Refused \cup {"Finished", "Malformed"}
ServerMessage == {"ServerHello", "EncryptedExtensions", "Certificate",
                  "CertificateVerify", "ServerFinished"}
Transcript == Seq(Message \cup ServerMessage)

MessageSize(m) == IF m = "LongClientHello" THEN 3 ELSE 2

Fragment == [msg : Message, part : 1..3]

\* frameHandshakeMessage: the length field sits in the first fragment.
HoldsMessage(buf) == buf # <<>> /\ Len(buf) >= MessageSize(Head(buf).msg)

FirstMessage(buf) ==
  LET m == Head(buf).msg
  IN  IF \A i \in 1..MessageSize(m) : buf[i] = [msg |-> m, part |-> i]
      THEN m ELSE "Malformed"

AfterMessage(buf) == SubSeq(buf, MessageSize(Head(buf).msg) + 1, Len(buf))

-----------------------------------------------------------------------------
(* Records as they are framed off the wire, and decrypted inner plaintext. *)

Alert == {"closeNotify", "fatal", "truncated"}

Record ==
  [outer : {"applicationData"}, body : Sealed] \cup
  [outer : {"handshake"}, frags : Seq(Fragment)] \cup
  [outer : {"alert"}, alert : Alert] \cup
  [outer : {"compatCcs", "otherCcs", "invalidType", "badHeader"}]

Inner ==
  [ctype : {"applicationData"}, content : Bytes] \cup
  [ctype : {"handshake"}, msg : Message] \cup
  [ctype : {"alert"}, alert : Alert] \cup
  [ctype : {"changeCipherSpec", "invalid", "allZero"}]

CloseNotify == [ctype |-> "alert", alert |-> "closeNotify"]

-----------------------------------------------------------------------------
(* Crypto operations.                                                      *)

\* resultMatchesKind: the successful answer to each kind of operation.
AnswerTo(kind) ==
  CASE kind \in {"hkdfExtract", "hkdfExpand"} -> "hkdfSecret"
    [] kind = "randomBytes" -> "randomBytes"
    [] kind = "ecdhe" -> "ecdheComplete"
    [] kind = "installTrafficKeys" -> "keysInstalled"
    [] kind = "signCertificateVerify" -> "signature"
    [] kind = "computeServerFinished" -> "finishedMac"
    [] kind = "verifyFinished" -> "verified"
    [] kind = "aeadSeal" -> "aeadSealed"
    [] kind = "aeadOpen" -> "aeadOpened"

OpKind == {"randomBytes", "ecdhe", "hkdfExtract", "hkdfExpand",
           "installTrafficKeys", "signCertificateVerify",
           "computeServerFinished", "verifyFinished", "aeadSeal", "aeadOpen"}

Label == {"", "early", "derived", "handshake", "master",
          "s hs traffic", "c hs traffic", "s ap traffic", "c ap traffic",
          "write handshake", "read handshake",
          "write application", "read application"}

\* Operations with a context are named by label and transcript prefix.
CryptoOp ==
  [kind : OpKind \ {"verifyFinished", "aeadSeal", "aeadOpen"},
   label : Label, prefix : Transcript] \cup
  [kind : {"verifyFinished"}, prefix : Transcript, msg : Message] \cup
  [kind : {"aeadSeal"}, epoch : Epoch, seq : 0..MaxSeq, inner : Inner] \cup
  [kind : {"aeadOpen"}, epoch : Epoch, seq : 0..MaxSeq, body : Sealed]

PendingOp == [id : Nat, kind : OpKind, epoch : Epoch, dir : Direction]

PlainOp(kind, prefix) == [kind |-> kind, label |-> "", prefix |-> prefix]

-----------------------------------------------------------------------------
(* KeyScheduleDriver: each awaiting phase, the operation it has issued and *)
(* the phase its answer leads to.                                          *)

Awaits(kind, label, next) == [kind |-> kind, label |-> label, next |-> next]

HandshakeStage == {"awaitEarly", "awaitDerivedHs", "awaitHandshake",
                   "awaitServerHs", "awaitClientHs", "awaitInstallWriteHs",
                   "awaitInstallReadHs"}
ApplicationStage == {"awaitDerivedMs", "awaitMaster", "awaitServerAp",
                     "awaitClientAp", "awaitInstallWriteAp",
                     "awaitInstallReadAp"}
AwaitPhase == HandshakeStage \cup ApplicationStage
Paused == {"handshakeKeysInstalled", "complete"}

Schedule(p) ==
  CASE p = "awaitEarly" -> Awaits("hkdfExtract", "early", "awaitDerivedHs")
    [] p = "awaitDerivedHs" ->
         Awaits("hkdfExpand", "derived", "awaitHandshake")
    [] p = "awaitHandshake" ->
         Awaits("hkdfExtract", "handshake", "awaitServerHs")
    [] p = "awaitServerHs" ->
         Awaits("hkdfExpand", "s hs traffic", "awaitClientHs")
    [] p = "awaitClientHs" ->
         Awaits("hkdfExpand", "c hs traffic", "awaitInstallWriteHs")
    [] p = "awaitInstallWriteHs" ->
         Awaits("installTrafficKeys", "write handshake", "awaitInstallReadHs")
    [] p = "awaitInstallReadHs" ->
         Awaits("installTrafficKeys", "read handshake",
                "handshakeKeysInstalled")
    [] p = "awaitDerivedMs" -> Awaits("hkdfExpand", "derived", "awaitMaster")
    [] p = "awaitMaster" -> Awaits("hkdfExtract", "master", "awaitServerAp")
    [] p = "awaitServerAp" ->
         Awaits("hkdfExpand", "s ap traffic", "awaitClientAp")
    [] p = "awaitClientAp" ->
         Awaits("hkdfExpand", "c ap traffic", "awaitInstallWriteAp")
    [] p = "awaitInstallWriteAp" ->
         Awaits("installTrafficKeys", "write application",
                "awaitInstallReadAp")
    [] p = "awaitInstallReadAp" ->
         Awaits("installTrafficKeys", "read application", "complete")

KeySched == [phase : {"none"} \cup AwaitPhase \cup Paused,
             hsTranscript : Transcript, apTranscript : Transcript]

NoKeySched == [phase |-> "none", hsTranscript |-> <<>>, apTranscript |-> <<>>]

\* The operation issued on entering the phase of ks.
ScheduleOp(ks) ==
  LET label == Schedule(ks.phase).label
  IN  [kind |-> Schedule(ks.phase).kind, label |-> label,
       prefix |-> CASE label \in {"s hs traffic", "c hs traffic"}
                         -> ks.hsTranscript
                    [] label \in {"s ap traffic", "c ap traffic"}
                         -> ks.apTranscript
                    [] OTHER -> <<>>]

\* KeyScheduleDriver.advance: "error" is its typed invariant failure.
Advance(phase, result) ==
  IF phase \in Paused THEN phase
  ELSE IF phase \in AwaitPhase /\ AnswerTo(Schedule(phase).kind) = result
       THEN Schedule(phase).next
       ELSE "error"
=============================================================================
