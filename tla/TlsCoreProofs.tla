--------------------------- MODULE TlsCoreProofs ----------------------------
(***************************************************************************)
(* Proofs about the open core.  First type correctness, the order of       *)
(* phases, the agreement of phase and close state and the fate of held     *)
(* plaintext; then the order of the handshake: what the transcript, the    *)
(* key schedule, the outstanding operations and the epochs are in each     *)
(* phase, and the safety properties that follow from it; last what a step  *)
(* asks for, writes and does to the write key.                             *)
(*                                                                         *)
(* CoreStep is Next without the bounds of the model and for every input of *)
(* the right type, so that the lemmas also serve the proofs about the      *)
(* modules that close the core.                                            *)
(***************************************************************************)
EXTENDS TlsCore, SequenceTheorems, TLAPS

CoreStep ==
  \/ \E recs \in Seq(Record) : TransportBytes(recs)
  \/ \E id \in Nat :
       \/ DroppedResult(id)
       \/ \E inner \in Inner : AeadOpened(id, inner)
       \/ AeadSealed(id)
       \/ CryptoFailed(id)
       \/ \E result \in GatingAnswer : GatingResult(id, result)
  \/ AppRecv
  \/ \E plain \in Bytes : AppSend(plain)
  \/ \E mode \in CloseMode : AppClose(mode)
  \/ TransportEof \/ Timeout \/ Quiet

\* The parts of TypeOK that the handlers assign together.
OutcomeOK ==
  /\ hs \in Phase /\ closeState \in CloseState
  /\ pendingPlain \in Seq(Bytes) /\ Len(pendingPlain) <= 1
  /\ out \in Seq(OutputAction)
OpsOK == pendingOps \in SUBSET PendingOp /\ nextOpId \in Nat
EpochsOK == readEpoch \in EpochState /\ writeEpoch \in EpochState
BuffersOK ==
  inbound \in Seq(Record) /\ outbound \in Seq(Nat) /\ reasm \in Seq(Fragment)
FlightOK ==
  /\ pendingFinished \in Seq(Message) /\ Len(pendingFinished) <= 1
  /\ transcript \in Transcript /\ keySched \in KeySched
  /\ budgets \in [handshake : Nat, clientHello : Nat]

LEMMA TypeOKParts ==
  TypeOK <=> OutcomeOK /\ OpsOK /\ EpochsOK /\ BuffersOK /\ FlightOK
BY DEF TypeOK, OutcomeOK, OpsOK, EpochsOK, BuffersOK, FlightOK

LEMMA TypeOKPartsNext ==
  OutcomeOK' /\ OpsOK' /\ EpochsOK' /\ BuffersOK' /\ FlightOK' => TypeOK'
BY DEF TypeOK, OutcomeOK, OpsOK, EpochsOK, BuffersOK, FlightOK

-----------------------------------------------------------------------------
(* Typing of the vocabulary.                                               *)

KeyLabel == {"write handshake", "read handshake",
             "write application", "read application"}

\* Every awaiting phase issues a schedule operation and leads on.
LEMMA ScheduleType ==
  ASSUME NEW p \in AwaitPhase
  PROVE  /\ Schedule(p).kind \in {"hkdfExtract", "hkdfExpand",
                                  "installTrafficKeys"}
         /\ Schedule(p).kind = "installTrafficKeys" =>
              Schedule(p).label \in KeyLabel
         /\ Schedule(p).label \in Label
         /\ Schedule(p).next \in AwaitPhase \cup Paused
BY DEF AwaitPhase, HandshakeStage, ApplicationStage, Paused, Schedule,
       Awaits, Label, KeyLabel

LEMMA ScheduleOpType ==
  ASSUME NEW ks \in KeySched, ks.phase \in AwaitPhase
  PROVE  ScheduleOp(ks) \in CryptoOp
<1> DEFINE w == Schedule(ks.phase)
<1>1. /\ w.kind \in OpKind \ {"verifyFinished", "aeadSeal", "aeadOpen"}
      /\ w.label \in Label
  BY ScheduleType DEF OpKind
<1>2. ks.hsTranscript \in Transcript /\ ks.apTranscript \in Transcript
  BY DEF KeySched
<1>3. <<>> \in Transcript
  BY DEF Transcript
<1> HIDE DEF w
<1> QED
  BY <1>1, <1>2, <1>3 DEF ScheduleOp, CryptoOp, w

LEMMA PlainOpType ==
  ASSUME NEW kind \in OpKind \ {"verifyFinished", "aeadSeal", "aeadOpen"},
         NEW prefix \in Transcript
  PROVE  PlainOp(kind, prefix) \in CryptoOp
BY DEF PlainOp, CryptoOp, Label

LEMMA OpKindType ==
  ASSUME NEW op \in CryptoOp
  PROVE  op.kind \in OpKind
BY DEF CryptoOp, OpKind

LEMMA EpochTypes ==
  /\ FreshEpoch \in EpochState
  /\ \A e \in Epoch : InstallEpoch(e) \in EpochState
  /\ \A e \in EpochState : ~SeqExhausted(e) => AdvanceSeq(e) \in EpochState
BY MaxSeqAssumption
DEF EpochState, FreshEpoch, InstallEpoch, SeqExhausted, AdvanceSeq, Epoch

LEMMA ActType ==
  ASSUME NEW name \in {"failWithAlert", "reportError", "readTransport",
                       "reportHandshakeComplete"}
  PROVE  Act(name) \in OutputAction
BY DEF Act, OutputAction

LEMMA CallCryptoType ==
  ASSUME NEW id \in Nat, NEW op \in CryptoOp
  PROVE  CallCrypto(id, op) \in OutputAction
BY DEF CallCrypto, OutputAction

LEMMA WriteAlertType ==
  ASSUME NEW e \in EpochState
  PROVE  WriteAlert(e) \in OutputAction
BY DEF WriteAlert, EpochState, OutputAction

LEMMA WriteHandshakeType ==
  ASSUME NEW epoch \in Epoch, NEW seq \in 0..3, NEW msg \in ServerMessage
  PROVE  WriteHandshake(epoch, seq, msg) \in OutputAction
BY DEF WriteHandshake, OutputAction

LEMMA OtherActionTypes ==
  /\ \A id \in Nat : WriteTransport(id) \in OutputAction
  /\ \A mode \in CloseMode : CloseTransport(mode) \in OutputAction
  /\ \A c \in Bytes : EmitPlaintext(c) \in OutputAction
  /\ \A n \in Nat : AcceptPlaintext(n) \in OutputAction
BY DEF WriteTransport, CloseTransport, EmitPlaintext, AcceptPlaintext,
       OutputAction

\* Framing a message consumes it and yields a message.
LEMMA FramingType ==
  ASSUME NEW buf \in Seq(Fragment), HoldsMessage(buf)
  PROVE  FirstMessage(buf) \in Message /\ AfterMessage(buf) \in Seq(Fragment)
<1>1. Head(buf) \in Fragment
  BY DEF HoldsMessage
<1>2. Head(buf).msg \in Message
  BY <1>1 DEF Fragment
<1>3. FirstMessage(buf) \in Message
  BY <1>2 DEF FirstMessage, Message
<1>4. MessageSize(Head(buf).msg) + 1 \in 1..(Len(buf) + 1)
  BY DEF HoldsMessage, MessageSize
<1>5. AfterMessage(buf) \in Seq(Fragment)
  BY <1>4 DEF AfterMessage
<1> QED
  BY <1>3, <1>5

-----------------------------------------------------------------------------
(* Typing of the shared outcomes.                                          *)

LEMMA FailType ==
  ASSUME writeEpoch' \in EpochState, Fail
  PROVE  OutcomeOK'
<1>1. out' \in Seq(OutputAction)
  <2>1. WriteAlert(writeEpoch') \in OutputAction
    BY WriteAlertType
  <2>2. /\ Act("failWithAlert") \in OutputAction
        /\ Act("reportError") \in OutputAction
    BY ActType
  <2> QED
    BY <2>1, <2>2 DEF Fail
<1> QED
  BY <1>1 DEF Fail, OutcomeOK, Phase, TerminalPhase, CloseState

LEMMA MoveToType ==
  ASSUME OutcomeOK, NEW phase \in Phase, NEW acts \in Seq(OutputAction),
         MoveTo(phase, acts)
  PROVE  OutcomeOK'
BY DEF MoveTo, OutcomeOK

LEMMA IgnoreType ==
  ASSUME OutcomeOK, Ignore
  PROVE  OutcomeOK'
<1>1. <<>> \in Seq(OutputAction)
  OBVIOUS
<1> QED
  BY <1>1, MoveToType DEF Ignore, OutcomeOK

LEMMA InboundAlertType ==
  ASSUME OutcomeOK, writeEpoch' \in EpochState,
         NEW a \in Alert, OnInboundAlert(a)
  PROVE  OutcomeOK'
<1>1. \A mode \in CloseMode :
        <<CloseTransport(mode)>> \in Seq(OutputAction)
  BY OtherActionTypes
<1>2. "graceful" \in CloseMode /\ "abortive" \in CloseMode
  BY DEF CloseMode
<1>3. CASE a = "closeNotify"
  BY <1>1, <1>2, <1>3
  DEF OnInboundAlert, OutcomeOK, Phase, CloseState
<1>4. CASE a = "fatal"
  <2>1. /\ hs' = "failed" /\ closeState' = "fatalReceived"
        /\ pendingPlain' = <<>> /\ out' = <<CloseTransport("abortive")>>
    BY <1>4 DEF OnInboundAlert
  <2> QED
    BY <1>1, <1>2, <2>1 DEF OutcomeOK, Phase, TerminalPhase, CloseState
<1>5. CASE a = "truncated"
  BY <1>5, FailType DEF OnInboundAlert
<1> QED
  BY <1>3, <1>4, <1>5 DEF Alert

LEMMA AllocateType ==
  ASSUME nextOpId \in Nat, NEW ops \in SUBSET PendingOp,
         NEW kind \in OpKind, NEW epoch \in Epoch, NEW dir \in Direction,
         Allocate(ops, kind, epoch, dir)
  PROVE  OpsOK'
BY DEF Allocate, OpsOK, PendingOp

LEMMA KeepOpsType ==
  ASSUME nextOpId \in Nat, NEW ops \in SUBSET PendingOp, KeepOps(ops)
  PROVE  OpsOK'
BY DEF KeepOps, OpsOK

LEMMA WithoutType ==
  ASSUME OpsOK, NEW id
  PROVE  Without(id) \in SUBSET PendingOp
BY DEF OpsOK, Without

LEMMA AllocOrFailType ==
  ASSUME OutcomeOK, nextOpId \in Nat, writeEpoch' \in EpochState,
         NEW ops \in SUBSET PendingOp, NEW op \in CryptoOp,
         NEW epoch \in Epoch, NEW dir \in Direction, NEW phase \in Phase,
         NEW writes \in Seq(OutputAction),
         AllocOrFail(ops, op, epoch, dir, phase, writes)
  PROVE  OutcomeOK' /\ OpsOK'
<1>1. CASE Room(ops)
  <2>1. op.kind \in OpKind
    BY OpKindType
  <2>2. Append(writes, CallCrypto(nextOpId, op)) \in Seq(OutputAction)
    BY CallCryptoType
  <2>3. /\ Allocate(ops, op.kind, epoch, dir)
        /\ MoveTo(phase, Append(writes, CallCrypto(nextOpId, op)))
    BY <1>1 DEF AllocOrFail
  <2> QED
    BY <2>1, <2>2, <2>3, AllocateType, MoveToType
<1>2. CASE ~Room(ops)
  BY <1>2, FailType, KeepOpsType DEF AllocOrFail
<1> QED
  BY <1>1, <1>2

-----------------------------------------------------------------------------
(* Typing of inbound messages and records.                                 *)

Budgets == [handshake : Nat, clientHello : Nat]

\* What OnHandshakeMessage assigns, apart from the outcome and operations.
MessageVarsOK ==
  /\ pendingFinished \in Seq(Message) /\ Len(pendingFinished) <= 1
  /\ transcript \in Transcript /\ budgets \in Budgets

LEMMA AppendTranscriptType ==
  ASSUME NEW t \in Transcript, NEW m \in Message \cup ServerMessage
  PROVE  Append(t, m) \in Transcript
BY DEF Transcript

LEMMA EmptySequences ==
  /\ <<>> \in Seq(OutputAction) /\ <<>> \in Transcript
  /\ <<>> \in Seq(Bytes) /\ Len(<<>>) = 0
BY DEF Transcript

LEMMA ClientHelloType ==
  ASSUME OutcomeOK, MessageVarsOK, nextOpId \in Nat,
         writeEpoch' \in EpochState, NEW m \in Message,
         NEW charged \in Budgets, NEW ops \in SUBSET PendingOp,
         OnClientHello(m, charged, ops)
  PROVE  OutcomeOK' /\ OpsOK' /\ MessageVarsOK'
<1> DEFINE seen == [charged EXCEPT !.clientHello = @ + MessageSize(m)]
           refused == \/ seen.clientHello > MaxClientHelloBytes
                      \/ m = "NoScheme"
           op == PlainOp("randomBytes", <<>>)
<1>1. seen \in Budgets
  BY DEF Budgets, MessageSize
<1>2. pendingFinished' = pendingFinished
  BY DEF OnClientHello
<1>3. CASE Fail /\ KeepOps(ops) /\ budgets' \in {charged, seen}
           /\ transcript' = transcript
  BY <1>1, <1>2, <1>3, FailType, KeepOpsType DEF MessageVarsOK
<1>4. CASE /\ budgets' = seen /\ transcript' = Append(transcript, m)
           /\ AllocOrFail(ops, op, "handshake", "write",
                          "requestedServerRandom", <<>>)
  <2>1. op \in CryptoOp
    BY EmptySequences, PlainOpType DEF OpKind
  <2>2. /\ "handshake" \in Epoch /\ "write" \in Direction
        /\ "requestedServerRandom" \in Phase
    BY DEF Epoch, Direction, Phase, Flight
  <2>3. transcript' \in Transcript
    BY <1>4, AppendTranscriptType DEF MessageVarsOK
  <2>4. OutcomeOK' /\ OpsOK'
    BY <1>4, <2>1, <2>2, EmptySequences, AllocOrFailType
  <2> QED
    BY <1>1, <1>2, <1>4, <2>3, <2>4 DEF MessageVarsOK
<1> QED
  BY <1>3, <1>4 DEF OnClientHello

LEMMA ClientFinishedType ==
  ASSUME OutcomeOK, MessageVarsOK, nextOpId \in Nat,
         writeEpoch' \in EpochState, NEW m \in Message,
         NEW charged \in Budgets, NEW ops \in SUBSET PendingOp,
         OnClientFinishedBytes(m, charged, ops)
  PROVE  OutcomeOK' /\ OpsOK' /\ MessageVarsOK'
<1> DEFINE op == [kind |-> "verifyFinished", prefix |-> transcript, msg |-> m]
<1>1. op \in CryptoOp
  BY DEF MessageVarsOK, CryptoOp
<1>2. /\ "application" \in Epoch /\ "read" \in Direction
      /\ "requestedClientFinishedVerify" \in Phase
  BY DEF Epoch, Direction, Phase
<1>3. AllocOrFail(ops, op, "application", "read",
                  "requestedClientFinishedVerify", <<>>)
  BY DEF OnClientFinishedBytes
<1>4. OutcomeOK' /\ OpsOK'
  BY <1>1, <1>2, <1>3, EmptySequences, AllocOrFailType
<1> QED
  BY <1>4 DEF OnClientFinishedBytes, MessageVarsOK

LEMMA HandshakeMessageType ==
  ASSUME OutcomeOK, MessageVarsOK, nextOpId \in Nat,
         writeEpoch' \in EpochState, NEW m \in Message,
         NEW charged \in Budgets, NEW ops \in SUBSET PendingOp,
         OnHandshakeMessage(m, charged, ops)
  PROVE  OutcomeOK' /\ OpsOK' /\ MessageVarsOK'
<1>1. CASE hs = "start"
  BY <1>1, ClientHelloType DEF OnHandshakeMessage
<1>2. CASE hs = "sentServerFinished"
  BY <1>2, ClientFinishedType DEF OnHandshakeMessage
<1>3. CASE hs \notin {"start", "sentServerFinished"}
  <2>1. /\ Ignore /\ KeepOps(ops) /\ budgets' = charged
        /\ UNCHANGED <<transcript, pendingFinished>>
    BY <1>3 DEF OnHandshakeMessage
  <2> QED
    BY <2>1, IgnoreType, KeepOpsType DEF MessageVarsOK
<1> QED
  BY <1>1, <1>2, <1>3

LEMMA FramedType ==
  ASSUME inbound \in Seq(Record), NEW recs \in Seq(Record), NEW outer,
         Framed(recs, outer)
  PROVE  /\ inbound' \in Seq(Record)
         /\ Head(inbound \o recs) \in Record
         /\ Head(inbound \o recs).outer \in outer
<1>1. inbound \o recs \in Seq(Record) /\ inbound \o recs # <<>>
  BY DEF Framed
<1> QED
  BY <1>1 DEF Framed

LEMMA RecordFields ==
  ASSUME NEW rec \in Record
  PROVE  /\ rec.outer = "applicationData" => rec.body \in Sealed
         /\ rec.outer = "handshake" => rec.frags \in Seq(Fragment)
         /\ rec.outer = "alert" => rec.alert \in Alert
BY DEF Record

LEMMA TransportBytesType ==
  ASSUME TypeOK, NEW recs \in Seq(Record), TransportBytes(recs)
  PROVE  TypeOK'
<1> USE DEF bufferVars, flightVars, epochVars, opVars
<1>p. OutcomeOK /\ OpsOK /\ EpochsOK /\ BuffersOK /\ FlightOK
  BY TypeOKParts
<1> DEFINE rec == Head(inbound \o recs)
<1>f. \A outer : Framed(recs, outer) =>
        inbound' \in Seq(Record) /\ rec \in Record /\ rec.outer \in outer
  BY <1>p, FramedType DEF BuffersOK
<1> HIDE DEF rec
<1>1. CASE NeedMoreBytes(recs)
  <2>1. <<Act("readTransport")>> \in Seq(OutputAction)
    BY ActType
  <2>2. OutcomeOK'
    BY <1>1, <1>p, <2>1, MoveToType DEF NeedMoreBytes, OutcomeOK
  <2> QED
    BY <1>1, <1>p, <2>2, TypeOKPartsNext
    DEF NeedMoreBytes, OpsOK, EpochsOK, BuffersOK, FlightOK
<1>2. CASE ProtectedRecord(recs)
  <2> DEFINE epoch == IF Connected THEN "application" ELSE "handshake"
             op == [kind |-> "aeadOpen", epoch |-> readEpoch.epoch,
                    seq |-> readEpoch.seq, body |-> rec.body]
  <2>1. Framed(recs, {"applicationData"})
    BY <1>2 DEF ProtectedRecord
  <2>2. rec.body \in Sealed /\ inbound' \in Seq(Record)
    BY <1>f, <2>1, RecordFields
  <2>3. op \in CryptoOp
    BY <1>p, <2>2 DEF EpochsOK, EpochState, CryptoOp
  <2>4. EpochsOK' /\ BuffersOK' /\ FlightOK'
    BY <1>2, <1>p, <2>2
    DEF ProtectedRecord, EpochsOK, BuffersOK, FlightOK
  <2>5. OutcomeOK' /\ OpsOK'
    <3>1. CASE AllocOrFail(pendingOps, op, epoch, "read", hs, <<>>)
      <4>1. epoch \in Epoch /\ "read" \in Direction
        BY DEF Epoch, Direction
      <4> QED
        BY <3>1, <1>p, <2>3, <2>4, <4>1, EmptySequences, AllocOrFailType
        DEF OutcomeOK, OpsOK, EpochsOK
    <3>2. CASE Ignore /\ KeepOps(pendingOps)
      BY <3>2, <1>p, IgnoreType, KeepOpsType DEF OpsOK
    <3> QED
      BY <1>2, <3>1, <3>2 DEF ProtectedRecord, rec
  <2> QED
    BY <2>4, <2>5, TypeOKPartsNext
<1>3. CASE CcsRecord(recs)
  <2>1. inbound' \in Seq(Record)
    BY <1>3, <1>f DEF CcsRecord
  <2>2. OpsOK' /\ EpochsOK' /\ BuffersOK' /\ FlightOK'
    BY <1>3, <1>p, <2>1
    DEF CcsRecord, OpsOK, EpochsOK, BuffersOK, FlightOK
  <2>3. OutcomeOK'
    BY <1>3, <1>p, <2>2, FailType, IgnoreType DEF CcsRecord, EpochsOK
  <2> QED
    BY <2>2, <2>3, TypeOKPartsNext
<1>4. CASE HandshakeRecord(recs)
  <2> DEFINE charged == [budgets EXCEPT !.handshake = @ + Len(rec.frags)]
             buf == reasm \o rec.frags
  <2>1. Framed(recs, {"handshake"})
    BY <1>4 DEF HandshakeRecord
  <2>2. rec.frags \in Seq(Fragment) /\ inbound' \in Seq(Record)
    BY <1>f, <2>1, RecordFields
  <2>3. charged \in Budgets
    BY SMTT(30), <1>p, <2>2 DEF FlightOK, Budgets
  <2>4. buf \in Seq(Fragment)
    BY <1>p, <2>2 DEF BuffersOK
  <2>5. EpochsOK' /\ outbound' = outbound /\ keySched' = keySched
    BY <1>4, <1>p DEF HandshakeRecord, EpochsOK
  <2>m. MessageVarsOK
    BY <1>p DEF FlightOK, MessageVarsOK, Budgets
  <2>6. CASE /\ HoldsMessage(buf)
             /\ reasm' = AfterMessage(buf)
             /\ OnHandshakeMessage(FirstMessage(buf), charged, pendingOps)
    <3>1. FirstMessage(buf) \in Message /\ reasm' \in Seq(Fragment)
      BY <2>4, <2>6, FramingType
    <3>2. OutcomeOK' /\ OpsOK' /\ MessageVarsOK'
      BY <1>p, <2>3, <2>5, <2>6, <2>m, <3>1, HandshakeMessageType
      DEF OpsOK, EpochsOK
    <3> QED
      BY <1>p, <2>2, <2>5, <3>1, <3>2, TypeOKPartsNext
      DEF BuffersOK, FlightOK, MessageVarsOK, Budgets
  <2>7. CASE /\ budgets' \in {budgets, charged}
             /\ reasm' \in {reasm, buf}
             /\ UNCHANGED <<opVars, transcript, pendingFinished>>
             /\ Fail \/ MoveTo(hs, <<Act("readTransport")>>)
    <3>1. <<Act("readTransport")>> \in Seq(OutputAction)
      BY ActType
    <3>2. OutcomeOK'
      BY <1>p, <2>5, <2>7, <3>1, FailType, MoveToType
      DEF OutcomeOK, EpochsOK
    <3> QED
      BY <1>p, <2>2, <2>3, <2>4, <2>5, <2>7, <3>2, TypeOKPartsNext
      DEF OpsOK, BuffersOK, FlightOK, Budgets
  <2> QED
    BY <1>4, <2>6, <2>7 DEF HandshakeRecord, rec
<1>5. CASE AlertRecord(recs)
  <2>1. inbound' \in Seq(Record) /\ rec.alert \in Alert
    BY <1>5, <1>f, RecordFields DEF AlertRecord
  <2>2. OpsOK' /\ EpochsOK' /\ BuffersOK' /\ FlightOK'
    BY <1>5, <1>p, <2>1
    DEF AlertRecord, OpsOK, EpochsOK, BuffersOK, FlightOK
  <2>3. OutcomeOK'
    BY <1>5, <1>p, <2>1, <2>2, InboundAlertType DEF AlertRecord, EpochsOK, rec
  <2> QED
    BY <2>2, <2>3, TypeOKPartsNext
<1>6. CASE InvalidRecord(recs)
  <2>1. inbound' \in Seq(Record)
    BY <1>6, <1>f DEF InvalidRecord
  <2>2. OpsOK' /\ EpochsOK' /\ BuffersOK' /\ FlightOK'
    BY <1>6, <1>p, <2>1
    DEF InvalidRecord, OpsOK, EpochsOK, BuffersOK, FlightOK
  <2>3. OutcomeOK'
    BY <1>6, <2>2, FailType DEF InvalidRecord, EpochsOK
  <2> QED
    BY <2>2, <2>3, TypeOKPartsNext
<1> QED
  BY <1>1, <1>2, <1>3, <1>4, <1>5, <1>6 DEF TransportBytes

-----------------------------------------------------------------------------
(* Typing of the record operations' results.                               *)

LEMMA InnerFields ==
  ASSUME NEW inner \in Inner
  PROVE  /\ inner.ctype = "applicationData" => inner.content \in Bytes
         /\ inner.ctype = "handshake" => inner.msg \in Message
         /\ inner.ctype = "alert" => inner.alert \in Alert
BY DEF Inner

LEMMA OpenedConnectedType ==
  ASSUME TypeOK, NEW id, NEW inner \in Inner, AeadOpenedConnected(id, inner)
  PROVE  TypeOK'
<1> USE DEF bufferVars, flightVars
<1>p. OutcomeOK /\ OpsOK /\ EpochsOK /\ BuffersOK /\ FlightOK
  BY TypeOKParts
<1>1. OpsOK' /\ BuffersOK' /\ FlightOK' /\ writeEpoch' = writeEpoch
  <2>1. pendingOps' \in {pendingOps, Without(id)} /\ nextOpId' = nextOpId
    BY DEF AeadOpenedConnected
  <2> QED
    BY <1>p, <2>1, WithoutType
    DEF AeadOpenedConnected, OpsOK, BuffersOK, FlightOK
<1>2. writeEpoch' \in EpochState
  BY <1>1, <1>p DEF EpochsOK
<1>3. CASE UNCHANGED readEpoch /\ (Fail \/ Ignore)
  BY <1>1, <1>2, <1>3, <1>p, FailType, IgnoreType, TypeOKPartsNext
  DEF EpochsOK
<1>4. CASE /\ inner.ctype = "applicationData" /\ ~SeqExhausted(readEpoch)
           /\ pendingPlain' = <<inner.content>>
           /\ readEpoch' = AdvanceSeq(readEpoch)
           /\ out' = <<>>
           /\ UNCHANGED <<hs, closeState>>
  <2>1. EpochsOK'
    BY <1>2, <1>4, <1>p, EpochTypes DEF EpochsOK
  <2>2. pendingPlain' \in Seq(Bytes) /\ Len(pendingPlain') = 1
    BY <1>4, InnerFields
  <2>3. OutcomeOK'
    BY <1>4, <1>p, <2>2, EmptySequences DEF OutcomeOK
  <2> QED
    BY <1>1, <2>1, <2>3, TypeOKPartsNext
<1>5. CASE /\ inner.ctype = "alert"
           /\ OnInboundAlert(inner.alert) /\ UNCHANGED readEpoch
  BY <1>1, <1>2, <1>5, <1>p, InnerFields, InboundAlertType, TypeOKPartsNext
  DEF EpochsOK
<1> QED
  BY <1>3, <1>4, <1>5 DEF AeadOpenedConnected

LEMMA OpenedHandshakeType ==
  ASSUME TypeOK, NEW id, NEW inner \in Inner, AeadOpenedHandshake(id, inner)
  PROVE  TypeOK'
<1> USE DEF bufferVars
<1>p. OutcomeOK /\ OpsOK /\ EpochsOK /\ BuffersOK /\ FlightOK
  BY TypeOKParts
<1>1. BuffersOK' /\ writeEpoch' = writeEpoch /\ keySched' = keySched
  BY <1>p DEF AeadOpenedHandshake, BuffersOK
<1>2. writeEpoch' \in EpochState
  BY <1>1, <1>p DEF EpochsOK
<1>m. MessageVarsOK /\ budgets \in Budgets
  BY <1>p DEF FlightOK, MessageVarsOK, Budgets
<1>o. Without(id) \in SUBSET PendingOp /\ pendingOps \in SUBSET PendingOp
      /\ nextOpId \in Nat
  BY <1>p, WithoutType DEF OpsOK
<1>3. CASE inner.ctype = "handshake" /\ ~SeqExhausted(readEpoch)
  <2>1. /\ readEpoch' = AdvanceSeq(readEpoch)
        /\ OnHandshakeMessage(inner.msg, budgets, Without(id))
    BY <1>3 DEF AeadOpenedHandshake
  <2>2. inner.msg \in Message
    BY <1>3, InnerFields
  <2>3. OutcomeOK' /\ OpsOK' /\ MessageVarsOK'
    BY <1>2, <1>m, <1>o, <1>p, <2>1, <2>2, HandshakeMessageType
  <2>4. EpochsOK'
    BY <1>2, <1>3, <1>p, <2>1, EpochTypes DEF EpochsOK
  <2>5. FlightOK'
    BY <1>1, <1>p, <2>3 DEF FlightOK, MessageVarsOK, Budgets
  <2> QED
    BY <1>1, <2>3, <2>4, <2>5, TypeOKPartsNext
<1>4. CASE ~(inner.ctype = "handshake" /\ ~SeqExhausted(readEpoch))
  <2>1. UNCHANGED <<readEpoch, transcript, pendingFinished, budgets>>
    BY <1>4 DEF AeadOpenedHandshake
  <2>2. \/ inner.ctype = "alert" /\ KeepOps(Without(id))
             /\ OnInboundAlert(inner.alert)
        \/ KeepOps(Without(id)) /\ Ignore
        \/ KeepOps(pendingOps) /\ Fail
    BY <1>4 DEF AeadOpenedHandshake
  <2>3. EpochsOK' /\ FlightOK'
    BY <1>1, <1>2, <1>p, <2>1 DEF EpochsOK, FlightOK
  <2>4. OpsOK'
    BY <1>o, <2>2, KeepOpsType
  <2>5. OutcomeOK'
    BY <1>2, <1>p, <2>2, InnerFields, InboundAlertType, IgnoreType, FailType
  <2> QED
    BY <1>1, <2>3, <2>4, <2>5, TypeOKPartsNext
<1> QED
  BY <1>3, <1>4

LEMMA SealedType ==
  ASSUME TypeOK, NEW id \in Nat, AeadSealed(id)
  PROVE  TypeOK'
<1>p. OutcomeOK /\ OpsOK /\ EpochsOK /\ BuffersOK /\ FlightOK
  BY TypeOKParts
<1>1. OpsOK'
  BY <1>p, WithoutType, KeepOpsType DEF AeadSealed, OpsOK
<1>2. EpochsOK' /\ BuffersOK' /\ FlightOK'
  BY <1>p DEF AeadSealed, EpochsOK, BuffersOK, FlightOK, epochVars, flightVars
<1>3. /\ <<WriteTransport(id), CloseTransport("graceful")>>
           \in Seq(OutputAction)
      /\ <<WriteTransport(id)>> \in Seq(OutputAction)
  <2>1. "graceful" \in CloseMode
    BY DEF CloseMode
  <2> QED
    BY <2>1, OtherActionTypes
<1>4. OutcomeOK'
  <2>1. \E acts \in Seq(OutputAction) : MoveTo(hs, acts)
    BY <1>3 DEF AeadSealed
  <2> QED
    BY <1>p, <2>1, MoveToType DEF OutcomeOK
<1> QED
  BY <1>1, <1>2, <1>4, TypeOKPartsNext

LEMMA CryptoFailedType ==
  ASSUME TypeOK, NEW id, CryptoFailed(id)
  PROVE  TypeOK'
<1>p. OutcomeOK /\ OpsOK /\ EpochsOK /\ BuffersOK /\ FlightOK
  BY TypeOKParts
<1>1. OpsOK'
  BY <1>p, WithoutType, KeepOpsType DEF CryptoFailed, OpsOK
<1>2. EpochsOK' /\ BuffersOK' /\ FlightOK'
  BY <1>p
  DEF CryptoFailed, EpochsOK, BuffersOK, FlightOK, epochVars, bufferVars,
      flightVars
<1>3. OutcomeOK'
  BY <1>2, FailType DEF CryptoFailed, EpochsOK
<1> QED
  BY <1>1, <1>2, <1>3, TypeOKPartsNext

-----------------------------------------------------------------------------
(* Typing of the server flight.                                            *)

LEMMA ServerRandomType ==
  ASSUME OutcomeOK, EpochsOK, FlightOK, nextOpId \in Nat,
         NEW ops \in SUBSET PendingOp, OnServerRandomDone(ops)
  PROVE  OutcomeOK' /\ OpsOK' /\ EpochsOK' /\ FlightOK'
<1> DEFINE op == PlainOp("ecdhe", <<>>)
<1>1. EpochsOK' /\ FlightOK'
  BY DEF OnServerRandomDone, EpochsOK, FlightOK, epochVars, flightVars
<1>2. op \in CryptoOp
  BY EmptySequences, PlainOpType DEF OpKind
<1>3. "handshake" \in Epoch /\ "read" \in Direction /\ "requestedEcdhe" \in Phase
  BY DEF Epoch, Direction, Phase, Flight
<1>4. AllocOrFail(ops, op, "handshake", "read", "requestedEcdhe", <<>>)
  BY DEF OnServerRandomDone
<1> QED
  BY <1>1, <1>2, <1>3, <1>4, EmptySequences, AllocOrFailType DEF EpochsOK

LEMMA EcdheType ==
  ASSUME OutcomeOK, EpochsOK, FlightOK, nextOpId \in Nat,
         NEW ops \in SUBSET PendingOp, OnEcdheDone(ops)
  PROVE  OutcomeOK' /\ OpsOK' /\ EpochsOK' /\ FlightOK'
<1> DEFINE th == Append(transcript, "ServerHello")
           ks == [phase |-> "awaitEarly", hsTranscript |-> th,
                  apTranscript |-> <<>>]
<1>1. th \in Transcript
  BY AppendTranscriptType DEF FlightOK, ServerMessage
<1>2. ks \in KeySched /\ ks.phase \in AwaitPhase
  BY <1>1, EmptySequences DEF KeySched, AwaitPhase, HandshakeStage
<1>3. EpochsOK'
  BY EpochTypes DEF OnEcdheDone, EpochsOK, Epoch
<1>4. FlightOK'
  BY <1>1, <1>2 DEF OnEcdheDone, FlightOK
<1>5. ScheduleOp(ks) \in CryptoOp
  BY <1>2, ScheduleOpType
<1>6. /\ "handshake" \in Epoch /\ "initial" \in Epoch /\ "write" \in Direction
      /\ "derivedHandshakeSecrets" \in Phase
      /\ "ServerHello" \in ServerMessage
  BY DEF Epoch, Direction, Phase, Flight, ServerMessage
<1>7. <<WriteHandshake("initial", 0, "ServerHello")>> \in Seq(OutputAction)
  BY <1>6, WriteHandshakeType
<1>8. AllocOrFail(ops, ScheduleOp(ks), "handshake", "write",
                  "derivedHandshakeSecrets",
                  <<WriteHandshake("initial", 0, "ServerHello")>>)
  BY DEF OnEcdheDone
<1> HIDE DEF ks
<1> QED
  BY <1>3, <1>4, <1>5, <1>6, <1>7, <1>8, AllocOrFailType DEF EpochsOK

LEMMA PumpType ==
  ASSUME OutcomeOK, EpochsOK, FlightOK, nextOpId \in Nat,
         NEW ops \in SUBSET PendingOp, NEW ks \in KeySched,
         ks.phase \in AwaitPhase, NEW epoch \in Epoch,
         PumpSchedule(ops, ks, epoch)
  PROVE  OutcomeOK' /\ OpsOK' /\ EpochsOK' /\ FlightOK'
<1>1. EpochsOK' /\ FlightOK'
  BY DEF PumpSchedule, EpochsOK, FlightOK, epochVars
<1>2. ScheduleOp(ks) \in CryptoOp /\ "write" \in Direction /\ hs \in Phase
  BY ScheduleOpType DEF Direction, OutcomeOK
<1>3. AllocOrFail(ops, ScheduleOp(ks), epoch, "write", hs, <<>>)
  BY DEF PumpSchedule
<1> QED
  BY <1>1, <1>2, <1>3, EmptySequences, AllocOrFailType DEF EpochsOK

LEMMA ScheduleErrorType ==
  ASSUME EpochsOK, FlightOK, nextOpId \in Nat,
         NEW ops \in SUBSET PendingOp, ScheduleError(ops)
  PROVE  OutcomeOK' /\ OpsOK' /\ EpochsOK' /\ FlightOK'
<1>1. EpochsOK' /\ FlightOK'
  BY DEF ScheduleError, EpochsOK, FlightOK, epochVars, flightVars
<1> QED
  BY <1>1, FailType, KeepOpsType DEF ScheduleError, EpochsOK

\* advance yields a phase of the driver or its typed error.
LEMMA AdvanceType ==
  ASSUME NEW phase, NEW result
  PROVE  Advance(phase, result) \in {"error"} \cup AwaitPhase \cup Paused
BY ScheduleType DEF Advance

\* The driver with its phase moved on, for a phase that is not the error.
LEMMA MovedScheduleType ==
  ASSUME NEW ks \in KeySched, NEW p \in AwaitPhase \cup Paused
  PROVE  /\ [ks EXCEPT !.phase = p] \in KeySched
         /\ [ks EXCEPT !.phase = p].phase = p
BY DEF KeySched

LEMMA HsScheduleType ==
  ASSUME OutcomeOK, EpochsOK, FlightOK, nextOpId \in Nat,
         NEW ops \in SUBSET PendingOp, NEW result,
         OnHsScheduleResult(ops, result)
  PROVE  OutcomeOK' /\ OpsOK' /\ EpochsOK' /\ FlightOK'
<1> DEFINE next == Advance(keySched.phase, result)
           ks == [keySched EXCEPT !.phase = next]
           th == transcript \o <<"EncryptedExtensions", "Certificate">>
           writes == <<WriteHandshake("handshake", 0, "EncryptedExtensions"),
                       WriteHandshake("handshake", 1, "Certificate")>>
<1>1. next = "error" \/ next \in AwaitPhase \cup Paused
  BY AdvanceType
<1>2. next \in AwaitPhase \cup Paused => ks \in KeySched /\ ks.phase = next
  BY MovedScheduleType DEF FlightOK
<1>3. "error" \notin AwaitPhase \cup Paused
  BY DEF AwaitPhase, HandshakeStage, ApplicationStage, Paused
<1> HIDE DEF next, ks
<1>4. CASE next = "error"
  <2>1. ScheduleError(ops)
    BY <1>3, <1>4 DEF OnHsScheduleResult, next
  <2> QED
    BY <2>1, ScheduleErrorType
<1>5. CASE next \in AwaitPhase
  <2>1. PumpSchedule(ops, ks, "handshake")
    BY <1>3, <1>5 DEF OnHsScheduleResult, next, ks, AwaitPhase,
                      HandshakeStage, ApplicationStage
  <2>2. "handshake" \in Epoch
    BY DEF Epoch
  <2> QED
    BY <1>2, <1>5, <2>1, <2>2, PumpType
<1>6. CASE next = "handshakeKeysInstalled"
  <2>1. /\ transcript' = th
        /\ keySched' = ks
        /\ AllocOrFail(ops, PlainOp("signCertificateVerify", th),
             "handshake", "write", "requestedCertificateVerifySignature",
             writes)
        /\ UNCHANGED <<epochVars, pendingFinished, budgets>>
    BY <1>6 DEF OnHsScheduleResult, next, ks, AwaitPhase, HandshakeStage,
                ApplicationStage
  <2>2. th \in Transcript
    BY DEF FlightOK, Transcript, ServerMessage
  <2>3. ks \in KeySched
    BY <1>2, <1>6 DEF Paused
  <2>4. EpochsOK' /\ FlightOK'
    BY <2>1, <2>2, <2>3 DEF EpochsOK, FlightOK, epochVars
  <2>5. PlainOp("signCertificateVerify", th) \in CryptoOp
    BY <2>2, PlainOpType DEF OpKind
  <2>6. writes \in Seq(OutputAction)
    <3>1. /\ "handshake" \in Epoch /\ "EncryptedExtensions" \in ServerMessage
          /\ "Certificate" \in ServerMessage
      BY DEF Epoch, ServerMessage
    <3>2. /\ WriteHandshake("handshake", 0, "EncryptedExtensions")
               \in OutputAction
          /\ WriteHandshake("handshake", 1, "Certificate") \in OutputAction
      BY <3>1, WriteHandshakeType
    <3> QED
      BY <3>2
  <2>7. /\ "handshake" \in Epoch /\ "write" \in Direction
        /\ "requestedCertificateVerifySignature" \in Phase
    BY DEF Epoch, Direction, Phase, Flight
  <2> HIDE DEF writes, th
  <2> QED
    BY <2>1, <2>4, <2>5, <2>6, <2>7, AllocOrFailType DEF EpochsOK
<1>7. CASE next \in Paused \ {"handshakeKeysInstalled"}
  <2>1. /\ Ignore /\ KeepOps(ops) /\ keySched' = ks
        /\ UNCHANGED <<epochVars, transcript, pendingFinished, budgets>>
    BY <1>7
    DEF OnHsScheduleResult, next, ks, Paused, AwaitPhase, HandshakeStage,
        ApplicationStage
  <2>2. EpochsOK' /\ FlightOK'
    BY <1>2, <1>7, <2>1 DEF EpochsOK, FlightOK, epochVars
  <2> QED
    BY <2>1, <2>2, IgnoreType, KeepOpsType
<1> QED
  BY <1>1, <1>4, <1>5, <1>6, <1>7

LEMMA CertVerifyType ==
  ASSUME OutcomeOK, EpochsOK, FlightOK, nextOpId \in Nat,
         NEW ops \in SUBSET PendingOp, OnCertVerifySigned(ops)
  PROVE  OutcomeOK' /\ OpsOK' /\ EpochsOK' /\ FlightOK'
<1> DEFINE th == Append(transcript, "CertificateVerify")
           op == PlainOp("computeServerFinished", th)
           writes == <<WriteHandshake("handshake", 2, "CertificateVerify")>>
<1>1. th \in Transcript
  BY AppendTranscriptType DEF FlightOK, ServerMessage
<1>2. op \in CryptoOp
  BY <1>1, PlainOpType DEF OpKind
<1>3. /\ "handshake" \in Epoch /\ "write" \in Direction
      /\ "requestedServerFinishedMac" \in Phase
      /\ "CertificateVerify" \in ServerMessage
  BY DEF Epoch, Direction, Phase, Flight, ServerMessage
<1>4. writes \in Seq(OutputAction)
  BY <1>3, WriteHandshakeType
<1>5. EpochsOK' /\ FlightOK'
  BY <1>1 DEF OnCertVerifySigned, EpochsOK, FlightOK, epochVars
<1>6. AllocOrFail(ops, op, "handshake", "write",
                  "requestedServerFinishedMac", writes)
  BY DEF OnCertVerifySigned
<1> HIDE DEF op, writes
<1> QED
  BY <1>2, <1>3, <1>4, <1>5, <1>6, AllocOrFailType DEF EpochsOK

LEMMA ServerFinishedType ==
  ASSUME OutcomeOK, EpochsOK, FlightOK, nextOpId \in Nat,
         NEW ops \in SUBSET PendingOp, OnServerFinishedMac(ops)
  PROVE  OutcomeOK' /\ OpsOK' /\ EpochsOK' /\ FlightOK'
<1> DEFINE th == Append(transcript, "ServerFinished")
           ks == [keySched EXCEPT !.phase = "awaitDerivedMs",
                                  !.apTranscript = th]
           writes == <<WriteHandshake("handshake", 3, "ServerFinished")>>
<1>1. th \in Transcript
  BY AppendTranscriptType DEF FlightOK, ServerMessage
<1>2. ks \in KeySched /\ ks.phase \in AwaitPhase
  BY <1>1 DEF FlightOK, KeySched, AwaitPhase, ApplicationStage
<1>3. ScheduleOp(ks) \in CryptoOp
  BY <1>2, ScheduleOpType
<1>4. /\ "application" \in Epoch /\ "handshake" \in Epoch
      /\ "write" \in Direction /\ "sentCertificateVerify" \in Phase
      /\ "ServerFinished" \in ServerMessage
  BY DEF Epoch, Direction, Phase, Flight, ServerMessage
<1>5. writes \in Seq(OutputAction)
  BY <1>4, WriteHandshakeType
<1>6. CASE keySched.phase # "handshakeKeysInstalled"
  BY <1>6, ScheduleErrorType DEF OnServerFinishedMac
<1>7. CASE keySched.phase = "handshakeKeysInstalled"
  <2>1. /\ transcript' = th
        /\ AllocOrFail(ops, ScheduleOp(ks), "application", "write",
                       "sentCertificateVerify", writes)
        /\ keySched' \in {ks, keySched}
        /\ UNCHANGED <<epochVars, pendingFinished, budgets>>
    BY <1>7 DEF OnServerFinishedMac
  <2>2. EpochsOK' /\ FlightOK'
    BY <1>1, <1>2, <2>1 DEF EpochsOK, FlightOK, epochVars
  <2> HIDE DEF ks, writes
  <2> QED
    BY <1>3, <1>4, <1>5, <2>1, <2>2, AllocOrFailType DEF EpochsOK
<1> QED
  BY <1>6, <1>7

LEMMA ApScheduleType ==
  ASSUME OutcomeOK, EpochsOK, FlightOK, nextOpId \in Nat,
         NEW ops \in SUBSET PendingOp, NEW result,
         OnApScheduleResult(ops, result)
  PROVE  OutcomeOK' /\ OpsOK' /\ EpochsOK' /\ FlightOK'
<1> DEFINE next == Advance(keySched.phase, result)
           ks == [keySched EXCEPT !.phase = next]
<1>1. next = "error" \/ next \in AwaitPhase \cup Paused
  BY AdvanceType
<1>2. next \in AwaitPhase \cup Paused => ks \in KeySched /\ ks.phase = next
  BY MovedScheduleType DEF FlightOK
<1>3. /\ "error" \notin AwaitPhase \cup Paused
      /\ "complete" \notin AwaitPhase
  BY DEF AwaitPhase, HandshakeStage, ApplicationStage, Paused
<1>e. "handshake" \in Epoch /\ "application" \in Epoch
  BY DEF Epoch
<1> HIDE DEF next, ks
<1>4. CASE next = "error"
  <2>1. ScheduleError(ops)
    BY <1>3, <1>4 DEF OnApScheduleResult, next
  <2> QED
    BY <2>1, ScheduleErrorType
<1>5. CASE next \in AwaitPhase
  <2>1. PumpSchedule(ops, ks, "application")
    BY <1>3, <1>5
    DEF OnApScheduleResult, next, ks, AwaitPhase, HandshakeStage,
        ApplicationStage
  <2> QED
    BY <1>2, <1>5, <1>e, <2>1, PumpType
<1>6. CASE next = "complete"
  <2>1. /\ MoveTo("sentServerFinished", <<>>)
        /\ keySched' = ks
        /\ readEpoch' = InstallEpoch("handshake")
        /\ writeEpoch' = InstallEpoch("application")
        /\ KeepOps(ops)
        /\ UNCHANGED <<transcript, pendingFinished, budgets>>
    BY <1>3, <1>6
    DEF OnApScheduleResult, next, ks, AwaitPhase, HandshakeStage,
        ApplicationStage
  <2>2. EpochsOK'
    BY <1>e, <2>1, EpochTypes DEF EpochsOK
  <2>3. FlightOK'
    BY <1>2, <1>6, <2>1 DEF FlightOK, Paused
  <2>4. "sentServerFinished" \in Phase
    BY DEF Phase
  <2> QED
    BY <2>1, <2>2, <2>3, <2>4, EmptySequences, MoveToType, KeepOpsType
<1>7. CASE next \in Paused \ {"complete"}
  <2>1. /\ Ignore /\ KeepOps(ops) /\ keySched' = ks
        /\ UNCHANGED <<epochVars, transcript, pendingFinished, budgets>>
    BY <1>3, <1>7
    DEF OnApScheduleResult, next, ks, Paused, AwaitPhase, HandshakeStage,
        ApplicationStage
  <2>2. EpochsOK' /\ FlightOK'
    BY <1>2, <1>7, <2>1 DEF EpochsOK, FlightOK, epochVars
  <2> QED
    BY <2>1, <2>2, IgnoreType, KeepOpsType
<1> QED
  BY <1>1, <1>4, <1>5, <1>6, <1>7

LEMMA VerifiedType ==
  ASSUME OutcomeOK, EpochsOK, FlightOK, nextOpId \in Nat,
         NEW ops \in SUBSET PendingOp, OnClientFinishedVerified(ops)
  PROVE  OutcomeOK' /\ OpsOK' /\ EpochsOK' /\ FlightOK'
<1>1. transcript' \in Transcript
  BY DEF OnClientFinishedVerified, FlightOK, Transcript
<1>2. EpochsOK' /\ FlightOK'
  BY <1>1, EpochTypes DEF OnClientFinishedVerified, EpochsOK, FlightOK, Epoch
<1>3. /\ <<Act("reportHandshakeComplete")>> \in Seq(OutputAction)
      /\ "connected" \in Phase
  BY ActType DEF Phase
<1> QED
  BY <1>2, <1>3, MoveToType, KeepOpsType DEF OnClientFinishedVerified

\* The handler a gating result is routed to.
LEMMA GatingCases ==
  ASSUME NEW id, NEW result \in GatingAnswer, GatingResult(id, result)
  PROVE  LET ops == Without(id)
         IN  \/ hs = "requestedServerRandom" /\ OnServerRandomDone(ops)
             \/ hs = "requestedEcdhe" /\ OnEcdheDone(ops)
             \/ /\ hs = "derivedHandshakeSecrets"
                /\ result \in {"hkdfSecret", "keysInstalled"}
                /\ OnHsScheduleResult(ops, result)
             \/ /\ hs = "requestedCertificateVerifySignature"
                /\ result = "signature" /\ OnCertVerifySigned(ops)
             \/ /\ hs = "requestedServerFinishedMac"
                /\ result = "finishedMac" /\ OnServerFinishedMac(ops)
             \/ /\ hs = "sentCertificateVerify"
                /\ result \in {"hkdfSecret", "keysInstalled"}
                /\ OnApScheduleResult(ops, result)
             \/ /\ hs = "requestedClientFinishedVerify"
                /\ result = "verified" /\ OnClientFinishedVerified(ops)
             \/ /\ Ignore /\ KeepOps(ops)
                /\ UNCHANGED <<epochVars, flightVars>>
BY DEF GatingResult

LEMMA GatingType ==
  ASSUME TypeOK, NEW id, NEW result \in GatingAnswer, GatingResult(id, result)
  PROVE  TypeOK'
<1>p. OutcomeOK /\ OpsOK /\ EpochsOK /\ BuffersOK /\ FlightOK
  BY TypeOKParts
<1> DEFINE ops == Without(id)
<1>1. ops \in SUBSET PendingOp /\ nextOpId \in Nat
  BY <1>p, WithoutType DEF OpsOK
<1>2. BuffersOK'
  BY <1>p DEF GatingResult, BuffersOK, bufferVars
<1> HIDE DEF ops
<1>3. CASE Ignore /\ KeepOps(ops) /\ UNCHANGED <<epochVars, flightVars>>
  <2>1. EpochsOK' /\ FlightOK'
    BY <1>3, <1>p DEF EpochsOK, FlightOK, epochVars, flightVars
  <2> QED
    BY <1>1, <1>2, <1>3, <1>p, <2>1, IgnoreType, KeepOpsType, TypeOKPartsNext
<1>4. CASE \/ OnServerRandomDone(ops) \/ OnEcdheDone(ops)
           \/ OnHsScheduleResult(ops, result) \/ OnCertVerifySigned(ops)
           \/ OnServerFinishedMac(ops) \/ OnApScheduleResult(ops, result)
           \/ OnClientFinishedVerified(ops)
  <2>1. OutcomeOK' /\ OpsOK' /\ EpochsOK' /\ FlightOK'
    BY <1>1, <1>4, <1>p, ServerRandomType, EcdheType, HsScheduleType,
       CertVerifyType, ServerFinishedType, ApScheduleType, VerifiedType
  <2> QED
    BY <1>2, <2>1, TypeOKPartsNext
<1> QED
  BY <1>3, <1>4, GatingCases DEF ops

-----------------------------------------------------------------------------
(* Typing of the application and transport events.                         *)

LEMMA QuietTypes ==
  ASSUME TypeOK, NEW id, DroppedResult(id) \/ TransportEof \/ Timeout \/ Quiet
  PROVE  TypeOK'
<1> USE DEF epochVars, opVars, bufferVars, flightVars
<1>p. OutcomeOK /\ OpsOK /\ EpochsOK /\ BuffersOK /\ FlightOK
  BY TypeOKParts
<1>a. /\ <<Act("readTransport")>> \in Seq(OutputAction)
      /\ <<Act("reportError")>> \in Seq(OutputAction)
  BY ActType
<1>1. OpsOK' /\ EpochsOK' /\ BuffersOK' /\ FlightOK'
  BY <1>p
  DEF DroppedResult, TransportEof, Timeout, Quiet, TransportReadable,
      Writable, Absorb, coreVars, OpsOK, EpochsOK, BuffersOK, FlightOK
<1>2. CASE DroppedResult(id) \/ Writable
  BY <1>1, <1>2, <1>p, IgnoreType, TypeOKPartsNext DEF DroppedResult, Writable
<1>3. CASE TransportEof
  <2>1. OutcomeOK'
    BY <1>3, <1>a, EmptySequences
    DEF TransportEof, OutcomeOK, Phase, TerminalPhase, CloseState
  <2> QED
    BY <1>1, <2>1, TypeOKPartsNext
<1>4. CASE Timeout
  BY <1>1, <1>4, FailType, TypeOKPartsNext DEF Timeout, EpochsOK
<1>5. CASE TransportReadable
  <2>1. OutcomeOK'
    BY <1>5, <1>a, <1>p, MoveToType DEF TransportReadable, OutcomeOK
  <2> QED
    BY <1>1, <2>1, TypeOKPartsNext
<1>6. CASE Absorb
  <2>1. OutcomeOK'
    BY <1>6, <1>p, EmptySequences DEF Absorb, coreVars, OutcomeOK
  <2> QED
    BY <1>1, <2>1, TypeOKPartsNext
<1> QED
  BY <1>2, <1>3, <1>4, <1>5, <1>6 DEF Quiet

LEMMA RecvType ==
  ASSUME TypeOK, AppRecv
  PROVE  TypeOK'
<1>p. OutcomeOK /\ OpsOK /\ EpochsOK /\ BuffersOK /\ FlightOK
  BY TypeOKParts
<1>1. OpsOK' /\ EpochsOK' /\ BuffersOK' /\ FlightOK'
  BY <1>p
  DEF AppRecv, OpsOK, EpochsOK, BuffersOK, FlightOK, epochVars, opVars,
      bufferVars, flightVars
<1>2. pendingPlain # <<>> => pendingPlain[1] \in Bytes
  BY <1>p DEF OutcomeOK
<1>3. out' \in Seq(OutputAction)
  BY <1>2, OtherActionTypes, EmptySequences DEF AppRecv
<1>4. OutcomeOK'
  BY <1>3, <1>p, EmptySequences DEF AppRecv, OutcomeOK
<1> QED
  BY <1>1, <1>4, TypeOKPartsNext

LEMMA SendType ==
  ASSUME TypeOK, NEW plain \in Bytes, AppSend(plain)
  PROVE  TypeOK'
<1>p. OutcomeOK /\ OpsOK /\ EpochsOK /\ BuffersOK /\ FlightOK
  BY TypeOKParts
<1> DEFINE n == IF Len(plain) < MaxFragment THEN Len(plain) ELSE MaxFragment
           inner == [ctype |-> "applicationData", content |-> SubSeq(plain, 1, n)]
           op == [kind |-> "aeadSeal", epoch |-> "application",
                  seq |-> writeEpoch.seq, inner |-> inner]
<1>1. n \in 0..Len(plain)
  BY MaxFragmentAssumption DEF Bytes
<1>2. SubSeq(plain, 1, n) \in Bytes
  BY <1>1 DEF Bytes
<1>3. inner \in Inner
  BY <1>2 DEF Inner
<1>e. /\ "application" \in Epoch /\ "aeadSeal" \in OpKind
      /\ "write" \in Direction
  BY DEF Epoch, OpKind, Direction
<1>4. op \in CryptoOp
  BY <1>3, <1>e, <1>p DEF EpochsOK, EpochState, CryptoOp
<1>5. BuffersOK' /\ FlightOK' /\ readEpoch' = readEpoch
  BY <1>p DEF AppSend, BuffersOK, FlightOK, bufferVars, flightVars
<1> HIDE DEF inner
<1>6. CASE /\ Connected /\ ~SeqExhausted(writeEpoch)
           /\ Allocate(pendingOps, "aeadSeal", "application", "write")
           /\ writeEpoch' = AdvanceSeq(writeEpoch)
           /\ MoveTo(hs, <<CallCrypto(nextOpId, op), AcceptPlaintext(n)>>)
  <2>1. EpochsOK'
    BY <1>5, <1>6, <1>p, EpochTypes DEF EpochsOK
  <2>2. /\ CallCrypto(nextOpId, op) \in OutputAction
        /\ AcceptPlaintext(n) \in OutputAction
    BY <1>1, <1>4, <1>p, CallCryptoType, OtherActionTypes DEF OpsOK
  <2>3. <<CallCrypto(nextOpId, op), AcceptPlaintext(n)>> \in Seq(OutputAction)
    BY <2>2
  <2>4. OutcomeOK'
    BY <1>6, <1>p, <2>3, MoveToType DEF OutcomeOK
  <2>5. OpsOK'
    BY <1>6, <1>e, <1>p, AllocateType DEF OpsOK
  <2> QED
    BY <1>5, <2>1, <2>4, <2>5, TypeOKPartsNext
<1>7. CASE UNCHANGED <<opVars, writeEpoch>> /\ Fail
  <2>1. OpsOK' /\ EpochsOK'
    BY <1>5, <1>7, <1>p DEF OpsOK, EpochsOK, opVars
  <2>2. OutcomeOK'
    BY <1>7, <2>1, FailType DEF EpochsOK
  <2> QED
    BY <1>5, <2>1, <2>2, TypeOKPartsNext
<1> QED
  BY <1>6, <1>7 DEF AppSend, inner

LEMMA CloseGracefulType ==
  ASSUME TypeOK, AppCloseGraceful
  PROVE  TypeOK'
<1>p. OutcomeOK /\ OpsOK /\ EpochsOK /\ BuffersOK /\ FlightOK
  BY TypeOKParts
<1> DEFINE op == [kind |-> "aeadSeal", epoch |-> "application",
                  seq |-> writeEpoch.seq, inner |-> CloseNotify]
           refused == Connected /\ (SeqExhausted(writeEpoch)
                                    \/ ~Room(pendingOps))
<1>1. CloseNotify \in Inner
  BY DEF CloseNotify, Inner, Alert
<1>e. /\ "application" \in Epoch /\ "aeadSeal" \in OpKind
      /\ "write" \in Direction /\ "graceful" \in CloseMode
  BY DEF Epoch, OpKind, Direction, CloseMode
<1>2. op \in CryptoOp
  BY <1>1, <1>e, <1>p DEF EpochsOK, EpochState, CryptoOp
<1>3. BuffersOK' /\ FlightOK' /\ readEpoch' = readEpoch
  BY <1>p DEF AppCloseGraceful, BuffersOK, FlightOK, bufferVars, flightVars
<1>4. OpsOK' /\ EpochsOK'
  <2>1. CASE /\ Connected /\ ~refused
             /\ Allocate(pendingOps, "aeadSeal", "application", "write")
             /\ writeEpoch' = AdvanceSeq(writeEpoch)
    BY <1>3, <1>e, <1>p, <2>1, AllocateType, EpochTypes DEF OpsOK, EpochsOK
  <2>2. CASE UNCHANGED <<opVars, writeEpoch>>
    BY <1>3, <1>p, <2>2 DEF OpsOK, EpochsOK, opVars
  <2> QED
    BY <2>1, <2>2 DEF AppCloseGraceful
<1>5. OutcomeOK'
  <2>1. CASE Fail
    BY <1>4, <2>1, FailType DEF EpochsOK
  <2>2. CASE /\ hs' = "closing" /\ closeState' = "sentCloseNotify"
             /\ pendingPlain' = <<>>
             /\ out' \in {<<CallCrypto(nextOpId, op)>>,
                          <<CloseTransport("graceful")>>}
    <3>1. /\ CallCrypto(nextOpId, op) \in OutputAction
          /\ CloseTransport("graceful") \in OutputAction
      BY <1>2, <1>e, <1>p, CallCryptoType, OtherActionTypes DEF OpsOK
    <3>2. /\ <<CallCrypto(nextOpId, op)>> \in Seq(OutputAction)
          /\ <<CloseTransport("graceful")>> \in Seq(OutputAction)
      BY <3>1
    <3>3. out' \in Seq(OutputAction)
      BY <2>2, <3>2
    <3>4. hs' \in Phase /\ closeState' \in CloseState
      BY <2>2 DEF Phase, CloseState
    <3> QED
      BY <2>2, <3>3, <3>4, EmptySequences DEF OutcomeOK
  <2> QED
    BY <2>1, <2>2 DEF AppCloseGraceful
<1> QED
  BY <1>3, <1>4, <1>5, TypeOKPartsNext

LEMMA CloseType ==
  ASSUME TypeOK, NEW mode \in CloseMode, AppClose(mode)
  PROVE  TypeOK'
<1> USE DEF epochVars, opVars, bufferVars, flightVars
<1>p. OutcomeOK /\ OpsOK /\ EpochsOK /\ BuffersOK /\ FlightOK
  BY TypeOKParts
<1>1. CASE AppCloseGraceful
  BY <1>1, CloseGracefulType
<1>2. CASE AppCloseFatal \/ AppCloseAbortive \/ AppCloseAgain(mode)
  <2>1. OpsOK' /\ EpochsOK' /\ BuffersOK' /\ FlightOK'
    BY <1>2, <1>p
    DEF AppCloseFatal, AppCloseAbortive, AppCloseAgain, OpsOK, EpochsOK,
        BuffersOK, FlightOK
  <2>2. \A m \in CloseMode : CloseTransport(m) \in OutputAction
    BY OtherActionTypes
  <2>3. "fatal" \in CloseMode /\ "abortive" \in CloseMode
    BY DEF CloseMode
  <2>4. /\ WriteAlert(writeEpoch) \in OutputAction
        /\ Act("failWithAlert") \in OutputAction
    BY <1>p, WriteAlertType, ActType DEF EpochsOK
  <2>5. CASE AppCloseFatal
    <3>1. out' \in Seq(OutputAction)
      <4>1. CloseTransport("fatal") \in OutputAction
        BY <2>2, <2>3
      <4> QED
        BY <2>4, <2>5, <4>1 DEF AppCloseFatal
    <3> QED
      BY <2>1, <2>5, <3>1, EmptySequences, TypeOKPartsNext
      DEF AppCloseFatal, OutcomeOK, Phase, TerminalPhase, CloseState
  <2>6. CASE AppCloseAbortive
    <3>1. out' \in Seq(OutputAction)
      BY <2>2, <2>3, <2>6 DEF AppCloseAbortive
    <3> QED
      BY <2>1, <2>6, <3>1, EmptySequences, TypeOKPartsNext
      DEF AppCloseAbortive, OutcomeOK, Phase, TerminalPhase, CloseState
  <2>7. CASE AppCloseAgain(mode)
    <3>1. <<CloseTransport(mode)>> \in Seq(OutputAction)
      BY <2>2
    <3>2. OutcomeOK'
      BY <1>p, <2>7, <3>1, MoveToType DEF AppCloseAgain, OutcomeOK
    <3> QED
      BY <2>1, <3>2, TypeOKPartsNext
  <2> QED
    BY <1>2, <2>5, <2>6, <2>7
<1> QED
  BY <1>1, <1>2 DEF AppClose

-----------------------------------------------------------------------------
(* Type correctness.                                                       *)

\* Whatever typed input arrives, the core stays in its types.
LEMMA CoreStepType ==
  ASSUME TypeOK, CoreStep
  PROVE  TypeOK'
<1>1. CASE \E recs \in Seq(Record) : TransportBytes(recs)
  BY <1>1, TransportBytesType
<1>2. CASE \E id \in Nat :
             \/ DroppedResult(id)
             \/ \E inner \in Inner : AeadOpened(id, inner)
             \/ AeadSealed(id)
             \/ CryptoFailed(id)
             \/ \E result \in GatingAnswer : GatingResult(id, result)
  BY <1>2, QuietTypes, OpenedConnectedType, OpenedHandshakeType, SealedType,
     CryptoFailedType, GatingType DEF AeadOpened
<1>3. CASE \E plain \in Bytes : AppSend(plain)
  BY <1>3, SendType
<1>4. CASE \E mode \in CloseMode : AppClose(mode)
  BY <1>4, CloseType
<1>5. CASE AppRecv \/ TransportEof \/ Timeout \/ Quiet
  BY <1>5, RecvType, QuietTypes
<1> QED
  BY <1>1, <1>2, <1>3, <1>4, <1>5 DEF CoreStep

\* The bounded Next takes only steps of the core.
LEMMA NextIsCoreStep ==
  ASSUME TypeOK, Next
  PROVE  CoreStep
<1>1. /\ Chunks \subseteq Seq(Record) /\ Inners \subseteq Inner
      /\ Payloads \subseteq Bytes
  BY InputsAssumption, PayloadsAssumption
<1>2. 0..nextOpId \subseteq Nat
  BY DEF TypeOK
<1> QED
  BY <1>1, <1>2 DEF Next, CoreStep

LEMMA InitType ==
  ASSUME Init
  PROVE  TypeOK
<1>1. /\ hs \in Phase /\ closeState \in CloseState
      /\ keySched \in KeySched
  BY EmptySequences DEF Init, Phase, CloseState, NoKeySched, KeySched
<1>2. EpochsOK
  BY EpochTypes DEF Init, EpochsOK
<1>3. OutcomeOK /\ OpsOK /\ BuffersOK /\ FlightOK
  BY <1>1, EmptySequences DEF Init, OutcomeOK, OpsOK, BuffersOK, FlightOK
<1> QED
  BY <1>2, <1>3, TypeOKParts

LEMMA StutterType ==
  ASSUME TypeOK, UNCHANGED vars
  PROVE  TypeOK'
BY DEF TypeOK, vars, coreVars

\* Every field of Core.State keeps its type and every emitted action is well
\* formed: sequence numbers stay under the ceiling, at most one record of
\* plaintext and one client Finished are held.
THEOREM TypeCorrect == Spec => []TypeOK
<1>1. Init => TypeOK
  BY InitType
<1>2. TypeOK /\ [Next]_vars => TypeOK'
  BY CoreStepType, NextIsCoreStep, StutterType
<1> QED
  BY <1>1, <1>2, PTL DEF Spec

-----------------------------------------------------------------------------
(* How a connection moves and ends: every step of the core stays, takes    *)
(* one step of the flight or ends the connection.                          *)

Stays ==
  /\ UNCHANGED <<hs, closeState>>
  /\ Connected \/ pendingPlain' \in {pendingPlain, <<>>}

Forward ==
  /\ \E i \in 1..9 : hs = FlightOrder[i] /\ hs' = FlightOrder[i + 1]
  /\ UNCHANGED <<closeState, pendingPlain>>

Ends ==
  /\ Live
  /\ \/ /\ hs' = "failed" /\ pendingPlain' = <<>>
        /\ closeState' \in {"fatalSent", "fatalReceived",
                            "transportEofBeforeCloseNotify"}
     \/ /\ hs' = "closed" /\ pendingPlain' = <<>>
        /\ closeState' = "transportClosed"
     \/ /\ hs' = "closing" /\ pendingPlain' = <<>>
        /\ closeState' = "sentCloseNotify"
     \/ /\ hs' = "closing" /\ UNCHANGED pendingPlain
        /\ closeState' = "receivedCloseNotify"

Moves == Stays \/ Forward \/ Ends

-----------------------------------------------------------------------------
LEMMA FailEnds ==
  ASSUME Live, Fail
  PROVE  Moves
BY DEF Fail, Moves, Ends

LEMMA StayMoves ==
  ASSUME NEW acts, MoveTo(hs, acts)
  PROVE  Moves
BY DEF MoveTo, Moves, Stays

LEMMA IgnoreMoves ==
  ASSUME Ignore
  PROVE  Moves
BY StayMoves DEF Ignore

LEMMA ForwardMoves ==
  ASSUME NEW i \in 1..9, hs = FlightOrder[i], NEW acts,
         MoveTo(FlightOrder[i + 1], acts)
  PROVE  Moves
BY DEF MoveTo, Moves, Forward

LEMMA AllocMoves ==
  ASSUME Live, NEW ops, NEW op, NEW epoch, NEW dir, NEW phase, NEW writes,
         phase = hs \/ \E i \in 1..9 : hs = FlightOrder[i]
                                       /\ phase = FlightOrder[i + 1],
         AllocOrFail(ops, op, epoch, dir, phase, writes)
  PROVE  Moves
<1>1. Fail \/ \E acts : MoveTo(phase, acts)
  BY DEF AllocOrFail
<1> QED
  BY <1>1, FailEnds, StayMoves, ForwardMoves

LEMMA AlertMoves ==
  ASSUME Live, NEW a \in Alert, OnInboundAlert(a)
  PROVE  Moves
<1>1. CASE a = "closeNotify"
  BY <1>1 DEF OnInboundAlert, Moves, Ends
<1>2. CASE a = "fatal"
  <2>1. /\ hs' = "failed" /\ closeState' = "fatalReceived"
        /\ pendingPlain' = <<>>
    BY <1>2 DEF OnInboundAlert
  <2> QED
    BY <2>1 DEF Moves, Ends
<1>3. CASE a = "truncated"
  BY <1>3, FailEnds DEF OnInboundAlert
<1> QED
  BY <1>1, <1>2, <1>3 DEF Alert

\* The steps of the flight, by the index of the phase they leave.
LEMMA Order ==
  /\ FlightOrder[1] = "start" /\ FlightOrder[2] = "requestedServerRandom"
  /\ FlightOrder[3] = "requestedEcdhe"
  /\ FlightOrder[4] = "derivedHandshakeSecrets"
  /\ FlightOrder[5] = "requestedCertificateVerifySignature"
  /\ FlightOrder[6] = "requestedServerFinishedMac"
  /\ FlightOrder[7] = "sentCertificateVerify"
  /\ FlightOrder[8] = "sentServerFinished"
  /\ FlightOrder[9] = "requestedClientFinishedVerify"
  /\ FlightOrder[10] = "connected" /\ Len(FlightOrder) = 10
BY DEF FlightOrder

LEMMA HandshakeMessageMoves ==
  ASSUME Live, NEW m, NEW charged, NEW ops,
         OnHandshakeMessage(m, charged, ops)
  PROVE  Moves
<1>1. CASE hs = "start"
  <2>1. \/ Fail
        \/ AllocOrFail(ops, PlainOp("randomBytes", <<>>), "handshake",
                       "write", "requestedServerRandom", <<>>)
    BY <1>1 DEF OnHandshakeMessage, OnClientHello
  <2>2. \E i \in 1..9 : hs = FlightOrder[i]
                        /\ "requestedServerRandom" = FlightOrder[i + 1]
    BY <1>1, Order
  <2> QED
    BY <2>1, <2>2, FailEnds, AllocMoves
<1>2. CASE hs = "sentServerFinished"
  <2>1. AllocOrFail(ops, [kind |-> "verifyFinished", prefix |-> transcript,
                          msg |-> m], "application", "read",
                    "requestedClientFinishedVerify", <<>>)
    BY <1>2 DEF OnHandshakeMessage, OnClientFinishedBytes
  <2>2. \E i \in 1..9 : hs = FlightOrder[i]
                   /\ "requestedClientFinishedVerify" = FlightOrder[i + 1]
    BY <1>2, Order
  <2> QED
    BY <2>1, <2>2, AllocMoves
<1>3. CASE hs \notin {"start", "sentServerFinished"}
  BY <1>3, IgnoreMoves DEF OnHandshakeMessage
<1> QED
  BY <1>1, <1>2, <1>3

LEMMA TransportBytesMoves ==
  ASSUME inbound \in Seq(Record), NEW recs \in Seq(Record),
         TransportBytes(recs)
  PROVE  Moves
<1> DEFINE rec == Head(inbound \o recs)
<1>f. \A outer : Framed(recs, outer) =>
        Live /\ rec \in Record /\ rec.outer \in outer
  BY FramedType DEF Framed
<1> HIDE DEF rec
<1>1. CASE NeedMoreBytes(recs)
  BY <1>1, StayMoves DEF NeedMoreBytes
<1>2. CASE ProtectedRecord(recs)
  <2>1. Live
    BY <1>2, <1>f DEF ProtectedRecord
  <2>2. \/ Ignore
        \/ \E op, epoch : AllocOrFail(pendingOps, op, epoch, "read", hs, <<>>)
    BY <1>2 DEF ProtectedRecord
  <2> QED
    BY <2>1, <2>2, IgnoreMoves, AllocMoves
<1>3. CASE CcsRecord(recs)
  <2>1. Live /\ (Fail \/ Ignore)
    BY <1>3, <1>f DEF CcsRecord
  <2> QED
    BY <2>1, FailEnds, IgnoreMoves
<1>4. CASE HandshakeRecord(recs)
  <2>1. Live
    BY <1>4, <1>f DEF HandshakeRecord
  <2>2. \/ \E m, charged : OnHandshakeMessage(m, charged, pendingOps)
        \/ Fail \/ MoveTo(hs, <<Act("readTransport")>>)
    BY <1>4 DEF HandshakeRecord
  <2> QED
    BY <2>1, <2>2, HandshakeMessageMoves, FailEnds, StayMoves
<1>5. CASE AlertRecord(recs)
  <2>1. Framed(recs, {"alert"}) /\ OnInboundAlert(rec.alert)
    BY <1>5 DEF AlertRecord, rec
  <2>2. Live /\ rec.alert \in Alert
    BY <1>f, <2>1, RecordFields
  <2> QED
    BY <2>1, <2>2, AlertMoves
<1>6. CASE InvalidRecord(recs)
  BY <1>6, <1>f, FailEnds DEF InvalidRecord
<1> QED
  BY <1>1, <1>2, <1>3, <1>4, <1>5, <1>6 DEF TransportBytes

LEMMA ScheduleMoves ==
  ASSUME Live, NEW ops, NEW result,
         \/ hs = "derivedHandshakeSecrets" /\ OnHsScheduleResult(ops, result)
         \/ hs = "sentCertificateVerify" /\ OnApScheduleResult(ops, result)
  PROVE  Moves
<1>1. CASE /\ hs = "derivedHandshakeSecrets"
           /\ OnHsScheduleResult(ops, result)
  <2>1. \/ Fail \/ Ignore
        \/ \E op, epoch : AllocOrFail(ops, op, epoch, "write", hs, <<>>)
        \/ \E op, epoch, writes :
             AllocOrFail(ops, op, epoch, "write",
                         "requestedCertificateVerifySignature", writes)
    BY <1>1 DEF OnHsScheduleResult, ScheduleError, PumpSchedule
  <2>2. \E i \in 1..9 : hs = FlightOrder[i]
             /\ "requestedCertificateVerifySignature" = FlightOrder[i + 1]
    BY <1>1, Order
  <2> QED
    BY <2>1, <2>2, FailEnds, IgnoreMoves, AllocMoves
<1>2. CASE hs = "sentCertificateVerify" /\ OnApScheduleResult(ops, result)
  <2>1. \/ Fail \/ Ignore
        \/ \E op, epoch : AllocOrFail(ops, op, epoch, "write", hs, <<>>)
        \/ MoveTo("sentServerFinished", <<>>)
    BY <1>2 DEF OnApScheduleResult, ScheduleError, PumpSchedule
  <2>2. \E i \in 1..9 : hs = FlightOrder[i]
                        /\ "sentServerFinished" = FlightOrder[i + 1]
    BY <1>2, Order
  <2> QED
    BY <2>1, <2>2, FailEnds, IgnoreMoves, AllocMoves, ForwardMoves
<1> QED
  BY <1>1, <1>2

LEMMA GatingMoves ==
  ASSUME NEW id, NEW result \in GatingAnswer, GatingResult(id, result)
  PROVE  Moves
<1> DEFINE ops == Without(id)
<1>l. Live
  BY DEF GatingResult, Outstanding
<1>1. CASE Ignore
  BY <1>1, IgnoreMoves
<1>2. CASE hs = "requestedServerRandom" /\ OnServerRandomDone(ops)
  <2>1. \E i \in 1..9 : hs = FlightOrder[i]
                        /\ "requestedEcdhe" = FlightOrder[i + 1]
    BY <1>2, Order
  <2> QED
    BY <1>2, <1>l, <2>1, AllocMoves DEF OnServerRandomDone
<1>3. CASE hs = "requestedEcdhe" /\ OnEcdheDone(ops)
  <2>1. \E i \in 1..9 : hs = FlightOrder[i]
                        /\ "derivedHandshakeSecrets" = FlightOrder[i + 1]
    BY <1>3, Order
  <2> QED
    BY <1>3, <1>l, <2>1, AllocMoves DEF OnEcdheDone
<1>4. CASE \/ hs = "derivedHandshakeSecrets" /\ OnHsScheduleResult(ops, result)
           \/ hs = "sentCertificateVerify" /\ OnApScheduleResult(ops, result)
  BY <1>4, <1>l, ScheduleMoves
<1>5. CASE /\ hs = "requestedCertificateVerifySignature"
           /\ OnCertVerifySigned(ops)
  <2>1. \E i \in 1..9 : hs = FlightOrder[i]
                        /\ "requestedServerFinishedMac" = FlightOrder[i + 1]
    BY <1>5, Order
  <2> QED
    BY <1>5, <1>l, <2>1, AllocMoves DEF OnCertVerifySigned
<1>6. CASE hs = "requestedServerFinishedMac" /\ OnServerFinishedMac(ops)
  <2>1. \E i \in 1..9 : hs = FlightOrder[i]
                        /\ "sentCertificateVerify" = FlightOrder[i + 1]
    BY <1>6, Order
  <2>2. \/ Fail
        \/ \E op, writes : AllocOrFail(ops, op, "application", "write",
                                       "sentCertificateVerify", writes)
    BY <1>6 DEF OnServerFinishedMac, ScheduleError
  <2> QED
    BY <1>l, <2>1, <2>2, FailEnds, AllocMoves
<1>7. CASE /\ hs = "requestedClientFinishedVerify"
           /\ OnClientFinishedVerified(ops)
  <2>1. \E i \in 1..9 : hs = FlightOrder[i] /\ "connected" = FlightOrder[i + 1]
    BY <1>7, Order
  <2> QED
    BY <1>7, <2>1, ForwardMoves DEF OnClientFinishedVerified
<1> QED
  BY <1>1, <1>2, <1>3, <1>4, <1>5, <1>6, <1>7, GatingCases

LEMMA RecordResultMoves ==
  ASSUME NEW id, NEW inner \in Inner,
         AeadOpened(id, inner) \/ AeadSealed(id) \/ CryptoFailed(id)
  PROVE  Moves
<1>l. Live
  BY DEF AeadOpened, AeadOpenedConnected, AeadOpenedHandshake, AeadSealed,
         CryptoFailed, Outstanding
<1>1. CASE AeadOpenedConnected(id, inner)
  <2>1. \/ Fail \/ Ignore
        \/ inner.ctype = "alert" /\ OnInboundAlert(inner.alert)
        \/ Connected /\ UNCHANGED <<hs, closeState>>
    BY <1>1 DEF AeadOpenedConnected
  <2> QED
    BY <1>l, <2>1, InnerFields, FailEnds, IgnoreMoves, AlertMoves
    DEF Moves, Stays
<1>2. CASE AeadOpenedHandshake(id, inner)
  <2>1. \/ Fail \/ Ignore
        \/ inner.ctype = "alert" /\ OnInboundAlert(inner.alert)
        \/ OnHandshakeMessage(inner.msg, budgets, Without(id))
    BY <1>2 DEF AeadOpenedHandshake
  <2> QED
    BY <1>l, <2>1, InnerFields, FailEnds, IgnoreMoves, AlertMoves,
       HandshakeMessageMoves
<1>3. CASE AeadSealed(id)
  BY <1>3, StayMoves DEF AeadSealed
<1>4. CASE CryptoFailed(id)
  BY <1>4, <1>l, FailEnds DEF CryptoFailed
<1> QED
  BY <1>1, <1>2, <1>3, <1>4 DEF AeadOpened

LEMMA ApplicationMoves ==
  ASSUME \/ AppRecv \/ \E plain \in Bytes : AppSend(plain)
         \/ \E mode \in CloseMode : AppClose(mode)
  PROVE  Moves
<1>1. CASE AppRecv
  BY <1>1 DEF AppRecv, Moves, Stays
<1>2. CASE \E plain \in Bytes : AppSend(plain)
  <2>1. Live /\ (Fail \/ \E acts : MoveTo(hs, acts))
    BY <1>2 DEF AppSend
  <2> QED
    BY <2>1, FailEnds, StayMoves
<1>3. CASE AppCloseGraceful
  <2>1. /\ Live
        /\ \/ Fail
           \/ /\ hs' = "closing" /\ closeState' = "sentCloseNotify"
              /\ pendingPlain' = <<>>
    BY <1>3 DEF AppCloseGraceful
  <2> QED
    BY <2>1, FailEnds DEF Moves, Ends
<1>4. CASE AppCloseFatal \/ AppCloseAbortive
  BY <1>4 DEF AppCloseFatal, AppCloseAbortive, Moves, Ends
<1>5. CASE \E mode \in CloseMode : AppCloseAgain(mode)
  BY <1>5, StayMoves DEF AppCloseAgain
<1> QED
  BY <1>1, <1>2, <1>3, <1>4, <1>5 DEF AppClose

\* Every step of the core stays, takes one step of the flight or ends the
\* connection.
LEMMA CoreStepMoves ==
  ASSUME TypeOK, CoreStep
  PROVE  Moves
<1>1. CASE \E recs \in Seq(Record) : TransportBytes(recs)
  BY <1>1, TransportBytesMoves DEF TypeOK
<1>2. CASE \E id \in Nat :
             \/ DroppedResult(id)
             \/ \E inner \in Inner : AeadOpened(id, inner)
             \/ AeadSealed(id)
             \/ CryptoFailed(id)
             \/ \E result \in GatingAnswer : GatingResult(id, result)
  <2>1. CloseNotify \in Inner
    BY DEF CloseNotify, Inner, Alert
  <2> QED
    BY <1>2, <2>1, IgnoreMoves, RecordResultMoves, GatingMoves
    DEF DroppedResult
<1>3. CASE \/ AppRecv \/ \E plain \in Bytes : AppSend(plain)
           \/ \E mode \in CloseMode : AppClose(mode)
  BY <1>3, ApplicationMoves
<1>4. CASE TransportEof
  BY <1>4 DEF TransportEof, Moves, Ends
<1>5. CASE Timeout
  BY <1>5, FailEnds DEF Timeout
<1>6. CASE Quiet
  <2>1. CASE Absorb
    BY <2>1 DEF Absorb, coreVars, Moves, Stays
  <2>2. CASE TransportReadable \/ Writable
    BY <2>2, StayMoves, IgnoreMoves DEF TransportReadable, Writable
  <2> QED
    BY <1>6, <2>1, <2>2 DEF Quiet
<1> QED
  BY <1>1, <1>2, <1>3, <1>4, <1>5, <1>6 DEF CoreStep

-----------------------------------------------------------------------------
(* The order of phases and the end of a connection.                        *)

\* What a step may do to the phase.
LEMMA MovesOrder ==
  ASSUME Moves
  PROVE  \/ LegalEdge(hs, hs')
         \/ hs' = "closed" /\ closeState' = "transportClosed"
<1>1. CASE Stays
  BY <1>1 DEF Stays, LegalEdge
<1>2. CASE Forward
  BY <1>2, Order DEF Forward, LegalEdge
<1>3. CASE Ends
  BY <1>3 DEF Ends, LegalEdge, Live, Terminal
<1> QED
  BY <1>1, <1>2, <1>3 DEF Moves

\* No phase is skipped or entered twice, whatever the inputs.
THEOREM OrderCorrect == Spec => PhaseOrder
<1> DEFINE Ordered == \/ LegalEdge(hs, hs')
                      \/ hs' = "closed" /\ closeState' = "transportClosed"
<1>1. TypeOK /\ [Next]_vars => [Ordered]_vars
  BY NextIsCoreStep, CoreStepMoves, MovesOrder
<1> QED
  BY <1>1, TypeCorrect, PTL DEF Spec, PhaseOrder

CloseInv == TypeOK /\ CloseStateAgrees /\ HeldOnlyOnOpenChannel

LEMMA MovesClose ==
  ASSUME CloseStateAgrees, HeldOnlyOnOpenChannel, Moves
  PROVE  CloseStateAgrees' /\ HeldOnlyOnOpenChannel'
<1>1. CASE Stays
  BY <1>1 DEF Stays, CloseStateAgrees, HeldOnlyOnOpenChannel, Connected
<1>2. CASE Forward
  <2>1. /\ hs \notin {"connected", "failed", "closed", "closing"}
        /\ hs' \notin {"failed", "closed", "closing"}
    BY <1>2, Order DEF Forward
  <2> QED
    BY <1>2, <2>1
    DEF Forward, CloseStateAgrees, HeldOnlyOnOpenChannel, Connected
<1>3. CASE Ends
  BY <1>3 DEF Ends, CloseStateAgrees, HeldOnlyOnOpenChannel, Connected
<1> QED
  BY <1>1, <1>2, <1>3 DEF Moves

\* Phase and close state agree, and plaintext is held only on a channel that
\* may still deliver it, for every interleaving of closes, alerts, end of
\* stream, failures and results.
THEOREM CloseCorrect == Spec => [](CloseStateAgrees /\ HeldOnlyOnOpenChannel)
<1>1. Init => CloseInv
  BY InitType
  DEF Init, CloseInv, CloseStateAgrees, HeldOnlyOnOpenChannel
<1>2. CloseInv /\ [Next]_vars => CloseInv'
  <2>1. ASSUME CloseInv, Next
        PROVE  CloseInv'
    BY <2>1, NextIsCoreStep, CoreStepType, CoreStepMoves, MovesClose
    DEF CloseInv
  <2>2. ASSUME CloseInv, UNCHANGED vars
        PROVE  CloseInv'
    BY <2>2, StutterType
    DEF CloseInv, CloseStateAgrees, HeldOnlyOnOpenChannel, Connected, vars,
        coreVars
  <2> QED
    BY <2>1, <2>2
<1>3. CloseInv => CloseStateAgrees /\ HeldOnlyOnOpenChannel
  BY DEF CloseInv
<1> QED
  BY <1>1, <1>2, <1>3, PTL DEF Spec

\* Plaintext is held back only where it may still be delivered.
THEOREM HeldCorrect == Spec => []HeldOnlyOnOpenChannel
<1>1. CloseStateAgrees /\ HeldOnlyOnOpenChannel => HeldOnlyOnOpenChannel
  OBVIOUS
<1> QED
  BY <1>1, CloseCorrect, PTL

-----------------------------------------------------------------------------
(* The order of the handshake.                                             *)

BeforeSchedule == {"start", "requestedServerRandom", "requestedEcdhe"}
HandshakeKeysReady == {"requestedCertificateVerifySignature",
                       "requestedServerFinishedMac"}
FlightSent == {"sentServerFinished", "requestedClientFinishedVerify",
               "connected"}
Ending == {"closing"} \cup TerminalPhase

\* The transcript of each phase, for the ClientHello ch.
TranscriptShape(ch) ==
  /\ hs = "start" => transcript = <<>>
  /\ hs \in {"requestedServerRandom", "requestedEcdhe"} => transcript = <<ch>>
  /\ hs = "derivedHandshakeSecrets" => transcript = ToServerHello(ch)
  /\ hs = "requestedCertificateVerifySignature" =>
       transcript = ToCertificate(ch)
  /\ hs = "requestedServerFinishedMac" => transcript = ToCertificateVerify(ch)
  /\ hs \in {"sentCertificateVerify", "sentServerFinished",
             "requestedClientFinishedVerify"} =>
       transcript = ToServerFinished(ch)
  /\ hs = "connected" => transcript = ToServerFinished(ch) \o pendingFinished

\* How far the key schedule is and the prefixes it works over.
ScheduleShape(ch) ==
  /\ hs = "derivedHandshakeSecrets" => keySched.phase \in HandshakeStage
  /\ hs \in HandshakeKeysReady => keySched.phase = "handshakeKeysInstalled"
  /\ hs = "sentCertificateVerify" => keySched.phase \in ApplicationStage
  /\ hs \in FlightSent => keySched.phase = "complete"
  /\ hs \notin BeforeSchedule \cup Ending =>
       keySched.hsTranscript = ToServerHello(ch)
  /\ hs \in {"sentCertificateVerify"} \cup FlightSent =>
       keySched.apTranscript = ToServerFinished(ch)

OpsShape ==
  /\ hs = "start" => pendingOps = {}
  /\ hs \in Flight =>
       \E o \in pendingOps : o.kind = AwaitedKind /\ pendingOps = {o}

FinishedShape ==
  hs \in {"requestedClientFinishedVerify", "connected"} =>
    Len(pendingFinished) = 1

EpochShape ==
  /\ hs \in FlightSent =>
       writeEpoch.epoch = "application" /\ writeEpoch.keysInstalled
  /\ Connected => readEpoch.epoch = "application" /\ readEpoch.keysInstalled

FlightShape ==
  /\ OpsShape /\ FinishedShape /\ EpochShape
  /\ \E ch \in ClientHello : TranscriptShape(ch) /\ ScheduleShape(ch)

\* No operation bound to the transcript is asked for.
NoBoundCall(acts) ==
  \A i \in 1..Len(acts) :
    acts[i].act = "callCrypto" => acts[i].op.kind \in {"aeadSeal", "aeadOpen"}

-----------------------------------------------------------------------------
(* Steps that end the connection or leave the flight alone.                *)

LEMMA EndingShape ==
  ASSUME hs' \in Ending
  PROVE  FlightShape'
<1>1. "ClientHello" \in ClientHello
  BY DEF ClientHello
<1> QED
  BY <1>1
  DEF Ending, TerminalPhase, FlightShape, OpsShape, FinishedShape, EpochShape,
      TranscriptShape, ScheduleShape, Flight, BeforeSchedule,
      HandshakeKeysReady, FlightSent, Connected

LEMMA NoBoundCallBinds ==
  ASSUME NoBoundCall(out')
  PROVE  FlightBinding'
BY DEF NoBoundCall, FlightBinding, Binds

LEMMA FailShape ==
  ASSUME Fail
  PROVE  FlightShape' /\ FlightBinding'
<1>1. hs' \in Ending
  BY DEF Fail, Ending, TerminalPhase
<1>2. NoBoundCall(out')
  BY DEF Fail, NoBoundCall, WriteAlert, Act
<1> QED
  BY <1>1, <1>2, EndingShape, NoBoundCallBinds

\* A step that keeps the phase and what belongs to the flight.
LEMMA UndisturbedShape ==
  ASSUME TypeOK, FlightShape,
         UNCHANGED <<hs, transcript, keySched, pendingFinished>>,
         /\ readEpoch'.epoch = readEpoch.epoch
         /\ readEpoch'.keysInstalled = readEpoch.keysInstalled
         /\ writeEpoch'.epoch = writeEpoch.epoch
         /\ writeEpoch'.keysInstalled = writeEpoch.keysInstalled,
         hs \in {"start"} \cup Flight => pendingOps' = pendingOps
  PROVE  FlightShape'
<1>1. OpsShape'
  BY DEF FlightShape, OpsShape, AwaitedKind
<1>2. FinishedShape' /\ EpochShape'
  BY DEF FlightShape, FinishedShape, EpochShape, Connected
<1>3. PICK ch \in ClientHello : TranscriptShape(ch) /\ ScheduleShape(ch)
  BY DEF FlightShape
<1>4. TranscriptShape(ch)' /\ ScheduleShape(ch)'
  BY <1>3 DEF TranscriptShape, ScheduleShape
<1> QED
  BY <1>1, <1>2, <1>3, <1>4 DEF FlightShape

-----------------------------------------------------------------------------
(* The handlers of the flight.                                             *)

\* An allocation either fails the connection or leaves its operation
\* outstanding and makes the one call for it.
LEMMA CallShape ==
  ASSUME NEW ops, NEW op, NEW epoch, NEW dir, NEW phase,
         NEW writes \in Seq(OutputAction),
         \A i \in 1..Len(writes) : writes[i].act # "callCrypto",
         AllocOrFail(ops, op, epoch, dir, phase, writes)
  PROVE  \/ FlightShape' /\ FlightBinding'
         \/ /\ Room(ops) /\ hs' = phase
            /\ \E o : o.kind = op.kind /\ pendingOps' = ops \cup {o}
            /\ \A i \in 1..Len(out') :
                 out'[i].act = "callCrypto" => out'[i].op = op
<1>1. CASE ~Room(ops)
  BY <1>1, FailShape DEF AllocOrFail
<1>2. CASE Room(ops)
  <2>1. /\ Allocate(ops, op.kind, epoch, dir) /\ hs' = phase
        /\ out' = Append(writes, CallCrypto(nextOpId, op))
    BY <1>2 DEF AllocOrFail, MoveTo
  <2>2. \E o : o.kind = op.kind /\ pendingOps' = ops \cup {o}
    BY <2>1 DEF Allocate
  <2>3. \A i \in 1..Len(out') : out'[i].act = "callCrypto" => out'[i].op = op
    BY <2>1 DEF CallCrypto
  <2> QED
    BY <1>2, <2>1, <2>2, <2>3
<1> QED
  BY <1>1, <1>2

\* The same for a handler that writes nothing first.
LEMMA BareCallShape ==
  ASSUME NEW ops, NEW op, NEW epoch, NEW dir, NEW phase,
         AllocOrFail(ops, op, epoch, dir, phase, <<>>)
  PROVE  \/ FlightShape' /\ FlightBinding'
         \/ /\ Room(ops) /\ hs' = phase
            /\ \E o : o.kind = op.kind /\ pendingOps' = ops \cup {o}
            /\ \A i \in 1..Len(out') :
                 out'[i].act = "callCrypto" => out'[i].op = op
<1>1. /\ <<>> \in Seq(OutputAction)
      /\ \A i \in 1..Len(<<>>) : <<>>[i].act # "callCrypto"
  OBVIOUS
<1> QED
  BY <1>1, CallShape

\* How the transcript grows along the flight.
LEMMA FlightPrefixes ==
  ASSUME NEW ch \in ClientHello
  PROVE  /\ Append(<<>>, ch) = <<ch>>
         /\ Append(<<ch>>, "ServerHello") = ToServerHello(ch)
         /\ ToServerHello(ch) \o <<"EncryptedExtensions", "Certificate">>
              = ToCertificate(ch)
         /\ Append(ToCertificate(ch), "CertificateVerify")
              = ToCertificateVerify(ch)
         /\ Append(ToCertificateVerify(ch), "ServerFinished")
              = ToServerFinished(ch)
         /\ \A t \in {<<ch>>, ToServerHello(ch), ToCertificate(ch),
                       ToCertificateVerify(ch), ToServerFinished(ch)} :
              Head(t) = ch /\ t \in Transcript
<1>1. ch \in Message
  BY DEF Message
<1>2. /\ <<ch>> \in Transcript /\ Head(<<ch>>) = ch
      /\ ToServerHello(ch) \in Transcript /\ Head(ToServerHello(ch)) = ch
      /\ ToCertificate(ch) \in Transcript /\ Head(ToCertificate(ch)) = ch
  BY <1>1 DEF ToServerHello, ToCertificate, Transcript, ServerMessage
<1>3. /\ ToCertificateVerify(ch) \in Transcript
      /\ Head(ToCertificateVerify(ch)) = ch
  BY <1>1 DEF ToCertificate, ToCertificateVerify, Transcript, ServerMessage
<1>4. /\ ToServerFinished(ch) \in Transcript
      /\ Head(ToServerFinished(ch)) = ch
  BY <1>1
  DEF ToCertificate, ToCertificateVerify, ToServerFinished, Transcript,
      ServerMessage
<1>s. /\ <<>> \in Transcript /\ Len(<<>>) = 0
      /\ "ServerHello" \in Message \cup ServerMessage
      /\ <<"EncryptedExtensions", "Certificate">> \in Transcript
  BY EmptySequences DEF Transcript, ServerMessage
<1> DEFINE a == Append(<<>>, ch)
           b == Append(<<ch>>, "ServerHello")
           c == ToServerHello(ch) \o <<"EncryptedExtensions", "Certificate">>
<1>5. a = <<ch>>
  <2>1. a \in Transcript /\ Len(a) = 1 /\ a[1] = ch
    BY <1>1, <1>s DEF Transcript
  <2> HIDE DEF a
  <2> QED
    BY <1>2, <2>1, SeqEqual DEF Transcript
<1>6. b = ToServerHello(ch)
  <2>1. b \in Transcript /\ Len(b) = 2 /\ b[1] = ch /\ b[2] = "ServerHello"
    BY <1>2, <1>s DEF Transcript
  <2>2. /\ Len(ToServerHello(ch)) = 2
        /\ ToServerHello(ch)[1] = ch /\ ToServerHello(ch)[2] = "ServerHello"
    BY DEF ToServerHello
  <2> HIDE DEF b
  <2> QED
    BY <1>2, <2>1, <2>2, SeqEqual DEF Transcript
<1>7. c = ToCertificate(ch)
  <2>1. /\ c \in Transcript /\ Len(c) = 4 /\ c[1] = ch /\ c[2] = "ServerHello"
        /\ c[3] = "EncryptedExtensions" /\ c[4] = "Certificate"
    BY <1>2, <1>s DEF Transcript, ToServerHello
  <2>2. /\ Len(ToCertificate(ch)) = 4
        /\ ToCertificate(ch)[1] = ch /\ ToCertificate(ch)[2] = "ServerHello"
        /\ ToCertificate(ch)[3] = "EncryptedExtensions"
        /\ ToCertificate(ch)[4] = "Certificate"
    BY DEF ToCertificate
  <2> HIDE DEF c
  <2> QED
    BY <1>2, <2>1, <2>2, SeqEqual DEF Transcript
<1> QED
  BY <1>2, <1>3, <1>4, <1>5, <1>6, <1>7
  DEF ToCertificateVerify, ToServerFinished

\* The two shapes every flight handler re-establishes from an empty set of
\* outstanding operations.
LEMMA RequestShape ==
  ASSUME NEW op, NEW ch \in ClientHello, hs' \in Flight,
         \E o : o.kind = op.kind /\ pendingOps' = {} \cup {o},
         \A i \in 1..Len(out') :
           out'[i].act = "callCrypto" => out'[i].op = op,
         op.kind = AwaitedKind', Binds(op, ch), Head(transcript') = ch,
         TranscriptShape(ch)', ScheduleShape(ch)'
  PROVE  FlightShape' /\ FlightBinding'
<1>1. OpsShape'
  BY DEF OpsShape, Flight
<1>2. FinishedShape' /\ EpochShape'
  BY DEF FinishedShape, EpochShape, Flight, FlightSent, Connected
<1>3. FlightBinding'
  BY DEF FlightBinding
<1> QED
  BY <1>1, <1>2, <1>3 DEF FlightShape

LEMMA ClientHelloShape ==
  ASSUME TypeOK, FlightShape, hs = "start", NEW m \in Message, NEW charged,
         OnClientHello(m, charged, pendingOps), UNCHANGED keySched
  PROVE  FlightShape' /\ FlightBinding'
<1> DEFINE op == PlainOp("randomBytes", <<>>)
<1>1. CASE Fail
  BY <1>1, FailShape
<1>2. CASE /\ m \in ClientHello /\ transcript' = Append(transcript, m)
           /\ AllocOrFail(pendingOps, op, "handshake", "write",
                          "requestedServerRandom", <<>>)
  <2>1. pendingOps = {} /\ transcript = <<>>
    BY DEF FlightShape, OpsShape, TranscriptShape
  <2>2. transcript' = <<m>>
    BY <1>2, <2>1
  <2>3. CASE FlightShape' /\ FlightBinding'
    BY <2>3
  <2>4. CASE /\ hs' = "requestedServerRandom"
             /\ \E o : o.kind = op.kind /\ pendingOps' = pendingOps \cup {o}
             /\ \A i \in 1..Len(out') :
                  out'[i].act = "callCrypto" => out'[i].op = op
    <3>1. TranscriptShape(m)' /\ ScheduleShape(m)'
      BY <2>2, <2>4
      DEF TranscriptShape, ScheduleShape, HandshakeKeysReady, FlightSent,
          BeforeSchedule
    <3>2. op.kind = AwaitedKind' /\ Binds(op, m) /\ hs' \in Flight
      BY <2>4 DEF PlainOp, AwaitedKind, Binds, Flight
    <3>3. Head(transcript') = m
      BY <2>2
    <3> HIDE DEF op
    <3> QED
      BY <1>2, <2>1, <2>4, <3>1, <3>2, <3>3, RequestShape
  <2> HIDE DEF op
  <2> QED
    BY <1>2, <2>3, <2>4, BareCallShape
<1> QED
  BY <1>1, <1>2 DEF OnClientHello, ClientHello, Refused

LEMMA ServerRandomShape ==
  ASSUME TypeOK, FlightShape, hs = "requestedServerRandom",
         OnServerRandomDone({})
  PROVE  FlightShape' /\ FlightBinding'
<1> DEFINE op == PlainOp("ecdhe", <<>>)
<1>1. PICK ch \in ClientHello : transcript = <<ch>>
  BY DEF FlightShape, TranscriptShape
<1>2. /\ AllocOrFail({}, op, "handshake", "read", "requestedEcdhe", <<>>)
      /\ transcript' = transcript
  BY DEF OnServerRandomDone, flightVars
<1>3. CASE /\ hs' = "requestedEcdhe"
           /\ \E o : o.kind = op.kind /\ pendingOps' = {} \cup {o}
           /\ \A i \in 1..Len(out') :
                out'[i].act = "callCrypto" => out'[i].op = op
  <2>1. TranscriptShape(ch)' /\ ScheduleShape(ch)'
    BY <1>1, <1>2, <1>3
    DEF TranscriptShape, ScheduleShape, HandshakeKeysReady, FlightSent,
        BeforeSchedule
  <2>2. op.kind = AwaitedKind' /\ Binds(op, ch) /\ hs' \in Flight
    BY <1>3 DEF PlainOp, AwaitedKind, Binds, Flight
  <2>3. Head(transcript') = ch
    BY <1>1, <1>2
  <2> HIDE DEF op
  <2> QED
    BY <1>3, <2>1, <2>2, <2>3, RequestShape
<1> HIDE DEF op
<1> QED
  BY <1>2, <1>3, BareCallShape

LEMMA EcdheShape ==
  ASSUME TypeOK, FlightShape, hs = "requestedEcdhe", OnEcdheDone({})
  PROVE  FlightShape' /\ FlightBinding'
<1>1. PICK ch \in ClientHello : transcript = <<ch>>
  BY DEF FlightShape, TranscriptShape
<1> DEFINE th == Append(transcript, "ServerHello")
           ks == [phase |-> "awaitEarly", hsTranscript |-> th,
                  apTranscript |-> <<>>]
           op == ScheduleOp(ks)
           writes == <<WriteHandshake("initial", 0, "ServerHello")>>
<1>2. /\ transcript' = th
      /\ AllocOrFail({}, op, "handshake", "write", "derivedHandshakeSecrets",
                     writes)
      /\ keySched' = IF Room({}) THEN ks ELSE keySched
  BY DEF OnEcdheDone
<1>3. transcript' = ToServerHello(ch)
  BY <1>1, <1>2, FlightPrefixes
<1>4. /\ writes \in Seq(OutputAction)
      /\ \A i \in 1..Len(writes) : writes[i].act # "callCrypto"
  <2>1. "initial" \in Epoch /\ "ServerHello" \in ServerMessage
    BY DEF Epoch, ServerMessage
  <2> QED
    BY <2>1, WriteHandshakeType DEF WriteHandshake
<1>5. CASE /\ Room({}) /\ hs' = "derivedHandshakeSecrets"
           /\ \E o : o.kind = op.kind /\ pendingOps' = {} \cup {o}
           /\ \A i \in 1..Len(out') :
                out'[i].act = "callCrypto" => out'[i].op = op
  <2>1. keySched' = ks /\ ks.phase = "awaitEarly" /\ ks.hsTranscript = th
    BY <1>2, <1>5
  <2>2. TranscriptShape(ch)' /\ ScheduleShape(ch)'
    BY <1>2, <1>3, <1>5, <2>1
    DEF TranscriptShape, ScheduleShape, HandshakeKeysReady, FlightSent,
        BeforeSchedule, HandshakeStage
  <2>3. op.kind = AwaitedKind' /\ hs' \in Flight
    BY <1>5, <2>1 DEF ScheduleOp, AwaitedKind, Flight
  <2>4. Binds(op, ch)
    BY <2>1 DEF ScheduleOp, Schedule, Awaits, Binds
  <2>5. Head(transcript') = ch
    BY <1>3, FlightPrefixes
  <2> HIDE DEF op, ks
  <2> QED
    BY <1>5, <2>2, <2>3, <2>4, <2>5, RequestShape
<1> HIDE DEF op, writes, ks, th
<1> QED
  BY <1>2, <1>4, <1>5, CallShape

\* Each stage of the key schedule leads on within itself until its end.
LEMMA StageStep ==
  ASSUME NEW p, NEW result
  PROVE  /\ p \in HandshakeStage =>
              Advance(p, result) \in
                {"error", "handshakeKeysInstalled"} \cup HandshakeStage
         /\ p \in ApplicationStage =>
              Advance(p, result) \in
                {"error", "complete"} \cup ApplicationStage
BY DEF Advance, HandshakeStage, ApplicationStage, AwaitPhase, Paused,
       Schedule, Awaits

LEMMA StagesApart ==
  /\ "error" \notin AwaitPhase \cup Paused
  /\ "handshakeKeysInstalled" \notin AwaitPhase
  /\ "complete" \notin AwaitPhase
  /\ HandshakeStage \cap ApplicationStage = {}
BY DEF AwaitPhase, HandshakeStage, ApplicationStage, Paused

\* The operations of a stage are bound to the transcript of that stage.
LEMMA ScheduleOpBinds ==
  ASSUME NEW ks, NEW ch,
         \/ /\ ks.phase \in HandshakeStage
            /\ ks.hsTranscript = ToServerHello(ch)
         \/ /\ ks.phase \in ApplicationStage
            /\ ks.apTranscript = ToServerFinished(ch)
  PROVE  Binds(ScheduleOp(ks), ch)
<1> DEFINE w == Schedule(ks.phase)
<1>1. w.kind \in {"hkdfExtract", "hkdfExpand", "installTrafficKeys"}
  BY ScheduleType DEF AwaitPhase
<1>2. /\ ks.phase \in HandshakeStage =>
           w.label \notin {"s ap traffic", "c ap traffic"}
      /\ ks.phase \in ApplicationStage =>
           w.label \notin {"s hs traffic", "c hs traffic"}
  BY DEF HandshakeStage, ApplicationStage, Schedule, Awaits
<1> HIDE DEF w
<1> QED
  BY <1>1, <1>2 DEF ScheduleOp, Binds, w

\* The pump, in either stage.
LEMMA PumpShape ==
  ASSUME TypeOK, NEW ch \in ClientHello, NEW ks \in KeySched, NEW epoch,
         TranscriptShape(ch), ScheduleShape(ch),
         \/ hs = "derivedHandshakeSecrets" /\ ks.phase \in HandshakeStage
         \/ hs = "sentCertificateVerify" /\ ks.phase \in ApplicationStage,
         /\ ks.hsTranscript = keySched.hsTranscript
         /\ ks.apTranscript = keySched.apTranscript,
         PumpSchedule({}, ks, epoch)
  PROVE  FlightShape' /\ FlightBinding'
<1> DEFINE op == ScheduleOp(ks)
<1>1. /\ AllocOrFail({}, op, epoch, "write", hs, <<>>)
      /\ keySched' = IF Room({}) THEN ks ELSE keySched
      /\ transcript' = transcript
  BY DEF PumpSchedule
<1>2. CASE /\ Room({}) /\ hs' = hs
           /\ \E o : o.kind = op.kind /\ pendingOps' = {} \cup {o}
           /\ \A i \in 1..Len(out') :
                out'[i].act = "callCrypto" => out'[i].op = op
  <2>1. keySched' = ks
    BY <1>1, <1>2
  <2>2. TranscriptShape(ch)' /\ ScheduleShape(ch)'
    BY <1>1, <1>2, <2>1
    DEF TranscriptShape, ScheduleShape, HandshakeKeysReady, FlightSent,
        BeforeSchedule, Ending, TerminalPhase
  <2>3. op.kind = AwaitedKind' /\ hs' \in Flight
    BY <1>2, <2>1 DEF ScheduleOp, AwaitedKind, Flight
  <2>4. Binds(op, ch)
    BY ScheduleOpBinds
    DEF ScheduleShape, BeforeSchedule, Ending, TerminalPhase
  <2>5. Head(transcript') = ch
    BY <1>1, FlightPrefixes DEF TranscriptShape
  <2> HIDE DEF op
  <2> QED
    BY <1>2, <2>2, <2>3, <2>4, <2>5, RequestShape
<1> HIDE DEF op
<1> QED
  BY <1>1, <1>2, BareCallShape

LEMMA HsScheduleShape ==
  ASSUME TypeOK, FlightShape, hs = "derivedHandshakeSecrets", NEW result,
         OnHsScheduleResult({}, result)
  PROVE  FlightShape' /\ FlightBinding'
<1>1. PICK ch \in ClientHello : TranscriptShape(ch) /\ ScheduleShape(ch)
  BY DEF FlightShape
<1> DEFINE next == Advance(keySched.phase, result)
           ks == [keySched EXCEPT !.phase = next]
           th == transcript \o <<"EncryptedExtensions", "Certificate">>
           op == PlainOp("signCertificateVerify", th)
           writes == <<WriteHandshake("handshake", 0, "EncryptedExtensions"),
                       WriteHandshake("handshake", 1, "Certificate")>>
<1>2. keySched.phase \in HandshakeStage
  BY <1>1 DEF ScheduleShape
<1>3. next \in {"error", "handshakeKeysInstalled"} \cup HandshakeStage
  BY <1>2, StageStep
<1>4. next # "error" => /\ ks \in KeySched /\ ks.phase = next
                        /\ ks.hsTranscript = keySched.hsTranscript
                        /\ ks.apTranscript = keySched.apTranscript
  BY <1>3 DEF TypeOK, KeySched, AwaitPhase, Paused
<1> HIDE DEF next, ks
<1>5. CASE next = "error"
  <2>1. ScheduleError({})
    BY <1>5, StagesApart DEF OnHsScheduleResult, next
  <2> QED
    BY <2>1, FailShape DEF ScheduleError
<1>6. CASE next \in HandshakeStage
  <2>1. PumpSchedule({}, ks, "handshake")
    BY <1>6, StagesApart DEF OnHsScheduleResult, next, ks, AwaitPhase, Paused
  <2>2. ks \in KeySched /\ ks.phase \in HandshakeStage
    BY <1>4, <1>6, StagesApart DEF AwaitPhase
  <2> QED
    BY <1>1, <1>4, <1>6, <2>1, <2>2, StagesApart, PumpShape DEF AwaitPhase
<1>7. CASE next = "handshakeKeysInstalled"
  <2>1. /\ transcript' = th
        /\ keySched' = ks
        /\ AllocOrFail({}, op, "handshake", "write",
                       "requestedCertificateVerifySignature", writes)
    BY <1>7, StagesApart DEF OnHsScheduleResult, next, ks
  <2>2. th = ToCertificate(ch)
    BY <1>1, FlightPrefixes DEF TranscriptShape
  <2>3. /\ writes \in Seq(OutputAction)
        /\ \A i \in 1..Len(writes) : writes[i].act # "callCrypto"
    <3>1. /\ "handshake" \in Epoch /\ "EncryptedExtensions" \in ServerMessage
          /\ "Certificate" \in ServerMessage
      BY DEF Epoch, ServerMessage
    <3>2. /\ WriteHandshake("handshake", 0, "EncryptedExtensions")
               \in OutputAction
          /\ WriteHandshake("handshake", 1, "Certificate") \in OutputAction
      BY <3>1, WriteHandshakeType
    <3> QED
      BY <3>2 DEF WriteHandshake
  <2>4. CASE /\ hs' = "requestedCertificateVerifySignature"
             /\ \E o : o.kind = op.kind /\ pendingOps' = {} \cup {o}
             /\ \A i \in 1..Len(out') :
                  out'[i].act = "callCrypto" => out'[i].op = op
    <3>1. keySched'.phase = "handshakeKeysInstalled"
          /\ keySched'.hsTranscript = ToServerHello(ch)
      BY <1>1, <1>4, <1>7, <2>1
      DEF ScheduleShape, BeforeSchedule, Ending, TerminalPhase
    <3>2. TranscriptShape(ch)' /\ ScheduleShape(ch)'
      BY <2>1, <2>2, <2>4, <3>1
      DEF TranscriptShape, ScheduleShape, HandshakeKeysReady, FlightSent,
          BeforeSchedule
    <3>3. op.kind = AwaitedKind' /\ hs' \in Flight /\ Binds(op, ch)
      BY <2>2, <2>4 DEF PlainOp, AwaitedKind, Flight, Binds
    <3>4. Head(transcript') = ch
      BY <2>1, <2>2, FlightPrefixes
    <3> HIDE DEF op
    <3> QED
      BY <2>4, <3>2, <3>3, <3>4, RequestShape
  <2> HIDE DEF op, writes, th
  <2> QED
    BY <2>1, <2>3, <2>4, CallShape
<1> QED
  BY <1>3, <1>5, <1>6, <1>7

LEMMA CertVerifyShape ==
  ASSUME TypeOK, FlightShape, hs = "requestedCertificateVerifySignature",
         OnCertVerifySigned({})
  PROVE  FlightShape' /\ FlightBinding'
<1>1. PICK ch \in ClientHello : TranscriptShape(ch) /\ ScheduleShape(ch)
  BY DEF FlightShape
<1> DEFINE th == Append(transcript, "CertificateVerify")
           op == PlainOp("computeServerFinished", th)
           writes == <<WriteHandshake("handshake", 2, "CertificateVerify")>>
<1>2. /\ transcript' = th /\ keySched' = keySched
      /\ AllocOrFail({}, op, "handshake", "write",
                     "requestedServerFinishedMac", writes)
  BY DEF OnCertVerifySigned
<1>3. th = ToCertificateVerify(ch)
  BY <1>1, FlightPrefixes DEF TranscriptShape
<1>4. /\ writes \in Seq(OutputAction)
      /\ \A i \in 1..Len(writes) : writes[i].act # "callCrypto"
  <2>1. "handshake" \in Epoch /\ "CertificateVerify" \in ServerMessage
    BY DEF Epoch, ServerMessage
  <2> QED
    BY <2>1, WriteHandshakeType DEF WriteHandshake
<1>5. CASE /\ hs' = "requestedServerFinishedMac"
           /\ \E o : o.kind = op.kind /\ pendingOps' = {} \cup {o}
           /\ \A i \in 1..Len(out') :
                out'[i].act = "callCrypto" => out'[i].op = op
  <2>1. TranscriptShape(ch)' /\ ScheduleShape(ch)'
    BY <1>1, <1>2, <1>3, <1>5
    DEF TranscriptShape, ScheduleShape, HandshakeKeysReady, FlightSent,
        BeforeSchedule, Ending, TerminalPhase
  <2>2. op.kind = AwaitedKind' /\ hs' \in Flight /\ Binds(op, ch)
    BY <1>3, <1>5 DEF PlainOp, AwaitedKind, Flight, Binds
  <2>3. Head(transcript') = ch
    BY <1>2, <1>3, FlightPrefixes
  <2> HIDE DEF op
  <2> QED
    BY <1>5, <2>1, <2>2, <2>3, RequestShape
<1> HIDE DEF op, writes, th
<1> QED
  BY <1>2, <1>4, <1>5, CallShape

LEMMA ServerFinishedShape ==
  ASSUME TypeOK, FlightShape, hs = "requestedServerFinishedMac",
         OnServerFinishedMac({})
  PROVE  FlightShape' /\ FlightBinding'
<1>1. PICK ch \in ClientHello : TranscriptShape(ch) /\ ScheduleShape(ch)
  BY DEF FlightShape
<1> DEFINE th == Append(transcript, "ServerFinished")
           ks == [keySched EXCEPT !.phase = "awaitDerivedMs",
                                  !.apTranscript = th]
           op == ScheduleOp(ks)
           writes == <<WriteHandshake("handshake", 3, "ServerFinished")>>
<1>2. keySched.phase = "handshakeKeysInstalled"
  BY <1>1 DEF ScheduleShape, HandshakeKeysReady
<1>3. /\ transcript' = th
      /\ AllocOrFail({}, op, "application", "write", "sentCertificateVerify",
                     writes)
      /\ keySched' = IF Room({}) THEN ks ELSE keySched
  BY <1>2 DEF OnServerFinishedMac
<1>4. th = ToServerFinished(ch)
  BY <1>1, FlightPrefixes DEF TranscriptShape
<1>5. /\ ks.phase = "awaitDerivedMs" /\ ks.apTranscript = th
      /\ ks.hsTranscript = ToServerHello(ch)
  BY <1>1
  DEF TypeOK, KeySched, ScheduleShape, BeforeSchedule, Ending, TerminalPhase
<1>6. /\ writes \in Seq(OutputAction)
      /\ \A i \in 1..Len(writes) : writes[i].act # "callCrypto"
  <2>1. "handshake" \in Epoch /\ "ServerFinished" \in ServerMessage
    BY DEF Epoch, ServerMessage
  <2> QED
    BY <2>1, WriteHandshakeType DEF WriteHandshake
<1> HIDE DEF ks, th
<1>7. CASE /\ Room({}) /\ hs' = "sentCertificateVerify"
           /\ \E o : o.kind = op.kind /\ pendingOps' = {} \cup {o}
           /\ \A i \in 1..Len(out') :
                out'[i].act = "callCrypto" => out'[i].op = op
  <2>1. keySched' = ks
    BY <1>3, <1>7
  <2>2. ks.phase \in ApplicationStage
    BY <1>5 DEF ApplicationStage
  <2>3. TranscriptShape(ch)' /\ ScheduleShape(ch)'
    BY <1>3, <1>4, <1>5, <1>7, <2>1, <2>2
    DEF TranscriptShape, ScheduleShape, HandshakeKeysReady, FlightSent,
        BeforeSchedule
  <2>4. op.kind = AwaitedKind' /\ hs' \in Flight
    BY <1>7, <2>1 DEF ScheduleOp, AwaitedKind, Flight
  <2>5. Binds(op, ch)
    BY <1>4, <1>5, <2>2, ScheduleOpBinds
  <2>6. Head(transcript') = ch
    BY <1>3, <1>4, FlightPrefixes
  <2> HIDE DEF op
  <2> QED
    BY <1>7, <2>3, <2>4, <2>5, <2>6, RequestShape
<1> HIDE DEF op, writes
<1> QED
  BY <1>3, <1>6, <1>7, CallShape

LEMMA ApScheduleShape ==
  ASSUME TypeOK, FlightShape, hs = "sentCertificateVerify", NEW result,
         OnApScheduleResult({}, result)
  PROVE  FlightShape' /\ FlightBinding'
<1>1. PICK ch \in ClientHello : TranscriptShape(ch) /\ ScheduleShape(ch)
  BY DEF FlightShape
<1> DEFINE next == Advance(keySched.phase, result)
           ks == [keySched EXCEPT !.phase = next]
<1>2. keySched.phase \in ApplicationStage
  BY <1>1 DEF ScheduleShape
<1>3. next \in {"error", "complete"} \cup ApplicationStage
  BY <1>2, StageStep
<1>4. next # "error" => /\ ks \in KeySched /\ ks.phase = next
                        /\ ks.hsTranscript = keySched.hsTranscript
                        /\ ks.apTranscript = keySched.apTranscript
  BY <1>3 DEF TypeOK, KeySched, AwaitPhase, Paused
<1> HIDE DEF next, ks
<1>5. CASE next = "error"
  <2>1. ScheduleError({})
    BY <1>5, StagesApart DEF OnApScheduleResult, next
  <2> QED
    BY <2>1, FailShape DEF ScheduleError
<1>6. CASE next \in ApplicationStage
  <2>1. PumpSchedule({}, ks, "application")
    BY <1>6, StagesApart DEF OnApScheduleResult, next, ks, AwaitPhase, Paused
  <2>2. ks \in KeySched /\ ks.phase \in ApplicationStage
    BY <1>4, <1>6, StagesApart DEF AwaitPhase
  <2> QED
    BY <1>1, <1>4, <1>6, <2>1, <2>2, StagesApart, PumpShape DEF AwaitPhase
<1>7. CASE next = "complete"
  <2>1. /\ hs' = "sentServerFinished" /\ out' = <<>>
        /\ keySched' = ks /\ transcript' = transcript
        /\ writeEpoch' = InstallEpoch("application")
    BY <1>7, StagesApart DEF OnApScheduleResult, next, ks, MoveTo
  <2>2. TranscriptShape(ch)' /\ ScheduleShape(ch)'
    BY <1>1, <1>4, <1>7, <2>1
    DEF TranscriptShape, ScheduleShape, HandshakeKeysReady, FlightSent,
        BeforeSchedule, Ending, TerminalPhase
  <2>3. OpsShape' /\ FinishedShape' /\ EpochShape'
    BY <2>1
    DEF OpsShape, FinishedShape, EpochShape, Flight, Connected, InstallEpoch
  <2>4. FlightBinding'
    BY <2>1 DEF FlightBinding
  <2> QED
    BY <2>2, <2>3, <2>4 DEF FlightShape
<1> QED
  BY <1>3, <1>5, <1>6, <1>7

LEMMA VerifiedShape ==
  ASSUME TypeOK, FlightShape, hs = "requestedClientFinishedVerify",
         NEW ops, OnClientFinishedVerified(ops)
  PROVE  FlightShape' /\ FlightBinding'
<1>1. PICK ch \in ClientHello : TranscriptShape(ch) /\ ScheduleShape(ch)
  BY DEF FlightShape
<1>2. /\ hs' = "connected" /\ out' = <<Act("reportHandshakeComplete")>>
      /\ transcript' = transcript \o pendingFinished
      /\ UNCHANGED <<writeEpoch, keySched, pendingFinished>>
      /\ readEpoch' = InstallEpoch("application")
  BY DEF OnClientFinishedVerified, MoveTo
<1>3. TranscriptShape(ch)' /\ ScheduleShape(ch)'
  BY <1>1, <1>2
  DEF TranscriptShape, ScheduleShape, HandshakeKeysReady, FlightSent,
      BeforeSchedule, Ending, TerminalPhase
<1>4. OpsShape' /\ FinishedShape' /\ EpochShape'
  BY <1>2
  DEF FlightShape, OpsShape, FinishedShape, EpochShape, Flight, FlightSent,
      Connected, InstallEpoch
<1>5. FlightBinding'
  BY <1>2 DEF FlightBinding, Act
<1> QED
  BY <1>3, <1>4, <1>5 DEF FlightShape

LEMMA ClientFinishedShape ==
  ASSUME TypeOK, FlightShape, hs = "sentServerFinished", NEW m \in Message,
         NEW charged, NEW ops, OnClientFinishedBytes(m, charged, ops),
         UNCHANGED <<keySched, writeEpoch>>
  PROVE  FlightShape' /\ FlightBinding'
<1>1. PICK ch \in ClientHello : TranscriptShape(ch) /\ ScheduleShape(ch)
  BY DEF FlightShape
<1> DEFINE op == [kind |-> "verifyFinished", prefix |-> transcript,
                  msg |-> m]
<1>2. /\ pendingFinished' = <<m>> /\ transcript' = transcript
      /\ AllocOrFail(ops, op, "application", "read",
                     "requestedClientFinishedVerify", <<>>)
  BY DEF OnClientFinishedBytes
<1>3. CASE /\ hs' = "requestedClientFinishedVerify"
           /\ \A i \in 1..Len(out') :
                out'[i].act = "callCrypto" => out'[i].op = op
  <2>1. TranscriptShape(ch)' /\ ScheduleShape(ch)'
    BY <1>1, <1>2, <1>3
    DEF TranscriptShape, ScheduleShape, HandshakeKeysReady, FlightSent,
        BeforeSchedule, Ending, TerminalPhase
  <2>2. OpsShape' /\ FinishedShape' /\ EpochShape'
    BY <1>2, <1>3
    DEF FlightShape, OpsShape, FinishedShape, EpochShape, Flight, FlightSent,
        Connected
  <2>3. Binds(op, ch) /\ Head(transcript') = ch
    BY <1>1, <1>2, FlightPrefixes DEF TranscriptShape, Binds
  <2>4. FlightBinding'
    BY <1>3, <2>3 DEF FlightBinding
  <2> QED
    BY <2>1, <2>2, <2>4 DEF FlightShape
<1> HIDE DEF op
<1> QED
  BY <1>2, <1>3, BareCallShape

-----------------------------------------------------------------------------
(* Every step of the core.                                                 *)

LEMMA QuietShape ==
  ASSUME TypeOK, FlightShape,
         UNCHANGED <<hs, epochVars, transcript, keySched, pendingFinished>>,
         hs \in {"start"} \cup Flight => pendingOps' = pendingOps,
         NoBoundCall(out')
  PROVE  FlightShape' /\ FlightBinding'
BY UndisturbedShape, NoBoundCallBinds DEF epochVars

LEMMA AlertShape ==
  ASSUME NEW a \in Alert, OnInboundAlert(a)
  PROVE  FlightShape' /\ FlightBinding'
<1>1. CASE a = "truncated"
  BY <1>1, FailShape DEF OnInboundAlert
<1>2. CASE a \in {"closeNotify", "fatal"}
  <2>1. /\ hs' \in Ending
        /\ \E mode : out' = <<CloseTransport(mode)>>
    BY <1>2 DEF OnInboundAlert, Ending, TerminalPhase
  <2>2. NoBoundCall(out')
    BY <2>1 DEF NoBoundCall, CloseTransport
  <2> QED
    BY <2>1, <2>2, EndingShape, NoBoundCallBinds
<1> QED
  BY <1>1, <1>2 DEF Alert

LEMMA EmptyCalls == NoBoundCall(<<>>)
BY DEF NoBoundCall

LEMMA HandshakeMessageShape ==
  ASSUME TypeOK, FlightShape, NEW m \in Message, NEW charged, NEW ops,
         OnHandshakeMessage(m, charged, ops),
         UNCHANGED <<keySched, writeEpoch>>,
         /\ readEpoch'.epoch = readEpoch.epoch
         /\ readEpoch'.keysInstalled = readEpoch.keysInstalled,
         hs \in {"start"} \cup Flight => ops = pendingOps
  PROVE  FlightShape' /\ FlightBinding'
<1>1. CASE hs = "start"
  BY <1>1, ClientHelloShape DEF OnHandshakeMessage
<1>2. CASE hs = "sentServerFinished"
  BY <1>2, ClientFinishedShape DEF OnHandshakeMessage
<1>3. CASE hs \notin {"start", "sentServerFinished"}
  <2>1. /\ hs' = hs /\ out' = <<>> /\ pendingOps' = ops
        /\ UNCHANGED <<transcript, pendingFinished>>
    BY <1>3 DEF OnHandshakeMessage, Ignore, MoveTo, KeepOps
  <2>2. FlightShape'
    BY <2>1, UndisturbedShape
  <2> QED
    BY <2>1, <2>2, EmptyCalls, NoBoundCallBinds
<1> QED
  BY <1>1, <1>2, <1>3

LEMMA TransportBytesShape ==
  ASSUME TypeOK, FlightShape, NEW recs \in Seq(Record), TransportBytes(recs)
  PROVE  FlightShape' /\ FlightBinding'
<1> USE DEF flightVars, opVars
<1> DEFINE rec == Head(inbound \o recs)
<1>f. \A outer : Framed(recs, outer) => rec \in Record /\ rec.outer \in outer
  BY FramedType DEF TypeOK
<1> HIDE DEF rec
<1>1. CASE NeedMoreBytes(recs)
  <2>1. /\ UNCHANGED <<hs, epochVars, transcript, keySched, pendingFinished,
                       pendingOps>>
        /\ out' = <<Act("readTransport")>>
    BY <1>1 DEF NeedMoreBytes, MoveTo
  <2>2. NoBoundCall(out')
    BY <2>1 DEF NoBoundCall, Act
  <2> QED
    BY <2>1, <2>2, QuietShape
<1>2. CASE ProtectedRecord(recs)
  <2> DEFINE op == [kind |-> "aeadOpen", epoch |-> readEpoch.epoch,
                    seq |-> readEpoch.seq, body |-> rec.body]
  <2>1. UNCHANGED <<epochVars, transcript, keySched, pendingFinished>>
    BY <1>2 DEF ProtectedRecord
  <2>2. CASE Ignore /\ KeepOps(pendingOps)
    BY <2>1, <2>2, EmptyCalls, QuietShape DEF Ignore, MoveTo, KeepOps
  <2>3. CASE /\ hs \in {"connected", "sentServerFinished"}
             /\ \E epoch : AllocOrFail(pendingOps, op, epoch, "read", hs, <<>>)
    <3>1. \/ FlightShape' /\ FlightBinding'
          \/ /\ hs' = hs
             /\ \A i \in 1..Len(out') :
                  out'[i].act = "callCrypto" => out'[i].op = op
      <4> HIDE DEF op
      <4> QED
        BY <2>3, BareCallShape
    <3>2. op.kind = "aeadOpen"
      OBVIOUS
    <3>3. hs \notin {"start"} \cup Flight
      BY <2>3 DEF Flight
    <3> HIDE DEF op
    <3> QED
      BY <2>1, <3>1, <3>2, <3>3, QuietShape DEF NoBoundCall
  <2> QED
    BY <1>2, <2>2, <2>3 DEF ProtectedRecord, rec
<1>3. CASE CcsRecord(recs)
  <2>1. CASE Fail
    BY <2>1, FailShape
  <2>2. CASE Ignore
    BY <1>3, <2>2, EmptyCalls, QuietShape DEF CcsRecord, Ignore, MoveTo
  <2> QED
    BY <1>3, <2>1, <2>2 DEF CcsRecord
<1>4. CASE HandshakeRecord(recs)
  <2> DEFINE charged == [budgets EXCEPT !.handshake = @ + Len(rec.frags)]
             buf == reasm \o rec.frags
  <2>f. Framed(recs, {"handshake"})
    BY <1>4 DEF HandshakeRecord
  <2>1. rec.frags \in Seq(Fragment)
    BY <1>f, <2>f, RecordFields
  <2>2. UNCHANGED <<epochVars, keySched>>
    BY <1>4 DEF HandshakeRecord
  <2>3. CASE /\ HoldsMessage(buf)
             /\ OnHandshakeMessage(FirstMessage(buf), charged, pendingOps)
    <3>1. buf \in Seq(Fragment)
      BY <2>1 DEF TypeOK
    <3>2. FirstMessage(buf) \in Message
      BY <2>3, <3>1, FramingType
    <3>3. /\ UNCHANGED <<keySched, writeEpoch>>
          /\ readEpoch'.epoch = readEpoch.epoch
          /\ readEpoch'.keysInstalled = readEpoch.keysInstalled
      BY <2>2 DEF epochVars
    <3> HIDE DEF charged, buf
    <3> QED
      BY <2>3, <3>2, <3>3, HandshakeMessageShape
  <2>4. CASE Fail
    BY <2>4, FailShape
  <2>5. CASE /\ UNCHANGED <<opVars, transcript, pendingFinished>>
             /\ MoveTo(hs, <<Act("readTransport")>>)
    <3>1. NoBoundCall(out')
      BY <2>5 DEF MoveTo, NoBoundCall, Act
    <3> QED
      BY <2>2, <2>5, <3>1, QuietShape DEF MoveTo
  <2> QED
    BY <1>4, <2>3, <2>4, <2>5 DEF HandshakeRecord, rec
<1>5. CASE AlertRecord(recs)
  <2>1. Framed(recs, {"alert"}) /\ OnInboundAlert(rec.alert)
    BY <1>5 DEF AlertRecord, rec
  <2>2. rec.alert \in Alert
    BY <1>f, <2>1, RecordFields
  <2> QED
    BY <2>1, <2>2, AlertShape
<1>6. CASE InvalidRecord(recs)
  BY <1>6, FailShape DEF InvalidRecord
<1> QED
  BY <1>1, <1>2, <1>3, <1>4, <1>5, <1>6 DEF TransportBytes

\* In the flight the one outstanding operation is no record operation, and
\* its answer empties the outstanding set.
LEMMA AnswerInFlight ==
  ASSUME FlightShape, hs \in Flight, NEW id, NEW kinds, Outstanding(id, kinds)
  PROVE  /\ AwaitedKind \in kinds /\ AwaitedKind \in GatingKind
         /\ Without(id) = {}
<1>1. PICK o \in pendingOps : o.kind = AwaitedKind /\ pendingOps = {o}
  BY DEF FlightShape, OpsShape
<1>2. o.id = id /\ o.kind \in kinds
  BY <1>1 DEF Outstanding
<1>3. AwaitedKind \in GatingKind
  <2>1. hs \in {"derivedHandshakeSecrets", "sentCertificateVerify"} =>
          keySched.phase \in AwaitPhase
    BY DEF FlightShape, ScheduleShape, AwaitPhase
  <2> QED
    BY <2>1, ScheduleType DEF AwaitedKind, Flight, GatingKind, OpKind
<1> QED
  BY <1>1, <1>2, <1>3 DEF Without

LEMMA NothingAtStart ==
  ASSUME FlightShape, NEW id, NEW kinds, Outstanding(id, kinds)
  PROVE  hs # "start"
BY DEF FlightShape, OpsShape, Outstanding

LEMMA GatingShape ==
  ASSUME TypeOK, FlightShape, NEW id, NEW result \in GatingAnswer,
         GatingResult(id, result)
  PROVE  FlightShape' /\ FlightBinding'
<1> DEFINE kinds == {k \in OpKind : AnswerTo(k) = result}
<1>o. Outstanding(id, kinds)
  BY DEF GatingResult
<1>1. CASE hs \in Flight
  <2>1. Without(id) = {} /\ AnswerTo(AwaitedKind) = result
    BY <1>1, <1>o, AnswerInFlight
  <2>2. CASE hs = "requestedServerRandom"
    <3>1. result = "randomBytes"
      BY <2>1, <2>2 DEF AwaitedKind, AnswerTo
    <3> QED
      BY <2>1, <2>2, <3>1, ServerRandomShape DEF GatingResult
  <2>3. CASE hs = "requestedEcdhe"
    <3>1. result = "ecdheComplete"
      BY <2>1, <2>3 DEF AwaitedKind, AnswerTo
    <3> QED
      BY <2>1, <2>3, <3>1, EcdheShape DEF GatingResult
  <2>4. CASE hs \in {"derivedHandshakeSecrets", "sentCertificateVerify"}
    <3>1. keySched.phase \in AwaitPhase
      BY <2>4 DEF FlightShape, ScheduleShape, AwaitPhase
    <3>2. AwaitedKind = Schedule(keySched.phase).kind
      BY <2>4 DEF AwaitedKind
    <3>3. result \in {"hkdfSecret", "keysInstalled"}
      BY <2>1, <3>1, <3>2, ScheduleType DEF AnswerTo
    <3>4. CASE hs = "derivedHandshakeSecrets"
      BY <2>1, <3>3, <3>4, HsScheduleShape DEF GatingResult
    <3>5. CASE hs = "sentCertificateVerify"
      BY <2>1, <3>3, <3>5, ApScheduleShape DEF GatingResult
    <3> QED
      BY <2>4, <3>4, <3>5
  <2>5. CASE hs = "requestedCertificateVerifySignature"
    <3>1. result = "signature"
      BY <2>1, <2>5 DEF AwaitedKind, AnswerTo
    <3> QED
      BY <2>1, <2>5, <3>1, CertVerifyShape DEF GatingResult
  <2>6. CASE hs = "requestedServerFinishedMac"
    <3>1. result = "finishedMac"
      BY <2>1, <2>6 DEF AwaitedKind, AnswerTo
    <3> QED
      BY <2>1, <2>6, <3>1, ServerFinishedShape DEF GatingResult
  <2> QED
    BY <1>1, <2>2, <2>3, <2>4, <2>5, <2>6 DEF Flight
<1>2. CASE hs \notin Flight
  <2>1. \/ /\ hs = "requestedClientFinishedVerify"
           /\ OnClientFinishedVerified(Without(id))
        \/ Ignore /\ UNCHANGED <<epochVars, flightVars>>
    BY <1>2, GatingCases DEF Flight
  <2>2. hs # "start"
    BY <1>o, NothingAtStart
  <2>3. CASE Ignore /\ UNCHANGED <<epochVars, flightVars>>
    BY <1>2, <2>2, <2>3, EmptyCalls, QuietShape DEF Ignore, MoveTo, flightVars
  <2> QED
    BY <2>1, <2>3, VerifiedShape
<1> QED
  BY <1>1, <1>2

\* Advancing a sequence number touches neither epoch nor keys.
LEMMA AdvanceFields ==
  ASSUME NEW e \in EpochState
  PROVE  /\ AdvanceSeq(e).epoch = e.epoch
         /\ AdvanceSeq(e).keysInstalled = e.keysInstalled
BY DEF EpochState, AdvanceSeq

LEMMA OpenedShape ==
  ASSUME TypeOK, FlightShape, NEW id, NEW inner \in Inner,
         AeadOpened(id, inner)
  PROVE  FlightShape' /\ FlightBinding'
<1>1. hs \notin {"start"} \cup Flight
  <2>1. Outstanding(id, {"aeadOpen"})
    BY DEF AeadOpened, AeadOpenedConnected, AeadOpenedHandshake
  <2>2. hs \notin Flight
    BY <2>1, AnswerInFlight DEF GatingKind
  <2> QED
    BY <2>1, <2>2, NothingAtStart
<1>2. CASE Fail
  BY <1>2, FailShape
<1>3. CASE inner.ctype = "alert" /\ OnInboundAlert(inner.alert)
  BY <1>3, AlertShape, InnerFields
<1>e. \/ readEpoch' = readEpoch
      \/ readEpoch' = AdvanceSeq(readEpoch)
  BY DEF AeadOpened, AeadOpenedConnected, AeadOpenedHandshake
<1>f. /\ UNCHANGED <<writeEpoch, keySched>>
      /\ readEpoch'.epoch = readEpoch.epoch
      /\ readEpoch'.keysInstalled = readEpoch.keysInstalled
  BY <1>e, AdvanceFields
  DEF AeadOpened, AeadOpenedConnected, AeadOpenedHandshake, TypeOK, flightVars
<1>4. CASE /\ hs' = hs /\ out' = <<>>
           /\ UNCHANGED <<transcript, pendingFinished>>
  BY <1>1, <1>4, <1>f, EmptyCalls, NoBoundCallBinds, UndisturbedShape
<1>5. CASE /\ inner.ctype = "handshake"
           /\ OnHandshakeMessage(inner.msg, budgets, Without(id))
  BY <1>1, <1>5, <1>f, InnerFields, HandshakeMessageShape
<1>6. CASE AeadOpenedConnected(id, inner)
  BY <1>2, <1>3, <1>4, <1>6
  DEF AeadOpenedConnected, Ignore, MoveTo, flightVars
<1>7. CASE AeadOpenedHandshake(id, inner)
  BY <1>2, <1>3, <1>4, <1>5, <1>7 DEF AeadOpenedHandshake, Ignore, MoveTo
<1> QED
  BY <1>6, <1>7 DEF AeadOpened

LEMMA SealedShape ==
  ASSUME TypeOK, FlightShape, NEW id, AeadSealed(id)
  PROVE  FlightShape' /\ FlightBinding'
<1>1. hs \notin {"start"} \cup Flight
  <2>1. Outstanding(id, {"aeadSeal"})
    BY DEF AeadSealed
  <2>2. hs \notin Flight
    BY <2>1, AnswerInFlight DEF GatingKind
  <2> QED
    BY <2>1, <2>2, NothingAtStart
<1>2. /\ UNCHANGED <<hs, epochVars, transcript, keySched, pendingFinished>>
      /\ \/ out' = <<WriteTransport(id), CloseTransport("graceful")>>
         \/ out' = <<WriteTransport(id)>>
  BY DEF AeadSealed, MoveTo, flightVars
<1>3. NoBoundCall(out')
  BY <1>2 DEF NoBoundCall, WriteTransport, CloseTransport
<1> QED
  BY <1>1, <1>2, <1>3, QuietShape

LEMMA ApplicationShape ==
  ASSUME TypeOK, FlightShape,
         \/ AppRecv \/ \E plain \in Bytes : AppSend(plain)
         \/ \E mode \in CloseMode : AppClose(mode)
  PROVE  FlightShape' /\ FlightBinding'
<1> USE DEF epochVars, opVars, flightVars
<1>1. CASE AppRecv
  <2>1. \/ out' = <<>>
        \/ \E c : out' = <<EmitPlaintext(c)>>
    BY <1>1 DEF AppRecv
  <2>2. NoBoundCall(out')
    BY <2>1 DEF NoBoundCall, EmitPlaintext
  <2> QED
    BY <1>1, <2>2, QuietShape DEF AppRecv
<1>2. CASE \E plain \in Bytes : AppSend(plain)
  <2>1. CASE Fail
    BY <2>1, FailShape
  <2>2. CASE /\ Connected /\ hs' = hs
             /\ writeEpoch' = AdvanceSeq(writeEpoch)
             /\ \E op, n : /\ op.kind = "aeadSeal"
                           /\ out' = <<CallCrypto(nextOpId, op),
                                       AcceptPlaintext(n)>>
    <3>1. /\ writeEpoch'.epoch = writeEpoch.epoch
          /\ writeEpoch'.keysInstalled = writeEpoch.keysInstalled
      BY <2>2, AdvanceFields DEF TypeOK
    <3>2. UNCHANGED <<transcript, keySched, pendingFinished, readEpoch>>
      BY <1>2 DEF AppSend
    <3>3. NoBoundCall(out')
      BY <2>2 DEF NoBoundCall, CallCrypto, AcceptPlaintext
    <3>4. hs \notin {"start"} \cup Flight
      BY <2>2 DEF Connected, Flight
    <3> QED
      BY <2>2, <3>1, <3>2, <3>3, <3>4, UndisturbedShape, NoBoundCallBinds
  <2> QED
    BY <1>2, <2>1, <2>2 DEF AppSend, MoveTo
<1>3. CASE AppCloseGraceful
  <2>1. CASE Fail
    BY <2>1, FailShape
  <2>2. CASE /\ hs' = "closing"
             /\ \/ out' = <<CloseTransport("graceful")>>
                \/ \E op : /\ op.kind = "aeadSeal"
                           /\ out' = <<CallCrypto(nextOpId, op)>>
    <3>1. NoBoundCall(out')
      BY <2>2 DEF NoBoundCall, CallCrypto, CloseTransport
    <3> QED
      BY <2>2, <3>1, EndingShape, NoBoundCallBinds DEF Ending
  <2> QED
    BY <1>3, <2>1, <2>2 DEF AppCloseGraceful
<1>4. CASE AppCloseFatal \/ AppCloseAbortive
  <2>1. hs' \in Ending
    BY <1>4 DEF AppCloseFatal, AppCloseAbortive, Ending, TerminalPhase
  <2>2. NoBoundCall(out')
    BY <1>4
    DEF AppCloseFatal, AppCloseAbortive, NoBoundCall, WriteAlert, Act,
        CloseTransport
  <2> QED
    BY <2>1, <2>2, EndingShape, NoBoundCallBinds
<1>5. ASSUME NEW mode \in CloseMode, AppCloseAgain(mode)
      PROVE  FlightShape' /\ FlightBinding'
  <2>1. NoBoundCall(out')
    BY <1>5 DEF AppCloseAgain, MoveTo, NoBoundCall, CloseTransport
  <2> QED
    BY <1>5, <2>1, QuietShape DEF AppCloseAgain, MoveTo
<1> QED
  BY <1>1, <1>2, <1>3, <1>4, <1>5 DEF AppClose

LEMMA EventShape ==
  ASSUME TypeOK, FlightShape, NEW id,
         \/ DroppedResult(id) \/ CryptoFailed(id)
         \/ TransportEof \/ Timeout \/ Quiet
  PROVE  FlightShape' /\ FlightBinding'
<1> USE DEF epochVars, opVars, flightVars
<1>1. CASE CryptoFailed(id) \/ Timeout
  BY <1>1, FailShape DEF CryptoFailed, Timeout
<1>2. CASE DroppedResult(id) \/ Writable
  BY <1>2, EmptyCalls, QuietShape DEF DroppedResult, Writable, Ignore, MoveTo
<1>3. CASE TransportEof
  <2>1. hs' \in Ending /\ NoBoundCall(out')
    BY <1>3 DEF TransportEof, Ending, TerminalPhase, NoBoundCall, Act
  <2> QED
    BY <2>1, EndingShape, NoBoundCallBinds
<1>4. CASE TransportReadable
  <2>1. NoBoundCall(out')
    BY <1>4 DEF TransportReadable, MoveTo, NoBoundCall, Act
  <2> QED
    BY <1>4, <2>1, QuietShape DEF TransportReadable, MoveTo
<1>5. CASE Absorb
  BY <1>5, EmptyCalls, QuietShape DEF Absorb, coreVars
<1> QED
  BY <1>1, <1>2, <1>3, <1>4, <1>5 DEF Quiet

\* Whatever typed input arrives, the shape of the flight is kept and the
\* step asks for nothing that is bound to another transcript.
LEMMA FlightStep ==
  ASSUME TypeOK, FlightShape, CoreStep
  PROVE  FlightShape' /\ FlightBinding'
<1>1. CASE \E recs \in Seq(Record) : TransportBytes(recs)
  BY <1>1, TransportBytesShape
<1>2. CASE \E id \in Nat :
             \/ DroppedResult(id)
             \/ \E inner \in Inner : AeadOpened(id, inner)
             \/ AeadSealed(id)
             \/ CryptoFailed(id)
             \/ \E result \in GatingAnswer : GatingResult(id, result)
  BY <1>2, EventShape, OpenedShape, SealedShape, GatingShape
<1>3. CASE \/ AppRecv \/ \E plain \in Bytes : AppSend(plain)
           \/ \E mode \in CloseMode : AppClose(mode)
  BY <1>3, ApplicationShape
<1>4. CASE TransportEof \/ Timeout \/ Quiet
  BY <1>4, EventShape
<1> QED
  BY <1>1, <1>2, <1>3, <1>4 DEF CoreStep

-----------------------------------------------------------------------------
(* The safety properties of the flight.                                    *)

FlightInv == TypeOK /\ FlightShape /\ FlightBinding

LEMMA InitFlight == Init => FlightInv
<1> SUFFICES ASSUME Init
             PROVE  FlightInv
  OBVIOUS
<1>1. TypeOK
  BY InitType
<1>2. "ClientHello" \in ClientHello
  BY DEF ClientHello
<1>3. FlightShape
  BY <1>2
  DEF Init, FlightShape, OpsShape, FinishedShape, EpochShape, TranscriptShape,
      ScheduleShape, Flight, BeforeSchedule, HandshakeKeysReady, FlightSent,
      Connected
<1>4. FlightBinding
  BY DEF Init, FlightBinding
<1> QED
  BY <1>1, <1>3, <1>4 DEF FlightInv

LEMMA FlightInvStep == FlightInv /\ [Next]_vars => FlightInv'
<1>1. ASSUME FlightInv, Next
      PROVE  FlightInv'
  BY <1>1, NextIsCoreStep, CoreStepType, FlightStep DEF FlightInv
<1>2. ASSUME FlightInv, UNCHANGED vars
      PROVE  FlightInv'
  <2>1. TypeOK'
    BY <1>2, StutterType DEF FlightInv
  <2>2. FlightShape'
    BY <1>2, UndisturbedShape DEF FlightInv, vars, coreVars
  <2>3. FlightBinding'
    BY <1>2 DEF FlightInv, FlightBinding, vars, coreVars
  <2> QED
    BY <2>1, <2>2, <2>3 DEF FlightInv
<1> QED
  BY <1>1, <1>2

\* In every phase the transcript, the key schedule, the outstanding
\* operations and the epochs are those of one flight for one ClientHello.
THEOREM FlightInvariant == Spec => []FlightInv
BY InitFlight, FlightInvStep, PTL DEF Spec

\* Requests bind exactly the prefix RFC 8446 gives them.
THEOREM BindingCorrect == Spec => []FlightBinding
<1>1. FlightInv => FlightBinding
  BY DEF FlightInv
<1> QED
  BY <1>1, FlightInvariant, PTL

\* connected is reached over one complete flight, for every input alphabet,
\* ceiling and fragmentation.
THEOREM ConnectedCorrect == Spec => []ConnectedOnlyAfterFlight
<1>1. FlightInv => ConnectedOnlyAfterFlight
  <2> SUFFICES ASSUME FlightInv, Connected
               PROVE  ConnectedOnlyAfterFlight
    BY DEF ConnectedOnlyAfterFlight
  <2>1. PICK ch \in ClientHello : TranscriptShape(ch) /\ ScheduleShape(ch)
    BY DEF FlightInv, FlightShape
  <2>2. Len(pendingFinished) = 1
    BY DEF FlightInv, FlightShape, FinishedShape, Connected
  <2>3. transcript = ToServerFinished(ch) \o pendingFinished
    BY <2>1 DEF TranscriptShape, Connected
  <2>4. keySched = [phase |-> "complete", hsTranscript |-> ToServerHello(ch),
                    apTranscript |-> ToServerFinished(ch)]
    BY <2>1
    DEF FlightInv, TypeOK, KeySched, ScheduleShape, FlightSent, BeforeSchedule,
        Ending, TerminalPhase, Connected
  <2>5. /\ readEpoch.epoch = "application" /\ readEpoch.keysInstalled
        /\ writeEpoch.epoch = "application" /\ writeEpoch.keysInstalled
    BY DEF FlightInv, FlightShape, EpochShape, FlightSent, Connected
  <2> QED
    BY <2>1, <2>2, <2>3, <2>4, <2>5 DEF ConnectedOnlyAfterFlight
<1> QED
  BY <1>1, FlightInvariant, PTL

\* Every phase of the flight waits for the one operation that is outstanding.
THEOREM FlightNeverStuck == Spec => []FlightAwaitsItsAnswer
<1>1. FlightInv => FlightAwaitsItsAnswer
  BY DEF FlightInv, FlightShape, OpsShape, ScheduleShape,
         FlightAwaitsItsAnswer
<1> QED
  BY <1>1, FlightInvariant, PTL

-----------------------------------------------------------------------------
(* What a step asks of the provider and tells the interpreter, ops being   *)
(* the operations that stay outstanding: it ends the connection, asks for  *)
(* nothing, or asks for the one operation it adds.                         *)

Stops ==
  /\ hs' \in TerminalPhase
  /\ pendingOps' \subseteq pendingOps /\ UNCHANGED nextOpId
  /\ \E i \in 1..Len(out') :
       out'[i].act \in {"failWithAlert", "reportError", "closeTransport"}
  /\ \A i \in 1..Len(out') :
       \/ out'[i].act \in {"failWithAlert", "reportError", "closeTransport"}
       \/ i = 1 /\ out'[i] = WriteAlert(writeEpoch')

Keeps(ops) ==
  /\ hs' \notin TerminalPhase
  /\ KeepOps(ops)
  /\ Len(out') <= 1 \/ outbound' # outbound
  /\ \A i \in 1..Len(out') :
       \/ out'[i].act \in {"readTransport", "emitPlaintext",
                           "reportHandshakeComplete"}
       \/ out'[i].act = "writeTransport" /\ outbound' # outbound
       \/ out'[i].act = "closeTransport" /\ hs' \in Ending

SealsNext(op) ==
  /\ Connected /\ op.epoch = "application" /\ op.seq = writeEpoch.seq
  /\ writeEpoch' = AdvanceSeq(writeEpoch)

\* All but the ServerHello is written when the handshake keys are in use.
KeysInUse == HandshakeKeysReady \cup {"sentCertificateVerify"}

FlightRecord(a, phase) ==
  /\ a.act = "writeHandshake"
  /\ \/ a.epoch = "initial" /\ a.msg = "ServerHello"
     \/ a.epoch = "handshake" /\ phase \in KeysInUse

Asks(ops) ==
  /\ hs' \notin TerminalPhase
  /\ hs' \in Ending => Connected
  /\ \E op \in CryptoOp, epoch \in Epoch, dir \in Direction :
       /\ Allocate(ops, op.kind, epoch, dir)
       /\ \E n \in 1..Len(out') :
            /\ out'[n] = CallCrypto(nextOpId, op)
            /\ \A i \in (1..Len(out')) \ {n} :
                 \/ FlightRecord(out'[i], hs')
                 \/ out'[i].act = "acceptPlaintextBytes" /\ op.kind = "aeadSeal"
       /\ op.kind = "aeadSeal" => SealsNext(op)
       /\ op.kind = "installTrafficKeys" =>
            hs' \in Flight /\ op.label \in KeyLabel

Concludes(ops) == Stops \/ Keeps(ops) \/ Asks(ops)

LEMMA FailConcludes ==
  ASSUME NEW ops \in SUBSET pendingOps, Fail, KeepOps(ops)
  PROVE  Concludes(ops)
BY DEF Fail, KeepOps, Concludes, Stops, TerminalPhase, WriteAlert, Act

LEMMA IgnoreConcludes ==
  ASSUME Live, NEW ops, Ignore, KeepOps(ops)
  PROVE  Concludes(ops)
BY DEF Ignore, MoveTo, Live, Terminal, Concludes, Keeps

LEMMA ReadConcludes ==
  ASSUME Live, NEW ops, MoveTo(hs, <<Act("readTransport")>>), KeepOps(ops)
  PROVE  Concludes(ops)
BY DEF Act, MoveTo, Live, Terminal, Concludes, Keeps

\* writes are records of the flight.
LEMMA AllocConcludes ==
  ASSUME NEW ops \in SUBSET pendingOps, NEW op \in CryptoOp,
         NEW epoch \in Epoch, NEW dir \in Direction, NEW phase,
         NEW writes \in Seq(OutputAction),
         \A i \in 1..Len(writes) : FlightRecord(writes[i], phase),
         phase \notin Ending, op.kind # "aeadSeal",
         op.kind = "installTrafficKeys" =>
           phase \in Flight /\ op.label \in KeyLabel,
         AllocOrFail(ops, op, epoch, dir, phase, writes)
  PROVE  Concludes(ops)
<1>1. CASE ~Room(ops)
  BY <1>1, FailConcludes DEF AllocOrFail
<1>2. CASE Room(ops)
  <2>1. /\ Allocate(ops, op.kind, epoch, dir) /\ hs' = phase
        /\ out' = Append(writes, CallCrypto(nextOpId, op))
    BY <1>2 DEF AllocOrFail, MoveTo
  <2>2. /\ Len(writes) + 1 \in 1..Len(out')
        /\ out'[Len(writes) + 1] = CallCrypto(nextOpId, op)
        /\ \A i \in (1..Len(out')) \ {Len(writes) + 1} :
             FlightRecord(out'[i], phase)
    BY <2>1
  <2> QED
    BY <2>1, <2>2 DEF Concludes, Asks, Ending
<1> QED
  BY <1>1, <1>2

LEMMA BareAllocConcludes ==
  ASSUME NEW ops \in SUBSET pendingOps, NEW op \in CryptoOp,
         NEW epoch \in Epoch, NEW dir \in Direction, NEW phase,
         phase \notin Ending, op.kind # "aeadSeal",
         op.kind = "installTrafficKeys" =>
           phase \in Flight /\ op.label \in KeyLabel,
         AllocOrFail(ops, op, epoch, dir, phase, <<>>)
  PROVE  Concludes(ops)
<1>1. /\ <<>> \in Seq(OutputAction)
      /\ \A i \in 1..Len(<<>>) : FlightRecord(<<>>[i], phase)
  OBVIOUS
<1> QED
  BY <1>1, AllocConcludes

LEMMA AlertConcludes ==
  ASSUME NEW ops \in SUBSET pendingOps, NEW a \in Alert,
         OnInboundAlert(a), KeepOps(ops)
  PROVE  Concludes(ops)
<1>1. CASE a = "closeNotify"
  <2>1. hs' = "closing" /\ out' = <<CloseTransport("graceful")>>
    BY <1>1 DEF OnInboundAlert
  <2> QED
    BY <2>1 DEF Concludes, Keeps, CloseTransport, Ending, TerminalPhase
<1>2. CASE a = "fatal"
  <2>1. hs' = "failed" /\ out' = <<CloseTransport("abortive")>>
    BY <1>2 DEF OnInboundAlert
  <2> QED
    BY <2>1 DEF Concludes, Stops, CloseTransport, TerminalPhase, KeepOps
<1>3. CASE a = "truncated"
  BY <1>3, FailConcludes DEF OnInboundAlert
<1> QED
  BY <1>1, <1>2, <1>3 DEF Alert

LEMMA MessageConcludes ==
  ASSUME TypeOK, Live, NEW ops \in SUBSET pendingOps, NEW m \in Message,
         NEW charged, OnHandshakeMessage(m, charged, ops)
  PROVE  Concludes(ops)
<1>e. /\ "handshake" \in Epoch /\ "application" \in Epoch
      /\ "write" \in Direction /\ "read" \in Direction
  BY DEF Epoch, Direction
<1>1. CASE hs = "start"
  <2> DEFINE op == PlainOp("randomBytes", <<>>)
  <2>1. \/ Fail /\ KeepOps(ops)
        \/ AllocOrFail(ops, op, "handshake", "write", "requestedServerRandom",
                       <<>>)
    BY <1>1 DEF OnHandshakeMessage, OnClientHello
  <2>2. op \in CryptoOp /\ op.kind = "randomBytes"
    BY EmptySequences, PlainOpType DEF OpKind, PlainOp
  <2>3. "requestedServerRandom" \notin Ending
    BY DEF Ending, TerminalPhase
  <2> HIDE DEF op
  <2> QED
    BY <1>e, <2>1, <2>2, <2>3, FailConcludes, BareAllocConcludes
<1>2. CASE hs = "sentServerFinished"
  <2> DEFINE op == [kind |-> "verifyFinished", prefix |-> transcript,
                    msg |-> m]
  <2>1. AllocOrFail(ops, op, "application", "read",
                    "requestedClientFinishedVerify", <<>>)
    BY <1>2 DEF OnHandshakeMessage, OnClientFinishedBytes
  <2>2. op \in CryptoOp /\ op.kind = "verifyFinished"
    BY DEF TypeOK, CryptoOp
  <2>3. "requestedClientFinishedVerify" \notin Ending
    BY DEF Ending, TerminalPhase
  <2> HIDE DEF op
  <2> QED
    BY <1>e, <2>1, <2>2, <2>3, BareAllocConcludes
<1>3. CASE hs \notin {"start", "sentServerFinished"}
  BY <1>3, IgnoreConcludes DEF OnHandshakeMessage
<1> QED
  BY <1>1, <1>2, <1>3

\* An open is asked for the body of the record that is framed.
LEMMA TransportBytesConcludes ==
  ASSUME TypeOK, NEW recs \in Seq(Record), TransportBytes(recs)
  PROVE  Concludes(pendingOps)
<1> DEFINE rec == Head(inbound \o recs)
<1>f. \A outer : Framed(recs, outer) =>
        Live /\ rec \in Record /\ rec.outer \in outer
  BY FramedType DEF Framed, TypeOK
<1>s. pendingOps \in SUBSET pendingOps
  OBVIOUS
<1>k. UNCHANGED opVars => KeepOps(pendingOps)
  BY DEF opVars, KeepOps
<1> HIDE DEF rec
<1>1. CASE NeedMoreBytes(recs)
  BY <1>1, <1>k, ReadConcludes DEF NeedMoreBytes
<1>2. CASE ProtectedRecord(recs)
  <2> DEFINE op == [kind |-> "aeadOpen", epoch |-> readEpoch.epoch,
                    seq |-> readEpoch.seq, body |-> rec.body]
             epoch == IF Connected THEN "application" ELSE "handshake"
  <2>1. Live /\ rec \in Record /\ rec.outer = "applicationData"
    BY <1>2, <1>f DEF ProtectedRecord
  <2>2. op \in CryptoOp /\ op.kind = "aeadOpen"
    BY <2>1, RecordFields DEF TypeOK, EpochState, CryptoOp
  <2>3. epoch \in Epoch /\ "read" \in Direction
    BY DEF Epoch, Direction
  <2>4. CASE Ignore /\ KeepOps(pendingOps)
    BY <2>1, <2>4, IgnoreConcludes
  <2>5. CASE /\ hs \in {"connected", "sentServerFinished"}
             /\ AllocOrFail(pendingOps, op, epoch, "read", hs, <<>>)
    <3>1. hs \notin Ending
      BY <2>5 DEF Ending, TerminalPhase
    <3> HIDE DEF op, epoch
    <3> QED
      BY <1>s, <2>2, <2>3, <2>5, <3>1, BareAllocConcludes
  <2> QED
    BY <1>2, <2>4, <2>5 DEF ProtectedRecord, rec
<1>3. CASE CcsRecord(recs)
  <2>1. Live /\ (Fail \/ Ignore) /\ KeepOps(pendingOps)
    BY <1>3, <1>f, <1>k DEF CcsRecord
  <2> QED
    BY <1>s, <2>1, FailConcludes, IgnoreConcludes
<1>4. CASE HandshakeRecord(recs)
  <2> DEFINE buf == reasm \o rec.frags
  <2>1. Live /\ rec \in Record /\ rec.outer = "handshake"
    BY <1>4, <1>f DEF HandshakeRecord
  <2>2. buf \in Seq(Fragment)
    BY <2>1, RecordFields DEF TypeOK
  <2>3. \/ /\ HoldsMessage(buf)
           /\ \E charged :
                OnHandshakeMessage(FirstMessage(buf), charged, pendingOps)
        \/ KeepOps(pendingOps) /\ Fail
        \/ KeepOps(pendingOps) /\ MoveTo(hs, <<Act("readTransport")>>)
    BY <1>4, <1>k DEF HandshakeRecord, rec
  <2>4. CASE /\ HoldsMessage(buf)
             /\ \E charged :
                  OnHandshakeMessage(FirstMessage(buf), charged, pendingOps)
    <3>1. FirstMessage(buf) \in Message
      BY <2>2, <2>4, FramingType
    <3> HIDE DEF buf
    <3> QED
      BY <1>s, <2>1, <2>4, <3>1, MessageConcludes
  <2> QED
    BY <1>s, <2>1, <2>3, <2>4, FailConcludes, ReadConcludes
<1>5. CASE AlertRecord(recs)
  <2>1. Framed(recs, {"alert"}) /\ OnInboundAlert(rec.alert)
    BY <1>5 DEF AlertRecord, rec
  <2>2. rec.alert \in Alert /\ KeepOps(pendingOps)
    BY <1>5, <1>f, <1>k, <2>1, RecordFields DEF AlertRecord
  <2> QED
    BY <1>s, <2>1, <2>2, AlertConcludes
<1>6. CASE InvalidRecord(recs)
  <2>1. Fail /\ KeepOps(pendingOps)
    BY <1>6, <1>k DEF InvalidRecord
  <2> QED
    BY <1>s, <2>1, FailConcludes
<1> QED
  BY <1>1, <1>2, <1>3, <1>4, <1>5, <1>6 DEF TransportBytes


LEMMA OpenedConcludes ==
  ASSUME TypeOK, NEW id, NEW inner \in Inner, AeadOpened(id, inner)
  PROVE  Concludes(Without(id))
<1>s. Without(id) \in SUBSET pendingOps /\ pendingOps \in SUBSET pendingOps
  BY DEF Without
<1>l. Live
  BY DEF AeadOpened, AeadOpenedConnected, AeadOpenedHandshake, Outstanding
<1>f. ASSUME Fail, UNCHANGED nextOpId,
             pendingOps' \in {pendingOps, Without(id)}
      PROVE  Concludes(Without(id))
  <2>1. Concludes(pendingOps')
    <3> DEFINE ops == pendingOps'
    <3>1. ops \in SUBSET pendingOps /\ KeepOps(ops)
      BY <1>f, <1>s DEF KeepOps
    <3> HIDE DEF ops
    <3> QED
      BY <1>f, <3>1 DEF Fail, KeepOps, Concludes, Stops, TerminalPhase,
                        WriteAlert, Act
  <2>2. hs' \in TerminalPhase
    BY <1>f DEF Fail, TerminalPhase
  <2>3. Stops
    BY <2>1, <2>2 DEF Concludes, Keeps, Asks
  <2> QED
    BY <2>3 DEF Concludes
<1>1. CASE AeadOpenedConnected(id, inner)
  <2>1. /\ UNCHANGED nextOpId
        /\ \/ Fail /\ pendingOps' \in {pendingOps, Without(id)}
           \/ /\ pendingOps' = Without(id)
              /\ \/ out' = <<>> /\ hs' = hs
                 \/ inner.ctype = "alert" /\ OnInboundAlert(inner.alert)
                 \/ Ignore
    BY <1>1 DEF AeadOpenedConnected
  <2>2. CASE pendingOps' = Without(id) /\ out' = <<>> /\ hs' = hs
    BY <1>l, <2>1, <2>2 DEF Concludes, Keeps, KeepOps, Live, Terminal
  <2> QED
    BY <1>f, <1>l, <1>s, <2>1, <2>2, InnerFields, AlertConcludes,
       IgnoreConcludes
    DEF KeepOps
<1>2. CASE AeadOpenedHandshake(id, inner)
  <2>1. \/ /\ inner.ctype = "handshake"
           /\ OnHandshakeMessage(inner.msg, budgets, Without(id))
        \/ /\ KeepOps(Without(id)) /\ inner.ctype = "alert"
           /\ OnInboundAlert(inner.alert)
        \/ KeepOps(Without(id)) /\ Ignore
        \/ KeepOps(pendingOps) /\ Fail
    BY <1>2 DEF AeadOpenedHandshake
  <2> QED
    BY <1>f, <1>l, <1>s, <2>1, InnerFields, AlertConcludes, IgnoreConcludes,
       MessageConcludes DEF KeepOps
<1> QED
  BY <1>1, <1>2 DEF AeadOpened

LEMMA SealedConcludes ==
  ASSUME TypeOK, CloseStateAgrees, NEW id \in Nat, AeadSealed(id)
  PROVE  Concludes(Without(id))
<1>1. KeepOps(Without(id)) /\ hs' = hs /\ hs \notin TerminalPhase
  BY DEF AeadSealed, MoveTo, Outstanding, Live, Terminal
<1>o. outbound' # outbound
  <2>1. outbound' = Append(outbound, id) /\ outbound \in Seq(Nat)
    BY DEF AeadSealed, TypeOK
  <2> QED
    BY <2>1
<1>2. CASE closeState = "sentCloseNotify"
  <2>1. hs = "closing"
    BY <1>1, <1>2 DEF CloseStateAgrees, TerminalPhase
  <2>2. out' = <<WriteTransport(id), CloseTransport("graceful")>>
    BY <1>2 DEF AeadSealed, MoveTo
  <2> QED
    BY <1>1, <1>o, <2>1, <2>2
    DEF Concludes, Keeps, WriteTransport, CloseTransport, Ending
<1>3. CASE closeState # "sentCloseNotify"
  <2>1. out' = <<WriteTransport(id)>>
    BY <1>3 DEF AeadSealed, MoveTo
  <2> QED
    BY <1>1, <1>o, <2>1 DEF Concludes, Keeps, WriteTransport
<1> QED
  BY <1>2, <1>3

LEMMA FailedConcludes ==
  ASSUME NEW id, CryptoFailed(id)
  PROVE  Stops
<1>1. Without(id) \in SUBSET pendingOps
  BY DEF Without
<1>2. KeepOps(Without(id)) /\ Fail
  BY DEF CryptoFailed
<1>3. hs' \in TerminalPhase
  BY <1>2 DEF Fail, TerminalPhase
<1> QED
  BY <1>1, <1>2, <1>3, FailConcludes DEF Concludes, Keeps, Asks

\* A schedule operation is asked for in the phase of its stage.
LEMMA PumpConcludes ==
  ASSUME TypeOK, hs \in Flight, NEW ops \in SUBSET pendingOps,
         NEW ks \in KeySched, ks.phase \in AwaitPhase,
         NEW epoch \in Epoch, NEW phase \in Flight,
         NEW writes \in Seq(OutputAction),
         \A i \in 1..Len(writes) : FlightRecord(writes[i], phase),
         AllocOrFail(ops, ScheduleOp(ks), epoch, "write", phase, writes)
  PROVE  Concludes(ops)
<1> DEFINE op == ScheduleOp(ks)
<1>1. op \in CryptoOp
  BY ScheduleOpType
<1>2. /\ op.kind # "aeadSeal"
      /\ op.kind = "installTrafficKeys" => op.label \in KeyLabel
  BY ScheduleType DEF ScheduleOp
<1>3. "write" \in Direction /\ phase \notin Ending
  BY DEF Direction, Flight, Ending, TerminalPhase
<1> HIDE DEF op
<1> QED
  BY <1>1, <1>2, <1>3, AllocConcludes DEF op

\* The prefix of transcript an operation is bound to is a transcript.
LEMMA BoundConcludes ==
  ASSUME NEW ops \in SUBSET pendingOps,
         NEW kind \in {"signCertificateVerify", "computeServerFinished"},
         NEW prefix \in Transcript, NEW phase \in Flight,
         NEW writes \in Seq(OutputAction),
         \A i \in 1..Len(writes) : FlightRecord(writes[i], phase),
         AllocOrFail(ops, PlainOp(kind, prefix), "handshake", "write", phase,
                     writes)
  PROVE  Concludes(ops)
<1> DEFINE op == PlainOp(kind, prefix)
<1>1. op \in CryptoOp
  BY PlainOpType DEF OpKind
<1>2. op.kind \notin {"aeadSeal", "installTrafficKeys"}
  BY DEF PlainOp
<1>3. /\ "write" \in Direction /\ "handshake" \in Epoch
      /\ phase \notin Ending
  BY DEF Direction, Epoch, Flight, Ending, TerminalPhase
<1> HIDE DEF op
<1> QED
  BY <1>1, <1>2, <1>3, AllocConcludes DEF op

\* The records of the flight, in the groups they are written in.
LEMMA FlightWrites ==
  ASSUME NEW phase, NEW writes,
         \/ writes = <<>>
         \/ writes = <<WriteHandshake("initial", 0, "ServerHello")>>
         \/ /\ phase \in KeysInUse
            /\ \/ writes = <<WriteHandshake("handshake", 0,
                                           "EncryptedExtensions"),
                            WriteHandshake("handshake", 1, "Certificate")>>
               \/ writes = <<WriteHandshake("handshake", 2,
                                           "CertificateVerify")>>
               \/ writes = <<WriteHandshake("handshake", 3, "ServerFinished")>>
  PROVE  /\ writes \in Seq(OutputAction)
         /\ \A i \in 1..Len(writes) : FlightRecord(writes[i], phase)
<1>1. \A epoch \in {"initial", "handshake"}, seq \in 0..3,
         msg \in ServerMessage :
        /\ WriteHandshake(epoch, seq, msg) \in OutputAction
        /\ \/ epoch = "initial" /\ msg = "ServerHello"
           \/ epoch = "handshake" /\ phase \in KeysInUse
           => FlightRecord(WriteHandshake(epoch, seq, msg), phase)
  BY WriteHandshakeType DEF Epoch, WriteHandshake, FlightRecord
<1>2. {"ServerHello", "EncryptedExtensions", "Certificate",
       "CertificateVerify", "ServerFinished"} = ServerMessage
  BY DEF ServerMessage
<1>3. CASE writes = <<>>
  BY <1>3, EmptySequences
<1>4. ASSUME NEW epoch \in {"initial", "handshake"}, NEW seq \in 0..3,
             NEW msg \in ServerMessage,
             \/ epoch = "initial" /\ msg = "ServerHello"
             \/ epoch = "handshake" /\ phase \in KeysInUse,
             writes = <<WriteHandshake(epoch, seq, msg)>>
      PROVE  /\ writes \in Seq(OutputAction)
             /\ \A i \in 1..Len(writes) : FlightRecord(writes[i], phase)
  BY <1>1, <1>4
<1>5. CASE /\ phase \in KeysInUse
           /\ writes = <<WriteHandshake("handshake", 0, "EncryptedExtensions"),
                        WriteHandshake("handshake", 1, "Certificate")>>
  BY <1>1, <1>2, <1>5
<1>6. CASE writes = <<WriteHandshake("initial", 0, "ServerHello")>>
  BY <1>2, <1>4, <1>6
<1>7. CASE /\ phase \in KeysInUse
           /\ writes = <<WriteHandshake("handshake", 2, "CertificateVerify")>>
  BY <1>2, <1>4, <1>7
<1>8. CASE /\ phase \in KeysInUse
           /\ writes = <<WriteHandshake("handshake", 3, "ServerFinished")>>
  BY <1>2, <1>4, <1>8
<1> QED
  BY <1>3, <1>5, <1>6, <1>7, <1>8

LEMMA ScheduleResultConcludes ==
  ASSUME TypeOK, Live, NEW ops \in SUBSET pendingOps, NEW result,
         \/ hs = "derivedHandshakeSecrets" /\ OnHsScheduleResult(ops, result)
         \/ hs = "sentCertificateVerify" /\ OnApScheduleResult(ops, result)
  PROVE  Concludes(ops)
<1> DEFINE next == Advance(keySched.phase, result)
           ks == [keySched EXCEPT !.phase = next]
           th == transcript \o <<"EncryptedExtensions", "Certificate">>
           writes == <<WriteHandshake("handshake", 0, "EncryptedExtensions"),
                       WriteHandshake("handshake", 1, "Certificate")>>
<1>1. next \in AwaitPhase => ks \in KeySched /\ ks.phase = next
  BY MovedScheduleType DEF TypeOK
<1>2. th \in Transcript
  BY DEF TypeOK, Transcript, ServerMessage
<1>3. \/ Fail /\ KeepOps(ops)
      \/ Ignore /\ KeepOps(ops)
      \/ MoveTo("sentServerFinished", <<>>) /\ KeepOps(ops)
      \/ /\ next \in AwaitPhase
         /\ \E epoch \in {"handshake", "application"} :
              AllocOrFail(ops, ScheduleOp(ks), epoch, "write", hs, <<>>)
      \/ AllocOrFail(ops, PlainOp("signCertificateVerify", th), "handshake",
                     "write", "requestedCertificateVerifySignature", writes)
  BY DEF OnHsScheduleResult, OnApScheduleResult, ScheduleError, PumpSchedule
<1>4. CASE MoveTo("sentServerFinished", <<>>) /\ KeepOps(ops)
  BY <1>4 DEF MoveTo, TerminalPhase, Concludes, Keeps
<1>5. CASE /\ next \in AwaitPhase
           /\ \E epoch \in {"handshake", "application"} :
                AllocOrFail(ops, ScheduleOp(ks), epoch, "write", hs, <<>>)
  <2>1. hs \in Flight /\ {"handshake", "application"} \subseteq Epoch
    BY DEF Flight, Epoch
  <2>2. /\ <<>> \in Seq(OutputAction)
        /\ \A i \in 1..Len(<<>>) : FlightRecord(<<>>[i], hs)
    OBVIOUS
  <2> HIDE DEF ks, next
  <2> QED
    BY <1>1, <1>5, <2>1, <2>2, PumpConcludes
<1>6. CASE AllocOrFail(ops, PlainOp("signCertificateVerify", th),
                       "handshake", "write",
                       "requestedCertificateVerifySignature", writes)
  <2>1. /\ writes \in Seq(OutputAction)
        /\ \A i \in 1..Len(writes) :
             FlightRecord(writes[i], "requestedCertificateVerifySignature")
    BY FlightWrites DEF KeysInUse, HandshakeKeysReady
  <2>2. "requestedCertificateVerifySignature" \in Flight
    BY DEF Flight
  <2> HIDE DEF th, writes
  <2> QED
    BY <1>2, <1>6, <2>1, <2>2, BoundConcludes
<1> HIDE DEF next, ks, th, writes
<1> QED
  BY <1>3, <1>4, <1>5, <1>6, FailConcludes, IgnoreConcludes

LEMMA EcdheConcludes ==
  ASSUME TypeOK, hs = "requestedEcdhe", NEW ops \in SUBSET pendingOps,
         OnEcdheDone(ops)
  PROVE  Concludes(ops)
<1> DEFINE th == Append(transcript, "ServerHello")
           ks == [phase |-> "awaitEarly", hsTranscript |-> th,
                  apTranscript |-> <<>>]
           writes == <<WriteHandshake("initial", 0, "ServerHello")>>
<1>1. AllocOrFail(ops, ScheduleOp(ks), "handshake", "write",
                  "derivedHandshakeSecrets", writes)
  BY DEF OnEcdheDone
<1>2. th \in Transcript /\ <<>> \in Transcript
  BY EmptySequences DEF TypeOK, Transcript, ServerMessage
<1> HIDE DEF th
<1>3. ks \in KeySched /\ ks.phase \in AwaitPhase
  BY <1>2 DEF KeySched, AwaitPhase, HandshakeStage
<1>4. /\ writes \in Seq(OutputAction)
      /\ \A i \in 1..Len(writes) :
           FlightRecord(writes[i], "derivedHandshakeSecrets")
  BY FlightWrites DEF KeysInUse, HandshakeKeysReady
<1>5. /\ "derivedHandshakeSecrets" \in Flight /\ hs \in Flight
      /\ "handshake" \in Epoch
  BY DEF Flight, Epoch
<1> HIDE DEF ks, writes
<1> QED
  BY <1>1, <1>3, <1>4, <1>5, PumpConcludes

LEMMA ServerFinishedConcludes ==
  ASSUME TypeOK, hs = "requestedServerFinishedMac",
         NEW ops \in SUBSET pendingOps, OnServerFinishedMac(ops)
  PROVE  Concludes(ops)
<1> DEFINE th == Append(transcript, "ServerFinished")
           ks == [keySched EXCEPT !.phase = "awaitDerivedMs",
                                  !.apTranscript = th]
           writes == <<WriteHandshake("handshake", 3, "ServerFinished")>>
<1>1. \/ Fail /\ KeepOps(ops)
      \/ AllocOrFail(ops, ScheduleOp(ks), "application", "write",
                     "sentCertificateVerify", writes)
  BY DEF OnServerFinishedMac, ScheduleError
<1>2. th \in Transcript
  BY DEF TypeOK, Transcript, ServerMessage
<1> HIDE DEF th
<1>3. ks \in KeySched /\ ks.phase \in AwaitPhase
  <2>1. keySched \in KeySched
    BY DEF TypeOK
  <2> QED
    BY <1>2, <2>1 DEF KeySched, AwaitPhase, ApplicationStage
<1>4. /\ writes \in Seq(OutputAction)
      /\ \A i \in 1..Len(writes) :
           FlightRecord(writes[i], "sentCertificateVerify")
  BY FlightWrites DEF KeysInUse, HandshakeKeysReady
<1>5. /\ "sentCertificateVerify" \in Flight /\ hs \in Flight
      /\ "application" \in Epoch
  BY DEF Flight, Epoch
<1> HIDE DEF ks, writes
<1> QED
  BY <1>1, <1>3, <1>4, <1>5, PumpConcludes, FailConcludes

LEMMA CertVerifyConcludes ==
  ASSUME TypeOK, NEW ops \in SUBSET pendingOps, OnCertVerifySigned(ops)
  PROVE  Concludes(ops)
<1> DEFINE th == Append(transcript, "CertificateVerify")
           writes == <<WriteHandshake("handshake", 2, "CertificateVerify")>>
<1>1. AllocOrFail(ops, PlainOp("computeServerFinished", th), "handshake",
                  "write", "requestedServerFinishedMac", writes)
  BY DEF OnCertVerifySigned
<1>2. th \in Transcript
  BY DEF TypeOK, Transcript, ServerMessage
<1>3. /\ writes \in Seq(OutputAction)
      /\ \A i \in 1..Len(writes) :
           FlightRecord(writes[i], "requestedServerFinishedMac")
  BY FlightWrites DEF KeysInUse, HandshakeKeysReady
<1>4. "requestedServerFinishedMac" \in Flight
  BY DEF Flight
<1> HIDE DEF th, writes
<1> QED
  BY <1>1, <1>2, <1>3, <1>4, BoundConcludes

LEMMA GatingConcludes ==
  ASSUME TypeOK, NEW id, NEW result \in GatingAnswer, GatingResult(id, result)
  PROVE  Concludes(Without(id))
<1> DEFINE ops == Without(id)
<1>s. ops \in SUBSET pendingOps
  BY DEF Without
<1>l. Live
  BY DEF GatingResult, Outstanding
<1> HIDE DEF ops
<1>1. CASE hs = "requestedServerRandom" /\ OnServerRandomDone(ops)
  <2> DEFINE op == PlainOp("ecdhe", <<>>)
  <2>1. AllocOrFail(ops, op, "handshake", "read", "requestedEcdhe", <<>>)
    BY <1>1 DEF OnServerRandomDone
  <2>2. op \in CryptoOp /\ op.kind = "ecdhe"
    BY EmptySequences, PlainOpType DEF OpKind, PlainOp
  <2>3. /\ "requestedEcdhe" \notin Ending
        /\ "handshake" \in Epoch /\ "read" \in Direction
    BY DEF Ending, TerminalPhase, Epoch, Direction
  <2> HIDE DEF op
  <2> QED
    BY <1>s, <2>1, <2>2, <2>3, BareAllocConcludes DEF ops
<1>2. CASE /\ hs = "requestedClientFinishedVerify"
           /\ OnClientFinishedVerified(ops)
  <2>1. /\ hs' = "connected" /\ out' = <<Act("reportHandshakeComplete")>>
        /\ KeepOps(ops)
    BY <1>2 DEF OnClientFinishedVerified, MoveTo
  <2> QED
    BY <2>1 DEF Act, TerminalPhase, Concludes, Keeps, ops
<1> QED
  BY <1>1, <1>2, <1>l, <1>s, GatingCases, IgnoreConcludes, EcdheConcludes,
     ScheduleResultConcludes, CertVerifyConcludes, ServerFinishedConcludes
  DEF ops

LEMMA SendConcludes ==
  ASSUME TypeOK, NEW plain \in Bytes, AppSend(plain)
  PROVE  Concludes(pendingOps)
<1> DEFINE n == IF Len(plain) < MaxFragment THEN Len(plain) ELSE MaxFragment
           inner == [ctype |-> "applicationData",
                     content |-> SubSeq(plain, 1, n)]
           op == [kind |-> "aeadSeal", epoch |-> "application",
                  seq |-> writeEpoch.seq, inner |-> inner]
<1>1. SubSeq(plain, 1, n) \in Bytes
  BY MaxFragmentAssumption DEF Bytes
<1>2. inner \in Inner
  BY <1>1 DEF Inner
<1>e. "application" \in Epoch /\ "write" \in Direction
  BY DEF Epoch, Direction
<1> HIDE DEF inner
<1>3. op \in CryptoOp
  BY <1>2, <1>e DEF TypeOK, EpochState, CryptoOp
<1>4. CASE /\ Connected
           /\ Allocate(pendingOps, "aeadSeal", "application", "write")
           /\ writeEpoch' = AdvanceSeq(writeEpoch)
           /\ MoveTo(hs, <<CallCrypto(nextOpId, op), AcceptPlaintext(n)>>)
  <2>1. hs' \notin TerminalPhase /\ Connected
    BY <1>4 DEF MoveTo, Connected, TerminalPhase
  <2>2. SealsNext(op) /\ op.kind = "aeadSeal"
    BY <1>4 DEF SealsNext
  <2>3. /\ 1 \in 1..Len(out') /\ out'[1] = CallCrypto(nextOpId, op)
        /\ \A i \in (1..Len(out')) \ {1} :
             out'[i].act = "acceptPlaintextBytes"
    BY <1>4 DEF MoveTo, AcceptPlaintext
  <2> HIDE DEF op, n
  <2>4. Asks(pendingOps)
    BY <1>3, <1>4, <1>e, <2>1, <2>2, <2>3 DEF Asks
  <2> QED
    BY <2>4 DEF Concludes
<1>5. CASE UNCHANGED <<opVars, writeEpoch>> /\ Fail
  BY <1>5, FailConcludes DEF opVars, KeepOps
<1> QED
  BY <1>4, <1>5 DEF AppSend, inner

LEMMA CloseConcludes ==
  ASSUME TypeOK, CloseStateAgrees, NEW mode \in CloseMode, AppClose(mode)
  PROVE  Concludes(pendingOps)
<1>1. CASE AppCloseGraceful
  <2> DEFINE op == [kind |-> "aeadSeal", epoch |-> "application",
                    seq |-> writeEpoch.seq, inner |-> CloseNotify]
  <2>1. CloseNotify \in Inner
    BY DEF CloseNotify, Inner, Alert
  <2>2. "application" \in Epoch /\ "write" \in Direction
    BY DEF Epoch, Direction
  <2>3. op \in CryptoOp
    BY <2>1, <2>2 DEF TypeOK, EpochState, CryptoOp
  <2>4. \/ Fail /\ UNCHANGED opVars
        \/ /\ Connected /\ hs' = "closing"
           /\ Allocate(pendingOps, "aeadSeal", "application", "write")
           /\ writeEpoch' = AdvanceSeq(writeEpoch)
           /\ out' = <<CallCrypto(nextOpId, op)>>
        \/ /\ UNCHANGED opVars /\ hs' = "closing"
           /\ out' = <<CloseTransport("graceful")>>
    BY <1>1 DEF AppCloseGraceful
  <2>5. CASE /\ Connected /\ hs' = "closing"
             /\ Allocate(pendingOps, "aeadSeal", "application", "write")
             /\ writeEpoch' = AdvanceSeq(writeEpoch)
             /\ out' = <<CallCrypto(nextOpId, op)>>
    <3>1. SealsNext(op) /\ op.kind = "aeadSeal"
      BY <2>5 DEF SealsNext
    <3>2. 1 \in 1..Len(out') /\ (1..Len(out')) \ {1} = {}
      BY <2>5
    <3>3. out'[1] = CallCrypto(nextOpId, op)
      BY <2>5
    <3>4. hs' \notin TerminalPhase
      BY <2>5 DEF TerminalPhase
    <3> HIDE DEF op
    <3>5. Asks(pendingOps)
      BY <2>2, <2>3, <2>5, <3>1, <3>2, <3>3, <3>4 DEF Asks
    <3> QED
      BY <3>5 DEF Concludes
  <2>6. CASE /\ UNCHANGED opVars /\ hs' = "closing"
             /\ out' = <<CloseTransport("graceful")>>
    BY <2>6 DEF opVars, KeepOps, Concludes, Keeps, CloseTransport, Ending,
                TerminalPhase
  <2> HIDE DEF op
  <2> QED
    BY <2>4, <2>5, <2>6, FailConcludes DEF opVars, KeepOps
<1>2. CASE AppCloseFatal
  BY <1>2
  DEF AppCloseFatal, epochVars, opVars, Concludes, Stops, TerminalPhase,
      WriteAlert, Act, CloseTransport
<1>3. CASE AppCloseAbortive
  BY <1>3
  DEF AppCloseAbortive, opVars, Concludes, Stops, TerminalPhase,
      CloseTransport
<1>4. CASE AppCloseAgain(mode)
  <2>1. hs \notin TerminalPhase /\ hs = "closing"
    BY <1>4
    DEF AppCloseAgain, Live, Terminal, TerminalPhase, CloseStateAgrees
  <2> QED
    BY <1>4, <2>1
    DEF AppCloseAgain, MoveTo, opVars, KeepOps, Concludes, Keeps,
        CloseTransport, Ending
<1> QED
  BY <1>1, <1>2, <1>3, <1>4 DEF AppClose

LEMMA RecvConcludes ==
  ASSUME AppRecv
  PROVE  Concludes(pendingOps)
<1>1. /\ hs' = hs /\ hs \notin TerminalPhase /\ KeepOps(pendingOps)
      /\ \/ out' = <<>>
         \/ out' = <<EmitPlaintext(pendingPlain[1])>>
  BY DEF AppRecv, Live, Terminal, opVars, KeepOps
<1>2. Len(out') <= 1
  <2>1. CASE out' = <<>>
    BY <2>1
  <2>2. CASE out' = <<EmitPlaintext(pendingPlain[1])>>
    BY <2>2
  <2> QED
    BY <1>1, <2>1, <2>2, Zenon
<1>3. \A i \in 1..Len(out') : out'[i].act = "emitPlaintext"
  <2>1. CASE out' = <<>>
    BY <2>1
  <2>2. CASE out' = <<EmitPlaintext(pendingPlain[1])>>
    BY <2>2 DEF EmitPlaintext
  <2> QED
    BY <1>1, <2>1, <2>2, Zenon
<1> QED
  BY <1>1, <1>2, <1>3 DEF Concludes, Keeps

LEMMA EventConcludes ==
  ASSUME NEW id, \/ DroppedResult(id) \/ TransportEof \/ Timeout
                 \/ TransportReadable \/ Writable
  PROVE  Concludes(pendingOps)
<1>1. Live /\ KeepOps(pendingOps)
  BY DEF DroppedResult, TransportEof, Timeout, TransportReadable, Writable,
         opVars, KeepOps
<1>2. CASE TransportEof
  BY <1>1, <1>2
  DEF TransportEof, KeepOps, Concludes, Stops, TerminalPhase, Act
<1>3. CASE Fail \/ Ignore \/ MoveTo(hs, <<Act("readTransport")>>)
  BY <1>1, <1>3, FailConcludes, IgnoreConcludes, ReadConcludes
<1> QED
  BY <1>2, <1>3 DEF DroppedResult, Timeout, TransportReadable, Writable

\* Whatever typed input arrives, the step concludes.
LEMMA CoreStepConcludes ==
  ASSUME TypeOK, CloseStateAgrees, CoreStep
  PROVE  Absorb \/ \E ops \in SUBSET pendingOps : Concludes(ops)
<1>1. pendingOps \in SUBSET pendingOps
      /\ \A id : Without(id) \in SUBSET pendingOps
  BY DEF Without
<1>2. CASE \E recs \in Seq(Record) : TransportBytes(recs)
  BY <1>1, <1>2, TransportBytesConcludes
<1>3. CASE \E id \in Nat :
             \/ \E inner \in Inner : AeadOpened(id, inner)
             \/ AeadSealed(id)
             \/ CryptoFailed(id)
             \/ \E result \in GatingAnswer : GatingResult(id, result)
  BY <1>1, <1>3, OpenedConcludes, SealedConcludes, FailedConcludes,
     GatingConcludes DEF Concludes
<1>4. CASE \/ AppRecv
           \/ \E plain \in Bytes : AppSend(plain)
           \/ \E mode \in CloseMode : AppClose(mode)
  BY <1>1, <1>4, RecvConcludes, SendConcludes, CloseConcludes
<1>5. CASE \E id \in Nat :
             \/ DroppedResult(id) \/ TransportEof \/ Timeout
             \/ TransportReadable \/ Writable
  BY <1>1, <1>5, EventConcludes
<1>6. CASE Absorb
  BY <1>6
<1>7. 0 \in Nat
  OBVIOUS
<1> QED
  BY <1>2, <1>3, <1>4, <1>5, <1>6, <1>7 DEF CoreStep, Quiet


-----------------------------------------------------------------------------
(* What a step does to the write key.                                      *)

WriteKeyMoves ==
  \/ UNCHANGED writeEpoch
  \/ /\ Connected /\ hs' \notin TerminalPhase
     /\ writeEpoch' = AdvanceSeq(writeEpoch)
  \/ hs = "requestedEcdhe" /\ writeEpoch' = InstallEpoch("handshake")
  \/ /\ hs = "sentCertificateVerify" /\ hs' = "sentServerFinished"
     /\ writeEpoch' = InstallEpoch("application") /\ out' = <<>>

LEMMA GatingWriteKey ==
  ASSUME NEW id, NEW result \in GatingAnswer, GatingResult(id, result)
  PROVE  WriteKeyMoves
<1> DEFINE ops == Without(id)
<1>1. CASE \/ OnServerRandomDone(ops) \/ OnHsScheduleResult(ops, result)
           \/ OnCertVerifySigned(ops) \/ OnServerFinishedMac(ops)
           \/ OnClientFinishedVerified(ops)
           \/ UNCHANGED <<epochVars, flightVars>>
  BY <1>1
  DEF OnServerRandomDone, OnHsScheduleResult, OnCertVerifySigned,
      OnServerFinishedMac, OnClientFinishedVerified, ScheduleError,
      PumpSchedule, epochVars, WriteKeyMoves
<1>2. CASE hs = "requestedEcdhe" /\ OnEcdheDone(ops)
  BY <1>2 DEF OnEcdheDone, WriteKeyMoves
<1>3. CASE hs = "sentCertificateVerify" /\ OnApScheduleResult(ops, result)
  BY <1>3
  DEF OnApScheduleResult, ScheduleError, PumpSchedule, MoveTo, epochVars,
      WriteKeyMoves
<1> QED
  BY <1>1, <1>2, <1>3, GatingCases

LEMMA CloseWriteKey ==
  ASSUME NEW mode \in CloseMode, AppClose(mode)
  PROVE  WriteKeyMoves
<1>1. CASE AppCloseGraceful
  BY <1>1 DEF AppCloseGraceful, TerminalPhase, WriteKeyMoves
<1>2. CASE AppCloseFatal \/ AppCloseAbortive \/ AppCloseAgain(mode)
  BY <1>2
  DEF AppCloseFatal, AppCloseAbortive, AppCloseAgain, epochVars,
      WriteKeyMoves
<1> QED
  BY <1>1, <1>2 DEF AppClose

\* The write key is installed twice, by the flight, and its number moves only
\* with a seal.
LEMMA CoreStepWriteKey ==
  ASSUME CoreStep
  PROVE  WriteKeyMoves
<1> USE DEF epochVars
<1>1. CASE \E recs \in Seq(Record) : TransportBytes(recs)
  BY <1>1
  DEF TransportBytes, NeedMoreBytes, ProtectedRecord, CcsRecord,
      HandshakeRecord, AlertRecord, InvalidRecord, WriteKeyMoves
<1>2. CASE \E id \in Nat :
             \/ DroppedResult(id)
             \/ \E inner \in Inner : AeadOpened(id, inner)
             \/ AeadSealed(id)
             \/ CryptoFailed(id)
  BY <1>2
  DEF DroppedResult, AeadOpened, AeadOpenedConnected, AeadOpenedHandshake,
      AeadSealed, CryptoFailed, WriteKeyMoves
<1>3. CASE \E id \in Nat : \E result \in GatingAnswer :
             GatingResult(id, result)
  BY <1>3, GatingWriteKey
<1>4. CASE \E plain \in Bytes : AppSend(plain)
  BY <1>4 DEF AppSend, MoveTo, Connected, TerminalPhase, WriteKeyMoves
<1>5. CASE \E mode \in CloseMode : AppClose(mode)
  BY <1>5, CloseWriteKey
<1>6. CASE AppRecv \/ TransportEof \/ Timeout \/ Quiet
  BY <1>6
  DEF AppRecv, TransportEof, Timeout, Quiet, TransportReadable, Writable,
      Absorb, coreVars, WriteKeyMoves
<1> QED
  BY <1>1, <1>2, <1>3, <1>4, <1>5, <1>6 DEF CoreStep


\* A connection that has ended takes every event without an effect.
LEMMA OnlyAbsorbs ==
  ASSUME CoreStep, Terminal
  PROVE  Absorb
<1>1. CASE \E recs \in Seq(Record) : TransportBytes(recs)
  BY <1>1
  DEF TransportBytes, NeedMoreBytes, ProtectedRecord, CcsRecord,
      HandshakeRecord, AlertRecord, InvalidRecord, Framed, Live
<1>2. CASE \E id \in Nat :
             \/ DroppedResult(id)
             \/ \E inner \in Inner : AeadOpened(id, inner)
             \/ AeadSealed(id)
             \/ CryptoFailed(id)
             \/ \E result \in GatingAnswer : GatingResult(id, result)
  BY <1>2
  DEF DroppedResult, AeadOpened, AeadOpenedConnected, AeadOpenedHandshake,
      AeadSealed, CryptoFailed, GatingResult, Outstanding, Live
<1>3. CASE \/ AppRecv \/ \E plain \in Bytes : AppSend(plain)
           \/ \E mode \in CloseMode : AppClose(mode)
           \/ TransportEof \/ Timeout \/ Quiet
  BY <1>3
  DEF AppRecv, AppSend, AppClose, AppCloseGraceful, AppCloseFatal,
      AppCloseAbortive, AppCloseAgain, TransportEof, Timeout, Quiet,
      TransportReadable, Writable, Live
<1> QED
  BY <1>1, <1>2, <1>3 DEF CoreStep
-----------------------------------------------------------------------------
(* What a step of the core has to do with the write keys: nothing, or it   *)
(* writes records of the flight and asks for what comes next, or it ends   *)
(* the application stage of the key schedule.                              *)

\* The phases in which the key schedule runs, and those in which the keys of
\* handshake and application come into use.
Scheduling == {"derivedHandshakeSecrets", "sentCertificateVerify"}
KeyPhase == Scheduling \cup HandshakeKeysReady

\* The handshake write key has been asked for and answered, and records that
\* need it are still to come.
KeyDue ==
  \/ hs = "derivedHandshakeSecrets" /\ keySched.phase = "awaitInstallReadHs"
  \/ hs \in HandshakeKeysReady

\* The application write key has been asked for and answered, and the key
\* schedule is not done.
AppDue == hs = "sentCertificateVerify" /\ keySched.phase = "awaitInstallReadAp"

\* A step that writes no flight record and does not move on to or within the
\* phases of the keys.
OffFlight ==
  /\ \A i \in 1..Len(out') : out'[i].act # "writeHandshake"
  /\ hs' \in KeyPhase =>
       /\ UNCHANGED <<hs, keySched>>
       /\ \A i \in 1..Len(out') : out'[i].act # "callCrypto"
  /\ hs' = "sentServerFinished" => hs = "sentServerFinished"

\* The step with which the key schedule is done.
Completes == AppDue /\ hs' = "sentServerFinished" /\ out' = <<>>

\* A step of the flight: records first, then the one call.
OnFlight ==
  /\ out' # <<>>
  /\ \A i \in 1..Len(out') :
       IF i = Len(out')
       THEN /\ out'[i].act = "callCrypto"
            /\ hs' \in Scheduling => out'[i].op = ScheduleOp(keySched')
       ELSE /\ out'[i].act = "writeHandshake"
            /\ \/ out'[i].msg = "ServerHello"
               \/ out'[i].epoch = "handshake" /\ KeyDue
  /\ KeyDue' =>
       \/ KeyDue
       \/ /\ hs = "derivedHandshakeSecrets"
          /\ keySched.phase = "awaitInstallWriteHs"
  /\ AppDue' => /\ hs = "sentCertificateVerify"
                /\ keySched.phase = "awaitInstallWriteAp"
                /\ Len(out') = 1
  /\ hs' # "sentServerFinished"

LEMMA FailOff ==
  ASSUME Fail
  PROVE  OffFlight
<1>1. hs' \notin KeyPhase
  BY DEF Fail, KeyPhase, Scheduling, HandshakeKeysReady
<1> QED
  BY <1>1 DEF Fail, OffFlight, WriteAlert, Act

\* Whatever is asked for on the way to phase, if no flight record is written.
LEMMA AllocOff ==
  ASSUME NEW ops, NEW op, NEW epoch, NEW dir, NEW phase,
         AllocOrFail(ops, op, epoch, dir, phase, <<>>), phase \notin KeyPhase,
         phase = "sentServerFinished" => hs = phase
  PROVE  OffFlight
<1>1. CASE Room(ops)
  <2>1. out' = Append(<<>>, CallCrypto(nextOpId, op)) /\ hs' = phase
    BY <1>1 DEF AllocOrFail, MoveTo
  <2>2. Append(<<>>, CallCrypto(nextOpId, op)) = <<CallCrypto(nextOpId, op)>>
    OBVIOUS
  <2>3. out' = <<CallCrypto(nextOpId, op)>>
    BY <2>1, <2>2
  <2> QED
    BY <2>1, <2>3 DEF OffFlight, CallCrypto
<1>2. CASE ~Room(ops)
  BY <1>2, FailOff DEF AllocOrFail
<1> QED
  BY <1>1, <1>2

LEMMA AlertOff ==
  ASSUME NEW a \in Alert, OnInboundAlert(a)
  PROVE  OffFlight
<1>1. ASSUME NEW mode, hs' \in {"closing", "failed"},
             out' = <<CloseTransport(mode)>>
      PROVE  OffFlight
  BY <1>1
  DEF OffFlight, CloseTransport, KeyPhase, Scheduling, HandshakeKeysReady
<1>2. CASE a \in {"closeNotify", "fatal"}
  <2>1. \E mode : out' = <<CloseTransport(mode)>>
    BY <1>2 DEF OnInboundAlert
  <2>2. hs' \in {"closing", "failed"}
    BY <1>2 DEF OnInboundAlert
  <2> QED
    BY <1>1, <2>1, <2>2
<1>3. CASE a = "truncated"
  BY <1>3, FailOff DEF OnInboundAlert
<1> QED
  BY <1>2, <1>3 DEF Alert

LEMMA QuietOff ==
  ASSUME UNCHANGED keySched,
         \/ Ignore \/ MoveTo(hs, <<Act("readTransport")>>)
  PROVE  OffFlight
BY DEF Ignore, MoveTo, OffFlight, Act

LEMMA MessageOff ==
  ASSUME NEW m, NEW charged, NEW ops, OnHandshakeMessage(m, charged, ops),
         UNCHANGED keySched
  PROVE  OffFlight
<1>1. CASE hs = "start"
  <2>1. OnClientHello(m, charged, ops)
    BY <1>1 DEF OnHandshakeMessage
  <2>2. Fail \/ AllocOrFail(ops, PlainOp("randomBytes", <<>>),
                           "handshake", "write", "requestedServerRandom",
                           <<>>)
    BY <2>1 DEF OnClientHello
  <2> QED
    BY <2>2, FailOff, AllocOff DEF KeyPhase, Scheduling, HandshakeKeysReady
<1>2. CASE hs = "sentServerFinished"
  <2>1. OnClientFinishedBytes(m, charged, ops)
    BY <1>2 DEF OnHandshakeMessage
  <2> QED
    BY <2>1, AllocOff
    DEF OnClientFinishedBytes, KeyPhase, Scheduling, HandshakeKeysReady
<1>3. CASE hs \notin {"start", "sentServerFinished"}
  BY <1>3, QuietOff DEF OnHandshakeMessage
<1> QED
  BY <1>1, <1>2, <1>3

LEMMA BytesOff ==
  ASSUME TypeOK, NEW recs \in Seq(Record), TransportBytes(recs)
  PROVE  OffFlight
<1> USE DEF flightVars
<1>1. CASE NeedMoreBytes(recs)
  BY <1>1, QuietOff DEF NeedMoreBytes
<1>2. CASE ProtectedRecord(recs)
  <2>1. ASSUME NEW op, NEW epoch,
               hs \in {"connected", "sentServerFinished"},
               AllocOrFail(pendingOps, op, epoch, "read", hs, <<>>)
        PROVE  OffFlight
    BY <2>1, AllocOff DEF KeyPhase, Scheduling, HandshakeKeysReady
  <2> QED
    BY <1>2, <2>1, QuietOff DEF ProtectedRecord
<1>3. CASE CcsRecord(recs)
  BY <1>3, FailOff, QuietOff DEF CcsRecord
<1>4. CASE HandshakeRecord(recs)
  BY <1>4, FailOff, QuietOff, MessageOff DEF HandshakeRecord
<1>5. CASE AlertRecord(recs)
  <2>1. OnInboundAlert(Head(inbound \o recs).alert)
        /\ Framed(recs, {"alert"})
    BY <1>5 DEF AlertRecord
  <2>2. Head(inbound \o recs).alert \in Alert
    <3>1. inbound \in Seq(Record)
      BY DEF TypeOK
    <3>2. /\ Head(inbound \o recs) \in Record
          /\ Head(inbound \o recs).outer \in {"alert"}
      BY <2>1, <3>1, FramedType
    <3> QED
      BY <3>2, RecordFields
  <2> QED
    BY <2>1, <2>2, AlertOff
<1>6. CASE InvalidRecord(recs)
  BY <1>6, FailOff DEF InvalidRecord
<1> QED
  BY <1>1, <1>2, <1>3, <1>4, <1>5, <1>6 DEF TransportBytes

LEMMA RecordsOff ==
  ASSUME NEW id \in Nat,
         \/ DroppedResult(id)
         \/ \E inner \in Inner : AeadOpened(id, inner)
         \/ AeadSealed(id)
         \/ CryptoFailed(id)
  PROVE  OffFlight
<1> USE DEF flightVars
<1>1. CASE DroppedResult(id) \/ CryptoFailed(id)
  BY <1>1, FailOff, QuietOff DEF DroppedResult, CryptoFailed
<1>2. CASE AeadSealed(id)
  BY <1>2
  DEF AeadSealed, MoveTo, OffFlight, WriteTransport, CloseTransport
<1>3. ASSUME NEW inner \in Inner, AeadOpenedConnected(id, inner)
      PROVE  OffFlight
  <2>1. \/ Fail
        \/ inner.ctype = "applicationData" /\ out' = <<>> /\ hs' = hs
        \/ inner.ctype = "alert" /\ OnInboundAlert(inner.alert)
        \/ Ignore
    BY <1>3 DEF AeadOpenedConnected
  <2>2. UNCHANGED keySched
    BY <1>3 DEF AeadOpenedConnected
  <2>3. inner.ctype = "alert" => inner.alert \in Alert
    BY InnerFields
  <2>4. CASE out' = <<>> /\ hs' = hs
    BY <2>2, <2>4 DEF OffFlight
  <2> QED
    BY <2>1, <2>2, <2>3, <2>4, FailOff, AlertOff, QuietOff
<1>4. ASSUME NEW inner \in Inner, AeadOpenedHandshake(id, inner)
      PROVE  OffFlight
  <2>1. \/ Fail \/ Ignore
        \/ OnHandshakeMessage(inner.msg, budgets, Without(id))
        \/ inner.ctype = "alert" /\ OnInboundAlert(inner.alert)
    BY <1>4 DEF AeadOpenedHandshake
  <2>2. UNCHANGED keySched
    BY <1>4 DEF AeadOpenedHandshake
  <2>3. inner.ctype = "alert" => inner.alert \in Alert
    BY InnerFields
  <2> QED
    BY <2>1, <2>2, <2>3, FailOff, AlertOff, QuietOff, MessageOff
<1> QED
  BY <1>1, <1>2, <1>3, <1>4 DEF AeadOpened

LEMMA CallsOff ==
  ASSUME \/ AppRecv
         \/ \E plain \in Bytes : AppSend(plain)
         \/ \E mode \in CloseMode : AppClose(mode)
         \/ TransportEof \/ Timeout \/ Quiet
  PROVE  OffFlight
<1> USE DEF flightVars
<1>1. CASE AppRecv
  BY <1>1 DEF AppRecv, OffFlight, EmitPlaintext
<1>2. CASE \E plain \in Bytes : AppSend(plain)
  <2>1. Fail \/ \E n, op :
          /\ Connected
          /\ MoveTo(hs, <<CallCrypto(nextOpId, op), AcceptPlaintext(n)>>)
    BY <1>2 DEF AppSend
  <2>2. ASSUME NEW n, NEW op, Connected,
               MoveTo(hs, <<CallCrypto(nextOpId, op), AcceptPlaintext(n)>>)
        PROVE  OffFlight
    BY <2>2
    DEF Connected, MoveTo, OffFlight, CallCrypto, AcceptPlaintext, KeyPhase,
        Scheduling, HandshakeKeysReady
  <2> QED
    BY <2>1, <2>2, FailOff
<1>3. ASSUME NEW mode \in CloseMode, AppClose(mode)
      PROVE  OffFlight
  <2>1. CASE AppCloseGraceful
    <3>1. Fail \/ /\ hs' = "closing"
                  /\ \/ out' = <<CloseTransport("graceful")>>
                     \/ \E op : out' = <<CallCrypto(nextOpId, op)>>
      BY <2>1 DEF AppCloseGraceful
    <3>2. CASE /\ hs' = "closing"
               /\ \/ out' = <<CloseTransport("graceful")>>
                  \/ \E op : out' = <<CallCrypto(nextOpId, op)>>
      <4>1. hs' \notin KeyPhase
        BY <3>2 DEF KeyPhase, Scheduling, HandshakeKeysReady
      <4> QED
        BY <3>2, <4>1 DEF OffFlight, CallCrypto, CloseTransport
    <3> QED
      BY <3>1, <3>2, FailOff
  <2>2. CASE AppCloseFatal \/ AppCloseAbortive
    BY <2>2
    DEF AppCloseFatal, AppCloseAbortive, OffFlight, WriteAlert, Act,
        CloseTransport, KeyPhase, Scheduling, HandshakeKeysReady
  <2>3. CASE AppCloseAgain(mode)
    BY <2>3 DEF AppCloseAgain, MoveTo, OffFlight, CloseTransport
  <2> QED
    BY <1>3, <2>1, <2>2, <2>3 DEF AppClose
<1>4. CASE TransportEof
  BY <1>4
  DEF TransportEof, OffFlight, Act, KeyPhase, Scheduling, HandshakeKeysReady
<1>5. CASE Timeout
  BY <1>5, FailOff DEF Timeout
<1>6. CASE TransportReadable \/ Writable
  BY <1>6, QuietOff DEF TransportReadable, Writable
<1>7. CASE Absorb
  BY <1>7 DEF Absorb, coreVars, OffFlight
<1> QED
  BY <1>1, <1>2, <1>3, <1>4, <1>5, <1>6, <1>7 DEF Quiet

\* The outcome of a request that goes with flight records.
LEMMA StageOn ==
  ASSUME NEW ops, NEW op, NEW epoch, NEW dir, NEW phase,
         NEW writes \in Seq(OutputAction),
         AllocOrFail(ops, op, epoch, dir, phase, writes),
         \A i \in 1..Len(writes) :
           /\ writes[i].act = "writeHandshake"
           /\ \/ writes[i].msg = "ServerHello"
              \/ writes[i].epoch = "handshake" /\ KeyDue,
         Room(ops) /\ phase \in Scheduling => op = ScheduleOp(keySched'),
         Room(ops) /\ KeyDue' =>
           \/ KeyDue
           \/ /\ hs = "derivedHandshakeSecrets"
              /\ keySched.phase = "awaitInstallWriteHs",
         Room(ops) /\ AppDue' =>
           /\ hs = "sentCertificateVerify"
           /\ keySched.phase = "awaitInstallWriteAp"
           /\ writes = <<>>,
         phase # "sentServerFinished"
  PROVE  OffFlight \/ OnFlight
<1>1. CASE Room(ops)
  <2> DEFINE c == CallCrypto(nextOpId, op)
             acts == Append(writes, c)
  <2>1. out' = acts /\ hs' = phase
    BY <1>1 DEF AllocOrFail, MoveTo
  <2>2. c.act = "callCrypto" /\ c.op = op
    BY DEF CallCrypto
  <2> HIDE DEF c
  <2>3. /\ Len(acts) = Len(writes) + 1 /\ Len(writes) \in Nat
        /\ acts[Len(writes) + 1] = c
        /\ \A i \in 1..Len(writes) : acts[i] = writes[i]
    BY AppendProperties
  <2>4. acts # <<>>
    <3>1. Len(acts) # 0 /\ \A x : x = <<>> => Len(x) = 0
      BY <2>3
    <3> QED
      BY <3>1
  <2>5. ASSUME NEW i \in 1..Len(acts)
        PROVE  IF i = Len(acts)
               THEN /\ acts[i].act = "callCrypto"
                    /\ phase \in Scheduling =>
                         acts[i].op = ScheduleOp(keySched')
               ELSE /\ acts[i].act = "writeHandshake"
                    /\ \/ acts[i].msg = "ServerHello"
                       \/ acts[i].epoch = "handshake" /\ KeyDue
    <3>1. CASE i = Len(acts)
      <4>1. acts[i] = c
        BY <2>3, <3>1
      <4> QED
        BY <1>1, <2>2, <3>1, <4>1
    <3>2. CASE i # Len(acts)
      <4>1. i \in 1..Len(writes)
        BY <2>3, <3>2
      <4>2. acts[i] = writes[i]
        BY <2>3, <4>1
      <4> QED
        BY <3>2, <4>1, <4>2
    <3> QED
      BY <3>1, <3>2
  <2>6. writes = <<>> => Len(acts) = 1
    BY <2>3
  <2> HIDE DEF acts
  <2>7. AppDue' => Len(out') = 1
    BY <1>1, <2>1, <2>6
  <2>8. OnFlight
    BY <1>1, <2>1, <2>4, <2>5, <2>7 DEF OnFlight
  <2> QED
    BY <2>8
<1>2. CASE ~Room(ops)
  BY <1>2, FailOff DEF AllocOrFail
<1> QED
  BY <1>1, <1>2

\* Which phase of the key schedule leads to which.
LEMMA StageLinks ==
  ASSUME NEW p \in HandshakeStage, NEW answer
  PROVE  /\ Advance(p, answer) = "awaitInstallReadHs" =>
              p = "awaitInstallWriteHs"
         /\ Advance(p, answer) = "handshakeKeysInstalled" =>
              p = "awaitInstallReadHs"
BY DEF Advance, HandshakeStage, AwaitPhase, Paused, Schedule, Awaits

LEMMA AppStageLinks ==
  ASSUME NEW p \in ApplicationStage, NEW answer
  PROVE  /\ Advance(p, answer) = "awaitInstallReadAp" =>
              p = "awaitInstallWriteAp"
         /\ Advance(p, answer) = "complete" => p = "awaitInstallReadAp"
BY DEF Advance, ApplicationStage, AwaitPhase, Paused, Schedule, Awaits

LEMMA GatingOn ==
  ASSUME TypeOK, FlightShape, NEW id, NEW answer \in GatingAnswer,
         GatingResult(id, answer)
  PROVE  OffFlight \/ OnFlight \/ Completes
<1> DEFINE ops == Without(id)
<1> USE DEF flightVars
<1>1. CASE hs = "requestedServerRandom" /\ OnServerRandomDone(ops)
  BY <1>1, AllocOff
  DEF OnServerRandomDone, KeyPhase, Scheduling, HandshakeKeysReady
<1>2. CASE hs = "requestedEcdhe" /\ OnEcdheDone(ops)
  <2> DEFINE ks == [phase |-> "awaitEarly",
                    hsTranscript |-> Append(transcript, "ServerHello"),
                    apTranscript |-> <<>>]
             writes == <<WriteHandshake("initial", 0, "ServerHello")>>
  <2>1. /\ AllocOrFail(ops, ScheduleOp(ks), "handshake", "write",
                       "derivedHandshakeSecrets", writes)
        /\ Room(ops) => keySched' = ks
    BY <1>2 DEF OnEcdheDone
  <2>2. /\ writes \in Seq(OutputAction)
        /\ \A i \in 1..Len(writes) :
             /\ writes[i].act = "writeHandshake"
             /\ writes[i].msg = "ServerHello"
    <3>1. writes \in Seq(OutputAction)
      BY FlightWrites
    <3> QED
      BY <3>1 DEF WriteHandshake
  <2>3. Room(ops) => ~KeyDue' /\ ~AppDue'
    <3>1. CASE Room(ops)
      <4>1. hs' = "derivedHandshakeSecrets" /\ keySched'.phase = "awaitEarly"
        BY <2>1, <3>1 DEF AllocOrFail, MoveTo
      <4> QED
        BY <4>1 DEF KeyDue, AppDue, HandshakeKeysReady
    <3> QED
      BY <3>1
  <2> HIDE DEF ks, writes, ops
  <2> QED
    BY <2>1, <2>2, <2>3, StageOn
<1>3. CASE hs = "derivedHandshakeSecrets" /\ OnHsScheduleResult(ops, answer)
  <2> DEFINE next == Advance(keySched.phase, answer)
             ks == [keySched EXCEPT !.phase = next]
             th == transcript \o <<"EncryptedExtensions", "Certificate">>
             writes == <<WriteHandshake("handshake", 0,
                                        "EncryptedExtensions"),
                         WriteHandshake("handshake", 1, "Certificate")>>
  <2>1. keySched.phase \in HandshakeStage /\ keySched \in KeySched
    BY <1>3 DEF FlightShape, ScheduleShape, TypeOK
  <2>2. /\ next \in {"error", "handshakeKeysInstalled"} \cup HandshakeStage
        /\ next = "awaitInstallReadHs" =>
             keySched.phase = "awaitInstallWriteHs"
        /\ next = "handshakeKeysInstalled" =>
             keySched.phase = "awaitInstallReadHs"
    BY <2>1, StageStep, StageLinks
  <2>3. CASE next = "error"
    BY <1>3, <2>3, FailOff, StagesApart DEF OnHsScheduleResult, ScheduleError
  <2>4. CASE next \in HandshakeStage
    <3>1. /\ AllocOrFail(ops, ScheduleOp(ks), "handshake", "write",
                         "derivedHandshakeSecrets", <<>>)
          /\ Room(ops) => keySched' = ks
      BY <1>3, <2>4, StagesApart
      DEF OnHsScheduleResult, PumpSchedule, AwaitPhase
    <3>2. ks.phase = next
      BY <2>1 DEF KeySched
    <3>3. Room(ops) => ~AppDue' /\ (KeyDue' => next = "awaitInstallReadHs")
      <4>1. CASE Room(ops)
        <5>1. hs' = "derivedHandshakeSecrets" /\ keySched' = ks
          BY <3>1, <4>1 DEF AllocOrFail, MoveTo
        <5> QED
          BY <3>2, <5>1 DEF KeyDue, AppDue, HandshakeKeysReady
      <4> QED
        BY <4>1
    <3>4. /\ <<>> \in Seq(OutputAction)
          /\ \A i \in 1..Len(<<>>) :
               /\ <<>>[i].act = "writeHandshake"
               /\ \/ <<>>[i].msg = "ServerHello"
                  \/ <<>>[i].epoch = "handshake" /\ KeyDue
      OBVIOUS
    <3> HIDE DEF ks, next, ops
    <3> QED
      BY <1>3, <2>2, <3>1, <3>3, <3>4, StageOn
  <2>5. CASE next = "handshakeKeysInstalled"
    <3>1. AllocOrFail(ops, PlainOp("signCertificateVerify", th),
                      "handshake", "write",
                      "requestedCertificateVerifySignature", writes)
      BY <1>3, <2>5, StagesApart DEF OnHsScheduleResult
    <3>2. KeyDue
      BY <1>3, <2>2, <2>5 DEF KeyDue
    <3>3. /\ writes \in Seq(OutputAction)
          /\ \A i \in 1..Len(writes) :
               /\ writes[i].act = "writeHandshake"
               /\ writes[i].epoch = "handshake"
      <4>1. /\ "requestedCertificateVerifySignature" \in KeysInUse
        BY DEF KeysInUse, HandshakeKeysReady
      <4>2. writes \in Seq(OutputAction)
        BY <4>1, FlightWrites
      <4> QED
        BY <4>2 DEF WriteHandshake
    <3>4. Room(ops) => ~AppDue'
      BY <3>1 DEF AllocOrFail, MoveTo, AppDue
    <3> HIDE DEF th, writes, ops
    <3> QED
      BY <3>1, <3>2, <3>3, <3>4, StageOn DEF Scheduling
  <2> HIDE DEF next
  <2> QED
    BY <2>2, <2>3, <2>4, <2>5
<1>4. CASE /\ hs = "requestedCertificateVerifySignature"
           /\ OnCertVerifySigned(ops)
  <2> DEFINE th == Append(transcript, "CertificateVerify")
             writes == <<WriteHandshake("handshake", 2, "CertificateVerify")>>
  <2>1. AllocOrFail(ops, PlainOp("computeServerFinished", th), "handshake",
                    "write", "requestedServerFinishedMac", writes)
    BY <1>4 DEF OnCertVerifySigned
  <2>2. KeyDue
    BY <1>4 DEF KeyDue, HandshakeKeysReady
  <2>3. /\ writes \in Seq(OutputAction)
        /\ \A i \in 1..Len(writes) :
             /\ writes[i].act = "writeHandshake"
             /\ writes[i].epoch = "handshake"
    <3>1. "requestedServerFinishedMac" \in KeysInUse
      BY DEF KeysInUse, HandshakeKeysReady
    <3>2. writes \in Seq(OutputAction)
      BY <3>1, FlightWrites
    <3> QED
      BY <3>2 DEF WriteHandshake
  <2>4. Room(ops) => ~AppDue'
    BY <2>1 DEF AllocOrFail, MoveTo, AppDue
  <2> HIDE DEF th, writes, ops
  <2> QED
    BY <2>1, <2>2, <2>3, <2>4, StageOn DEF Scheduling
<1>5. CASE hs = "requestedServerFinishedMac" /\ OnServerFinishedMac(ops)
  <2> DEFINE th == Append(transcript, "ServerFinished")
             ks == [keySched EXCEPT !.phase = "awaitDerivedMs",
                                    !.apTranscript = th]
             writes == <<WriteHandshake("handshake", 3, "ServerFinished")>>
  <2>1. \/ Fail
        \/ /\ AllocOrFail(ops, ScheduleOp(ks), "application", "write",
                          "sentCertificateVerify", writes)
           /\ Room(ops) => keySched' = ks
    BY <1>5 DEF OnServerFinishedMac, ScheduleError
  <2>2. KeyDue
    BY <1>5 DEF KeyDue, HandshakeKeysReady
  <2>3. /\ writes \in Seq(OutputAction)
        /\ \A i \in 1..Len(writes) :
             /\ writes[i].act = "writeHandshake"
             /\ writes[i].epoch = "handshake"
    <3>1. "sentCertificateVerify" \in KeysInUse
      BY DEF KeysInUse
    <3>2. writes \in Seq(OutputAction)
      BY <3>1, FlightWrites
    <3> QED
      BY <3>2 DEF WriteHandshake
  <2>4. ks.phase # "awaitInstallReadAp"
    BY DEF TypeOK, KeySched
  <2>5. keySched' = ks => ~AppDue'
    BY <2>4 DEF AppDue
  <2> HIDE DEF th, ks, writes, ops
  <2> QED
    BY <2>1, <2>2, <2>3, <2>5, FailOff, StageOn
<1>6. CASE hs = "sentCertificateVerify" /\ OnApScheduleResult(ops, answer)
  <2> DEFINE next == Advance(keySched.phase, answer)
             ks == [keySched EXCEPT !.phase = next]
  <2>1. keySched.phase \in ApplicationStage /\ keySched \in KeySched
    BY <1>6 DEF FlightShape, ScheduleShape, TypeOK
  <2>2. /\ next \in {"error", "complete"} \cup ApplicationStage
        /\ next = "awaitInstallReadAp" =>
             keySched.phase = "awaitInstallWriteAp"
        /\ next = "complete" => keySched.phase = "awaitInstallReadAp"
    BY <2>1, StageStep, AppStageLinks
  <2>3. CASE next = "error"
    BY <1>6, <2>3, FailOff, StagesApart DEF OnApScheduleResult, ScheduleError
  <2>4. CASE next \in ApplicationStage
    <3>1. /\ AllocOrFail(ops, ScheduleOp(ks), "application", "write",
                         "sentCertificateVerify", <<>>)
          /\ Room(ops) => keySched' = ks
      BY <1>6, <2>4, StagesApart
      DEF OnApScheduleResult, PumpSchedule, AwaitPhase
    <3>2. ks.phase = next
      BY <2>1 DEF KeySched
    <3>3. Room(ops) => ~KeyDue' /\ (AppDue' => next = "awaitInstallReadAp")
      <4>1. CASE Room(ops)
        <5>1. hs' = "sentCertificateVerify" /\ keySched' = ks
          BY <3>1, <4>1 DEF AllocOrFail, MoveTo
        <5> QED
          BY <3>2, <5>1 DEF KeyDue, AppDue, HandshakeKeysReady
      <4> QED
        BY <4>1
    <3>4. /\ <<>> \in Seq(OutputAction)
          /\ \A i \in 1..Len(<<>>) :
               /\ <<>>[i].act = "writeHandshake"
               /\ \/ <<>>[i].msg = "ServerHello"
                  \/ <<>>[i].epoch = "handshake" /\ KeyDue
      OBVIOUS
    <3> HIDE DEF ks, next, ops
    <3> QED
      BY <1>6, <2>2, <3>1, <3>3, <3>4, StageOn
  <2>5. CASE next = "complete"
    <3>1. MoveTo("sentServerFinished", <<>>)
      BY <1>6, <2>5, StagesApart DEF OnApScheduleResult
    <3> QED
      BY <1>6, <2>2, <2>5, <3>1 DEF MoveTo, Completes, AppDue
  <2> HIDE DEF next
  <2> QED
    BY <2>2, <2>3, <2>4, <2>5
<1>7. CASE OnClientFinishedVerified(ops)
  BY <1>7
  DEF OnClientFinishedVerified, MoveTo, OffFlight, Act, KeyPhase,
      Scheduling, HandshakeKeysReady
<1>8. CASE Ignore /\ UNCHANGED <<epochVars, flightVars>>
  BY <1>8, QuietOff
<1> QED
  BY <1>1, <1>2, <1>3, <1>4, <1>5, <1>6, <1>7, <1>8, GatingCases
=============================================================================
