-------------------------- MODULE TlsDeliveryProofs --------------------------
(***************************************************************************)
(* Proofs about what the connection delivers.  The plaintext of the peer   *)
(* reaches the caller of recv once and in order: at every point of a drive *)
(* what was returned, what waits in the runtime, what is on its way there  *)
(* and what the core holds are, end to end, the plaintext of the records   *)
(* opened so far.  From this, from the accounts of what was sealed and     *)
(* from where the write key is, the connection implements SecureChannel:   *)
(* every step of core, interpreter and caller is one of the channel's or   *)
(* leaves the channel alone.                                               *)
(***************************************************************************)
EXTENDS TlsConnProofs, ListFacts

-----------------------------------------------------------------------------
(* Reading.  What a step of the core has to do with plaintext: it leaves it *)
(* alone, hands it to the runtime, reads on, or takes an opened record.    *)

OpenCall(action) == action.act = "callCrypto" /\ action.op.kind = "aeadOpen"
OpenAnswer(e) == e.ev = "cryptoResult" /\ e.call.op.kind = "aeadOpen"

ReadAction(action) == action.act = "readTransport" \/ OpenCall(action)
Transports(e) == e.ev \in {"transportReadable", "transportBytes"}
ReadEvent(e) == Transports(e) \/ OpenAnswer(e)

\* Nothing is read or handed over, and what waits is kept or lost for good.
NoReads ==
  \A i \in 1..Len(out') :
    ~ReadAction(out'[i]) /\ out'[i].act # "emitPlaintext"

KeepsPlain ==
  /\ pendingPlain' = pendingPlain \/ (pendingPlain' = <<>> /\ ~Connected')
  /\ Connected' => IF Connected THEN UNCHANGED readEpoch
                                ELSE readEpoch'.seq = 0

Leaves == NoReads /\ KeepsPlain

Takes ==
  /\ UNCHANGED <<hs, readEpoch>>
  /\ pendingPlain' = IF Connected THEN <<>> ELSE pendingPlain
  /\ out' = IF Connected /\ pendingPlain # <<>>
            THEN <<EmitPlaintext(pendingPlain[1])>> ELSE <<>>

\* The records the core has when those of e arrive.
Incoming(e) == inbound \o e.recs

\* What the core asks to open: the record at hand, under the number it is at.
AsksToOpen(op, e) ==
  /\ e.ev = "transportBytes" /\ Incoming(e) # <<>>
  /\ Head(Incoming(e)).outer = "applicationData"
  /\ op.body = Head(Incoming(e)).body
  /\ op.epoch = readEpoch.epoch /\ op.seq = readEpoch.seq

Reads(e) ==
  /\ Transports(e)
  /\ UNCHANGED <<hs, readEpoch, pendingPlain>>
  /\ Len(out') = 1 /\ out'[1].act # "emitPlaintext"
  /\ OpenCall(out'[1]) => AsksToOpen(out'[1].op, e)

Arrives(op) ==
  /\ Connected /\ UNCHANGED hs /\ Opens(op)
  /\ op.body.inner.ctype = "applicationData"
  /\ pendingPlain' = <<op.body.inner.content>>
  /\ readEpoch' = AdvanceSeq(readEpoch)
  /\ out' = <<>>

-----------------------------------------------------------------------------
LEMMA FailLeaves ==
  ASSUME Fail
  PROVE  Leaves
<1>1. ~Connected'
  BY DEF Fail, Connected
<1>2. NoReads
  BY DEF Fail, NoReads, ReadAction, OpenCall, WriteAlert, Act
<1> QED
  BY <1>1, <1>2 DEF Fail, Leaves, KeepsPlain

LEMMA IgnoreLeaves ==
  ASSUME Ignore, Connected => UNCHANGED readEpoch
  PROVE  Leaves
BY DEF Ignore, MoveTo, Leaves, NoReads, KeepsPlain, Connected

LEMMA EndLeaves ==
  ASSUME hs' # "connected", pendingPlain' \in {pendingPlain, <<>>}, NoReads
  PROVE  Leaves
BY DEF Leaves, KeepsPlain, Connected

\* A call for anything but an opened record, behind records of the flight.
LEMMA AllocLeaves ==
  ASSUME NEW ops, NEW op, NEW epoch, NEW dir, NEW phase,
         NEW writes \in Seq(OutputAction),
         \A i \in 1..Len(writes) : writes[i].act = "writeHandshake",
         AllocOrFail(ops, op, epoch, dir, phase, writes),
         op.kind # "aeadOpen", phase # "connected"
  PROVE  Leaves
<1>1. CASE ~Room(ops)
  BY <1>1, FailLeaves DEF AllocOrFail
<1>2. CASE Room(ops)
  <2>1. /\ hs' = phase /\ UNCHANGED pendingPlain
        /\ out' = Append(writes, CallCrypto(nextOpId, op))
    BY <1>2 DEF AllocOrFail, MoveTo
  <2>2. PICK a : a = CallCrypto(nextOpId, op)
    OBVIOUS
  <2>3. a.act = "callCrypto" /\ a.op = op
    BY <2>2 DEF CallCrypto
  <2>4. \A i \in 1..Len(out') :
          \/ out'[i].act = "writeHandshake"
          \/ out'[i] = a
    BY <2>1, <2>2
  <2>5. NoReads
    BY <2>3, <2>4 DEF NoReads, ReadAction, OpenCall
  <2> QED
    BY <2>1, <2>5, EndLeaves
<1> QED
  BY <1>1, <1>2

LEMMA BareAllocLeaves ==
  ASSUME NEW ops, NEW op, NEW epoch, NEW dir, NEW phase,
         AllocOrFail(ops, op, epoch, dir, phase, <<>>),
         op.kind # "aeadOpen", phase # "connected"
  PROVE  Leaves
<1>1. <<>> \in Seq(OutputAction) /\ Len(<<>>) = 0
  OBVIOUS
<1>2. \A i \in 1..Len(<<>>) : <<>>[i].act = "writeHandshake"
  BY <1>1
<1> QED
  BY <1>1, <1>2, AllocLeaves

LEMMA AlertLeaves ==
  ASSUME NEW a \in Alert, OnInboundAlert(a)
  PROVE  Leaves
<1>1. CASE a \in {"closeNotify", "fatal"}
  <2>1. \E mode : out' = <<CloseTransport(mode)>>
    BY <1>1 DEF OnInboundAlert
  <2>2. NoReads
    BY <2>1 DEF NoReads, ReadAction, OpenCall, CloseTransport
  <2>3. hs' # "connected" /\ pendingPlain' \in {pendingPlain, <<>>}
    BY <1>1 DEF OnInboundAlert
  <2> QED
    BY <2>2, <2>3, EndLeaves
<1>2. CASE a = "truncated"
  BY <1>2, FailLeaves DEF OnInboundAlert
<1> QED
  BY <1>1, <1>2 DEF Alert

LEMMA MessageLeaves ==
  ASSUME NEW m, NEW charged, NEW ops, OnHandshakeMessage(m, charged, ops),
         Connected => UNCHANGED readEpoch
  PROVE  Leaves
<1>1. CASE hs = "start"
  <2>1. OnClientHello(m, charged, ops)
    BY <1>1 DEF OnHandshakeMessage
  <2>2. Fail \/ AllocOrFail(ops, PlainOp("randomBytes", <<>>),
                           "handshake", "write", "requestedServerRandom",
                           <<>>)
    BY <2>1 DEF OnClientHello
  <2>3. PlainOp("randomBytes", <<>>).kind # "aeadOpen"
    BY DEF PlainOp
  <2> QED
    BY <2>2, <2>3, FailLeaves, BareAllocLeaves
<1>2. CASE hs = "sentServerFinished"
  <2> PICK op : op = [kind |-> "verifyFinished", prefix |-> transcript,
                      msg |-> m]
    OBVIOUS
  <2>1. AllocOrFail(ops, op, "application", "read",
                    "requestedClientFinishedVerify", <<>>)
    BY <1>2 DEF OnHandshakeMessage, OnClientFinishedBytes
  <2>2. op.kind # "aeadOpen"
    OBVIOUS
  <2> QED
    BY <2>1, <2>2, BareAllocLeaves
<1>3. CASE hs \notin {"start", "sentServerFinished"}
  BY <1>3, IgnoreLeaves DEF OnHandshakeMessage
<1> QED
  BY <1>1, <1>2, <1>3

LEMMA FlightAllocLeaves ==
  ASSUME NEW ops, NEW op, NEW epoch, NEW dir, NEW phase, NEW writes,
         \/ writes = <<>>
         \/ writes = <<WriteHandshake("initial", 0, "ServerHello")>>
         \/ /\ phase \in KeysInUse
            /\ \/ writes = <<WriteHandshake("handshake", 0,
                                           "EncryptedExtensions"),
                            WriteHandshake("handshake", 1, "Certificate")>>
               \/ writes = <<WriteHandshake("handshake", 2,
                                           "CertificateVerify")>>
               \/ writes = <<WriteHandshake("handshake", 3, "ServerFinished")>>,
         AllocOrFail(ops, op, epoch, dir, phase, writes),
         op.kind # "aeadOpen", phase # "connected"
  PROVE  Leaves
<1>1. /\ writes \in Seq(OutputAction)
      /\ \A i \in 1..Len(writes) : writes[i].act = "writeHandshake"
  BY FlightWrites DEF FlightRecord
<1> QED
  BY <1>1, AllocLeaves

LEMMA ScheduleNotOpen ==
  ASSUME NEW ks, ks.phase \in AwaitPhase
  PROVE  ScheduleOp(ks).kind # "aeadOpen"
<1>1. Schedule(ks.phase).kind # "aeadOpen"
  BY ScheduleType
<1> QED
  BY <1>1 DEF ScheduleOp

LEMMA GatingLeaves ==
  ASSUME TypeOK, NEW id, NEW answer \in GatingAnswer, GatingResult(id, answer)
  PROVE  Leaves
<1> PICK ops : ops = Without(id)
  OBVIOUS
<1>0. /\ \A kind, prefix : PlainOp(kind, prefix).kind = kind
      /\ keySched \in KeySched
      /\ {"requestedServerFinishedMac", "sentCertificateVerify",
          "requestedCertificateVerifySignature"} \subseteq KeysInUse
  BY DEF PlainOp, TypeOK, KeysInUse, HandshakeKeysReady
<1>1. CASE hs = "requestedServerRandom" /\ OnServerRandomDone(ops)
  BY <1>0, <1>1, BareAllocLeaves DEF OnServerRandomDone
<1>2. CASE hs = "requestedEcdhe" /\ OnEcdheDone(ops)
  <2> PICK ks : ks = [phase |-> "awaitEarly",
                      hsTranscript |-> Append(transcript, "ServerHello"),
                      apTranscript |-> <<>>]
    OBVIOUS
  <2>1. AllocOrFail(ops, ScheduleOp(ks), "handshake", "write",
                    "derivedHandshakeSecrets",
                    <<WriteHandshake("initial", 0, "ServerHello")>>)
    BY <1>2 DEF OnEcdheDone
  <2>2. ScheduleOp(ks).kind # "aeadOpen"
    BY ScheduleNotOpen DEF AwaitPhase, HandshakeStage
  <2> QED
    BY <2>1, <2>2, FlightAllocLeaves
<1>3. ASSUME NEW next, NEW ks, NEW epoch,
             next = Advance(keySched.phase, answer),
             ks = [keySched EXCEPT !.phase = next],
             next \in AwaitPhase, hs # "connected",
             PumpSchedule(ops, ks, epoch)
      PROVE  Leaves
  <2>1. ks.phase \in AwaitPhase
    BY <1>0, <1>3 DEF KeySched
  <2> PICK phase : phase = hs
    OBVIOUS
  <2> PICK op : op = ScheduleOp(ks)
    OBVIOUS
  <2>2. AllocOrFail(ops, op, epoch, "write", phase, <<>>)
    BY <1>3 DEF PumpSchedule
  <2>3. op.kind # "aeadOpen"
    BY <2>1, ScheduleNotOpen
  <2>4. phase # "connected"
    BY <1>3
  <2> QED
    BY <2>2, <2>3, <2>4, BareAllocLeaves
<1> PICK next : next = Advance(keySched.phase, answer)
  OBVIOUS
<1> PICK ks : ks = [keySched EXCEPT !.phase = next]
  OBVIOUS
<1>4. CASE hs = "derivedHandshakeSecrets" /\ OnHsScheduleResult(ops, answer)
  <2> PICK th : th = transcript \o <<"EncryptedExtensions", "Certificate">>
    OBVIOUS
  <2>1. CASE next = "error"
    BY <1>4, <2>1, FailLeaves, StagesApart
    DEF OnHsScheduleResult, ScheduleError
  <2>2. CASE next \in AwaitPhase /\ next # "error"
    BY <1>3, <1>4, <2>2, StagesApart DEF OnHsScheduleResult
  <2>3. CASE next = "handshakeKeysInstalled" /\ next \notin AwaitPhase
    <3>1. AllocOrFail(ops, PlainOp("signCertificateVerify", th),
                  "handshake", "write", "requestedCertificateVerifySignature",
                  <<WriteHandshake("handshake", 0, "EncryptedExtensions"),
                    WriteHandshake("handshake", 1, "Certificate")>>)
      BY <1>4, <2>3 DEF OnHsScheduleResult
    <3> QED
      BY <1>0, <3>1, FlightAllocLeaves
  <2>4. CASE next \notin {"error", "handshakeKeysInstalled"} \cup AwaitPhase
    <3>1. Ignore
      BY <1>4, <2>4 DEF OnHsScheduleResult
    <3> QED
      BY <1>4, <3>1, IgnoreLeaves DEF Connected
  <2> QED
    BY <2>1, <2>2, <2>3, <2>4
<1>5. CASE /\ hs = "requestedCertificateVerifySignature"
           /\ OnCertVerifySigned(ops)
  <2>1. \E th : AllocOrFail(ops, PlainOp("computeServerFinished", th),
           "handshake", "write", "requestedServerFinishedMac",
           <<WriteHandshake("handshake", 2, "CertificateVerify")>>)
    BY <1>5 DEF OnCertVerifySigned
  <2> QED
    BY <1>0, <2>1, FlightAllocLeaves
<1>6. CASE hs = "requestedServerFinishedMac" /\ OnServerFinishedMac(ops)
  <2> PICK af : af = [keySched EXCEPT !.phase = "awaitDerivedMs",
                        !.apTranscript = Append(transcript, "ServerFinished")]
    OBVIOUS
  <2>1. \/ Fail
        \/ AllocOrFail(ops, ScheduleOp(af), "application", "write",
                       "sentCertificateVerify",
                       <<WriteHandshake("handshake", 3, "ServerFinished")>>)
    BY <1>6 DEF OnServerFinishedMac, ScheduleError
  <2>2. af.phase = "awaitDerivedMs"
    BY <1>0 DEF KeySched
  <2>3. ScheduleOp(af).kind # "aeadOpen"
    BY <2>2, ScheduleNotOpen DEF AwaitPhase, ApplicationStage
  <2> QED
    BY <1>0, <2>1, <2>3, FailLeaves, FlightAllocLeaves
<1>7. CASE hs = "sentCertificateVerify" /\ OnApScheduleResult(ops, answer)
  <2>1. CASE next = "error"
    BY <1>7, <2>1, FailLeaves, StagesApart
    DEF OnApScheduleResult, ScheduleError
  <2>2. CASE next \in AwaitPhase /\ next # "error"
    BY <1>3, <1>7, <2>2, StagesApart DEF OnApScheduleResult
  <2>3. CASE next = "complete" /\ next \notin AwaitPhase
    <3>1. MoveTo("sentServerFinished", <<>>)
      BY <1>7, <2>3 DEF OnApScheduleResult
    <3> QED
      BY <3>1, EndLeaves DEF MoveTo, NoReads
  <2>4. CASE next \notin {"error", "complete"} \cup AwaitPhase
    <3>1. Ignore
      BY <1>7, <2>4 DEF OnApScheduleResult
    <3> QED
      BY <1>7, <3>1, IgnoreLeaves DEF Connected
  <2> QED
    BY <2>1, <2>2, <2>3, <2>4
<1>8. CASE /\ hs = "requestedClientFinishedVerify"
           /\ OnClientFinishedVerified(ops)
  <2>1. /\ readEpoch'.seq = 0 /\ pendingPlain' = pendingPlain
        /\ out' = <<Act("reportHandshakeComplete")>>
    BY <1>8 DEF OnClientFinishedVerified, InstallEpoch, MoveTo
  <2>2. NoReads
    BY <2>1 DEF NoReads, ReadAction, OpenCall, Act
  <2> QED
    BY <1>8, <2>1, <2>2 DEF Leaves, KeepsPlain, Connected
<1>9. CASE Ignore /\ UNCHANGED epochVars
  BY <1>9, IgnoreLeaves DEF epochVars
<1> QED
  BY <1>1, <1>2, <1>4, <1>5, <1>6, <1>7, <1>8, <1>9, GatingCases

LEMMA ReadsOn ==
  ASSUME NEW e, Transports(e), MoveTo(hs, <<Act("readTransport")>>),
         UNCHANGED readEpoch
  PROVE  Reads(e)
<1>1. Act("readTransport") = [act |-> "readTransport"]
  BY DEF Act
<1> QED
  BY <1>1 DEF MoveTo, Reads, OpenCall

LEMMA BytesReads ==
  ASSUME TypeOK, NEW e \in AnEvent, e.ev = "transportBytes",
         TransportBytes(e.recs)
  PROVE  Leaves \/ Reads(e)
<1> PICK recs : recs = e.recs
  OBVIOUS
<1>0. /\ TransportBytes(recs) /\ recs \in Seq(Record) /\ Transports(e)
      /\ Incoming(e) = inbound \o recs /\ inbound \in Seq(Record)
  BY EventFields DEF Incoming, TypeOK, Transports
<1>1. CASE NeedMoreBytes(recs)
  BY <1>0, <1>1, ReadsOn DEF NeedMoreBytes, epochVars
<1>2. CASE ProtectedRecord(recs)
  <2> PICK op : op = [kind |-> "aeadOpen", epoch |-> readEpoch.epoch,
                      seq |-> readEpoch.seq,
                      body |-> Head(Incoming(e)).body]
    OBVIOUS
  <2>1. /\ UNCHANGED readEpoch
        /\ Incoming(e) # <<>> /\ Head(Incoming(e)).outer = "applicationData"
    BY <1>0, <1>2 DEF ProtectedRecord, Framed, epochVars
  <2>2. CASE hs \notin {"connected", "sentServerFinished"}
    BY <1>2, <2>1, <2>2, IgnoreLeaves DEF ProtectedRecord
  <2>3. CASE hs \in {"connected", "sentServerFinished"}
    <3>1. \E epoch : AllocOrFail(pendingOps, op, epoch, "read", hs, <<>>)
      BY <1>0, <1>2, <2>3 DEF ProtectedRecord
    <3>2. CASE ~Room(pendingOps)
      BY <3>1, <3>2, FailLeaves DEF AllocOrFail
    <3>3. CASE Room(pendingOps)
      <4>1. UNCHANGED <<hs, pendingPlain>>
            /\ out' = Append(<<>>, CallCrypto(nextOpId, op))
        BY <3>1, <3>3 DEF AllocOrFail, MoveTo
      <4> PICK a : a = CallCrypto(nextOpId, op)
        OBVIOUS
      <4>2. a.act = "callCrypto" /\ a.op = op /\ out' = <<a>>
        BY <4>1 DEF CallCrypto
      <4>3. AsksToOpen(op, e)
        BY <2>1 DEF AsksToOpen
      <4>4. Len(out') = 1 /\ out'[1] = a
        BY <4>2
      <4> QED
        BY <1>0, <2>1, <4>1, <4>2, <4>3, <4>4 DEF Reads
    <3> QED
      BY <3>2, <3>3
  <2> QED
    BY <2>2, <2>3
<1>3. CASE CcsRecord(recs)
  BY <1>3, FailLeaves, IgnoreLeaves DEF CcsRecord, epochVars
<1>4. CASE HandshakeRecord(recs)
  <2>1. UNCHANGED readEpoch
    BY <1>4 DEF HandshakeRecord, epochVars
  <2>2. \/ \E m, charged : OnHandshakeMessage(m, charged, pendingOps)
        \/ Fail
        \/ MoveTo(hs, <<Act("readTransport")>>)
    BY <1>4 DEF HandshakeRecord
  <2>3. ASSUME NEW m, NEW charged, OnHandshakeMessage(m, charged, pendingOps)
        PROVE  Leaves
    <3> PICK ops : ops = pendingOps
      OBVIOUS
    <3>1. OnHandshakeMessage(m, charged, ops)
      BY <2>3
    <3> QED
      BY <2>1, <3>1, MessageLeaves
  <2> QED
    BY <1>0, <2>1, <2>2, <2>3, FailLeaves, ReadsOn
<1>5. CASE AlertRecord(recs)
  <2> DEFINE all == inbound \o recs
  <2>1. /\ all # <<>> /\ Head(all).outer = "alert"
        /\ OnInboundAlert(Head(all).alert)
    BY <1>5 DEF AlertRecord, Framed
  <2>2. all \in Seq(Record)
    BY <1>0
  <2> HIDE DEF all
  <2>3. Head(all) \in Record
    BY <2>1, <2>2
  <2> PICK a : a = Head(all).alert
    OBVIOUS
  <2>4. a \in Alert /\ OnInboundAlert(a)
    BY <2>1, <2>3, RecordFields
  <2> QED
    BY <2>4, AlertLeaves
<1>6. CASE InvalidRecord(recs)
  BY <1>6, FailLeaves DEF InvalidRecord
<1> QED
  BY <1>0, <1>1, <1>2, <1>3, <1>4, <1>5, <1>6 DEF TransportBytes

\* An opened record is taken, ends the connection or is of no consequence.
LEMMA OpenedReads ==
  ASSUME TypeOK, NEW op, op.body.inner \in Inner, Opens(op), NEW id,
         AeadOpened(id, op.body.inner)
  PROVE  Leaves \/ Arrives(op)
<1> PICK inner : inner = op.body.inner
  OBVIOUS
<1>0. /\ AeadOpened(id, inner) /\ inner \in Inner
      /\ inner.ctype = "alert" => inner.alert \in Alert
  BY InnerFields
<1>1. CASE AeadOpenedConnected(id, inner)
  <2>0. Connected
    BY <1>1 DEF AeadOpenedConnected
  <2>1. CASE inner.ctype = "applicationData" /\ ~SeqExhausted(readEpoch)
    <3>1. /\ pendingPlain' = <<inner.content>>
          /\ readEpoch' = AdvanceSeq(readEpoch)
          /\ out' = <<>> /\ UNCHANGED hs
      BY <1>1, <2>1 DEF AeadOpenedConnected
    <3> QED
      BY <2>0, <2>1, <3>1 DEF Arrives
  <2>2. CASE inner.ctype = "alert"
    <3>1. OnInboundAlert(inner.alert)
      BY <1>1, <2>2 DEF AeadOpenedConnected
    <3> QED
      BY <1>0, <2>2, <3>1, AlertLeaves
  <2>3. CASE ~(inner.ctype = "applicationData" /\ ~SeqExhausted(readEpoch))
             /\ inner.ctype # "alert"
    <3>1. UNCHANGED readEpoch /\ (Fail \/ Ignore)
      BY <1>1, <2>3 DEF AeadOpenedConnected
    <3> QED
      BY <3>1, FailLeaves, IgnoreLeaves
  <2> QED
    BY <2>1, <2>2, <2>3
<1>2. CASE AeadOpenedHandshake(id, inner)
  <2>0. ~Connected
    BY <1>2 DEF AeadOpenedHandshake
  <2>1. CASE inner.ctype = "handshake" /\ ~SeqExhausted(readEpoch)
    <3>1. \E m, charged, ops : OnHandshakeMessage(m, charged, ops)
      BY <1>2, <2>1 DEF AeadOpenedHandshake
    <3> QED
      BY <2>0, <3>1, MessageLeaves
  <2>2. CASE ~(inner.ctype = "handshake" /\ ~SeqExhausted(readEpoch))
    <3>1. \/ inner.ctype = "alert" /\ OnInboundAlert(inner.alert)
          \/ Ignore \/ Fail
      BY <1>2, <2>2 DEF AeadOpenedHandshake
    <3> QED
      BY <1>0, <2>0, <3>1, AlertLeaves, FailLeaves, IgnoreLeaves
  <2> QED
    BY <2>1, <2>2
<1> QED
  BY <1>0, <1>1, <1>2 DEF AeadOpened

LEMMA OffersLeave ==
  ASSUME \/ \E plain : AppSend(plain)
         \/ \E mode : AppClose(mode)
  PROVE  Leaves
<1>1. ASSUME NEW plain, AppSend(plain)
      PROVE  Leaves
  <2>1. CASE Fail
    BY <2>1, FailLeaves
  <2>2. CASE ~Fail
    <3>1. /\ UNCHANGED <<hs, pendingPlain, readEpoch>>
          /\ \E op, n : /\ op.kind = "aeadSeal"
                        /\ out' = <<CallCrypto(nextOpId, op),
                                    AcceptPlaintext(n)>>
      BY <1>1, <2>2 DEF AppSend, MoveTo
    <3>2. NoReads
      BY <3>1 DEF NoReads, ReadAction, OpenCall, CallCrypto, AcceptPlaintext
    <3> QED
      BY <3>1, <3>2 DEF Leaves, KeepsPlain, Connected
  <2> QED
    BY <2>1, <2>2
<1>2. ASSUME NEW mode, AppClose(mode)
      PROVE  Leaves
  <2>1. CASE AppCloseGraceful
    <3>1. CASE Fail
      BY <3>1, FailLeaves
    <3>2. CASE ~Fail
      <4>1. /\ hs' = "closing" /\ pendingPlain' = <<>>
            /\ \/ out' = <<CloseTransport("graceful")>>
               \/ \E op : /\ op.kind = "aeadSeal"
                          /\ out' = <<CallCrypto(nextOpId, op)>>
        BY <2>1, <3>2 DEF AppCloseGraceful
      <4>2. NoReads
        BY <4>1 DEF NoReads, ReadAction, OpenCall, CallCrypto, CloseTransport
      <4> QED
        BY <4>1, <4>2, EndLeaves
    <3> QED
      BY <3>1, <3>2
  <2>2. CASE AppCloseFatal
    <3>1. NoReads
      BY <2>2
      DEF AppCloseFatal, NoReads, ReadAction, OpenCall, WriteAlert, Act,
          CloseTransport
    <3> QED
      BY <2>2, <3>1, EndLeaves DEF AppCloseFatal
  <2>3. CASE AppCloseAbortive
    <3>1. NoReads
      BY <2>3
      DEF AppCloseAbortive, NoReads, ReadAction, OpenCall, CloseTransport
    <3> QED
      BY <2>3, <3>1, EndLeaves DEF AppCloseAbortive
  <2>4. CASE AppCloseAgain(mode)
    <3>1. NoReads
      BY <2>4
      DEF AppCloseAgain, MoveTo, NoReads, ReadAction, OpenCall, CloseTransport
    <3> QED
      BY <2>4, <3>1
      DEF AppCloseAgain, MoveTo, epochVars, Leaves, KeepsPlain, Connected
  <2> QED
    BY <1>2, <2>1, <2>2, <2>3, <2>4 DEF AppClose
<1> QED
  BY <1>1, <1>2

\* Every event: the core leaves the plaintext, hands it over, reads on, or
\* takes the content of a record that opened.
LEMMA EventReads ==
  ASSUME TypeOK, NEW e \in AnEvent, Handle(e)
  PROVE  \/ e.ev # "appRecv" /\ Leaves
         \/ e.ev = "appRecv" /\ Takes
         \/ Reads(e)
         \/ OpenAnswer(e) /\ e.ok /\ Arrives(e.call.op)
<1>0. hs \in TerminalPhase => hs # "connected"
  BY DEF TerminalPhase
<1>1. CASE Absorb
  <2>1. UNCHANGED <<hs, readEpoch, pendingPlain>> /\ out' = <<>>
        /\ ~Connected
    BY <1>0, <1>1 DEF Absorb, coreVars, Terminal, Connected
  <2>2. Takes
    BY <2>1 DEF Takes
  <2>3. Leaves
    BY <2>1 DEF Leaves, NoReads, KeepsPlain, Connected
  <2> QED
    BY <2>2, <2>3
<1>2. CASE e.ev = "appRecv" /\ AppRecv
  BY <1>2 DEF AppRecv, Takes, epochVars
<1>3. CASE e.ev = "appSend" /\ AppSend(e.plain)
  BY <1>3, OffersLeave
<1>4. CASE e.ev = "appClose" /\ AppClose(e.mode)
  BY <1>4, OffersLeave
<1>5. CASE e.ev # "appRecv" /\ (Writable \/ Timeout)
  BY <1>5, FailLeaves, IgnoreLeaves DEF Writable, Timeout, epochVars
<1>6. CASE e.ev = "transportReadable" /\ TransportReadable
  BY <1>6, ReadsOn DEF TransportReadable, Transports, epochVars
<1>7. CASE e.ev = "transportBytes" /\ TransportBytes(e.recs)
  BY <1>7, BytesReads
<1>8. CASE e.ev # "appRecv" /\ TransportEof
  <2>1. out' = <<Act("reportError")>> /\ hs' = "failed"
        /\ pendingPlain' = <<>>
    BY <1>8 DEF TransportEof
  <2>2. NoReads
    BY <2>1 DEF NoReads, ReadAction, OpenCall, Act
  <2> QED
    BY <1>8, <2>1, <2>2, EndLeaves
<1>9. CASE /\ e.ev = "cryptoResult"
           /\ DroppedResult(e.call.id) \/ CryptoFailed(e.call.id)
  BY <1>9, FailLeaves, IgnoreLeaves
  DEF DroppedResult, CryptoFailed, epochVars
<1>10. CASE e.ev = "cryptoResult" /\ e.ok /\ Succeeds(e.call)
  <2>1. e.call \in Request /\ e.call.op \in CryptoOp
    BY <1>10, EventFields DEF Request
  <2> PICK op : op = e.call.op
    OBVIOUS
  <2> PICK id : id = e.call.id
    OBVIOUS
  <2>2. CASE op.kind = "aeadSeal"
    <3>1. AeadSealed(id)
      BY <1>10, <2>2 DEF Succeeds
    <3>2. UNCHANGED <<hs, pendingPlain, readEpoch>>
          /\ \A i \in 1..Len(out') :
               out'[i].act \in {"writeTransport", "closeTransport"}
      BY <3>1
      DEF AeadSealed, MoveTo, epochVars, WriteTransport, CloseTransport
    <3>3. Leaves
      BY <3>2
      DEF Leaves, NoReads, KeepsPlain, Connected, ReadAction, OpenCall
    <3> QED
      BY <1>10, <3>3
  <2>3. CASE op.kind = "aeadOpen"
    <3>1. Opens(op) /\ AeadOpened(id, op.body.inner)
      BY <1>10, <2>3 DEF Succeeds
    <3>2. op.body \in Sealed
      BY <2>1, <2>3 DEF CryptoOp
    <3>3. op.body.inner \in Inner
      BY <3>2, SealedAssumption
    <3>4. Leaves \/ Arrives(op)
      BY <3>1, <3>3, OpenedReads
    <3> QED
      BY <1>10, <2>3, <3>4 DEF OpenAnswer
  <2>4. CASE op.kind \notin {"aeadSeal", "aeadOpen"}
    <3>1. \E answer : GatingResult(id, answer) /\ answer \in GatingAnswer
      <4>1. op.kind \in GatingKind
        BY <2>1, <2>4, OpKindType DEF GatingKind
      <4>2. GatingResult(id, AnswerTo(op.kind))
        BY <1>10, <2>4 DEF Succeeds, AnswerTo
      <4>3. AnswerTo(op.kind) \in GatingAnswer
        BY <4>1 DEF GatingAnswer
      <4> QED
        BY <4>2, <4>3
    <3>2. PICK answer \in GatingAnswer : GatingResult(id, answer)
      BY <3>1
    <3>3. Leaves
      BY <3>2, GatingLeaves
    <3> QED
      BY <1>10, <3>3
  <2> QED
    BY <2>2, <2>3, <2>4
<1> QED
  BY <1>1, <1>2, <1>3, <1>4, <1>5, <1>6, <1>7, <1>8, <1>9, <1>10 DEF Handle

\* The records kept for later are of those kept before and those that arrive.
LEMMA InboundMoves ==
  ASSUME TypeOK, NEW e \in AnEvent, Handle(e)
  PROVE  \/ inbound' = inbound
         \/ /\ e.ev = "transportBytes" /\ Incoming(e) # <<>>
            /\ inbound' \in {Incoming(e), Tail(Incoming(e))}
<1> USE DEF bufferVars
<1>1. CASE e.ev = "transportBytes" /\ TransportBytes(e.recs)
  <2>1. CASE NeedMoreBytes(e.recs)
    BY <2>1 DEF NeedMoreBytes
  <2>2. ASSUME NEW outer, Framed(e.recs, outer)
        PROVE  /\ Incoming(e) # <<>>
               /\ inbound' \in {Incoming(e), Tail(Incoming(e))}
    BY <2>2 DEF Framed, Incoming
  <2>3. CASE ~NeedMoreBytes(e.recs)
    <3>1. \E outer : Framed(e.recs, outer)
      BY <1>1, <2>3
      DEF TransportBytes, ProtectedRecord, CcsRecord, HandshakeRecord,
          AlertRecord, InvalidRecord
    <3> QED
      BY <1>1, <2>2, <3>1
  <2> QED
    BY <2>1, <2>3
<1>2. CASE Absorb \/ AppRecv \/ Writable \/ TransportReadable
           \/ TransportEof \/ Timeout
  BY <1>2 DEF Absorb, coreVars, AppRecv, Writable, TransportReadable,
     TransportEof, Timeout
<1>3. CASE AppSend(e.plain) \/ AppClose(e.mode)
  BY <1>3 DEF AppSend, AppClose, AppCloseGraceful, AppCloseFatal,
     AppCloseAbortive, AppCloseAgain
<1>4. CASE CryptoFailed(e.call.id) \/ DroppedResult(e.call.id)
  BY <1>4 DEF CryptoFailed, DroppedResult
<1>5. CASE e.ev = "cryptoResult" /\ Succeeds(e.call)
  <2>1. e.call \in Request
    BY <1>5, EventFields
  <2>2. \/ AeadSealed(e.call.id)
        \/ \E inner \in Inner : AeadOpened(e.call.id, inner)
        \/ \E answer \in GatingAnswer : GatingResult(e.call.id, answer)
    BY <1>5, <2>1, SucceedsAnswers
  <2> QED
    BY <2>2
    DEF AeadSealed, AeadOpened, AeadOpenedConnected, AeadOpenedHandshake,
        GatingResult
<1> QED
  BY <1>1, <1>2, <1>3, <1>4, <1>5 DEF Handle

-----------------------------------------------------------------------------
(* Delivery.  The plaintext of the peer's stream, and what has arrived.    *)

\* The plaintext in each record of a stream.
Contents(stream) ==
  [i \in 1..Len(stream) |->
     IF stream[i].ctype = "applicationData" THEN stream[i].content ELSE <<>>]

\* The plaintext of the first n records of the peer, and of all of them.
Upto(n) == FlattenSeq(SubSeq(Contents(peer), 1, n))
Whole == FlattenSeq(Contents(peer))

Buffered == OrNothing(rt.plaintextOut) \o Emitting \o OrNothing(pendingPlain)
Arrived == received \o Buffered

Asking == call \in {"recv", "retry"}

\* What the network can hand over at all.
Known(body) == body = Forged \/ body \in PeerBodies(peer)
Genuine(recs) ==
  \A i \in 1..Len(recs) :
    recs[i].outer = "applicationData" => Known(recs[i].body)

\* A call to open asks for a record the network handed over, under the number
\* the core is at.
InStep(op) ==
  /\ Known(op.body)
  /\ op.epoch = readEpoch.epoch /\ op.seq = readEpoch.seq

BodiesShape ==
  /\ Genuine(inbound)
  /\ \A i \in 1..Len(Queue) :
       /\ Queue[i].ev = "transportBytes" => Genuine(Queue[i].recs)
       /\ OpenAnswer(Queue[i]) => InStep(Queue[i].call.op) /\ Rest = {}
  /\ \A i \in Rest : OpenCall(out[i]) => InStep(out[i].op) /\ Len(out) = 1

\* Only recv reads the transport, and only when the core holds no plaintext.
Reading ==
  \/ \E i \in 1..Len(Queue) : ReadEvent(Queue[i])
  \/ \E i \in Rest : ReadAction(out[i])

PullShape == Reading => call = "pull" /\ (Connected => pendingPlain = <<>>)

\* Plaintext moves from the core over the runtime to the caller in one drive.
PlainShape ==
  /\ rt.plaintextOut # <<>> =>
       Asking /\ Queue = <<>> /\ Rest = {} /\ pendingPlain = <<>>
  /\ \A i \in Rest : out[i].act = "emitPlaintext" =>
       /\ Asking /\ Queue = <<>> /\ Len(out) = 1
       /\ pendingPlain = <<>> /\ rt.plaintextOut = <<>>
  /\ Asking => \A i \in Rest : out[i].act = "emitPlaintext"
  /\ \A i \in 1..Len(Queue) : Queue[i].ev = "appRecv" <=> Asking
  /\ Asking /\ Queue # <<>> => fuel > 0
  /\ call = "recv" /\ Queue = <<>> /\ Connected => pendingPlain = <<>>

\* What has arrived is what the records opened so far hold, and whatever is
\* left of it once the connection has ended is a beginning of the stream.
CountShape ==
  /\ Early => Arrived = <<>>
  /\ Connected => readEpoch.seq <= Len(peer) /\ Arrived = Upto(readEpoch.seq)
  /\ \E rest \in Bytes : Whole = Arrived \o rest

DeliveryInv ==
  /\ ConnInv /\ ChainShape /\ CallsShape /\ EarlyShape
  /\ BodiesShape /\ PullShape /\ PlainShape /\ CountShape

-----------------------------------------------------------------------------
(* What a step of the core does to the three shapes.                       *)

LEMMA GenuineParts ==
  ASSUME NEW a \in Seq(Record), NEW b \in Seq(Record), Genuine(a), Genuine(b)
  PROVE  /\ Genuine(a \o b)
         /\ a \o b # <<>> => Genuine(Tail(a \o b))
<1> DEFINE c == a \o b
<1>1. /\ c \in Seq(Record) /\ Len(c) = Len(a) + Len(b)
      /\ \A i \in 1..Len(c) :
           c[i] = IF i <= Len(a) THEN a[i] ELSE b[i - Len(a)]
  OBVIOUS
<1>2. \A i \in 1..Len(c) : \/ \E j \in 1..Len(a) : c[i] = a[j]
                           \/ \E j \in 1..Len(b) : c[i] = b[j]
  <2>1. Len(a) \in Nat /\ Len(b) \in Nat
    OBVIOUS
  <2> SUFFICES ASSUME NEW i \in 1..Len(c)
               PROVE  \/ \E j \in 1..Len(a) : c[i] = a[j]
                      \/ \E j \in 1..Len(b) : c[i] = b[j]
    OBVIOUS
  <2>2. CASE i <= Len(a)
    BY <1>1, <2>1, <2>2
  <2>3. CASE i > Len(a)
    <3>1. i - Len(a) \in 1..Len(b)
      BY <1>1, <2>1, <2>3
    <3> QED
      BY <1>1, <2>1, <2>3, <3>1
  <2> QED
    BY <1>1, <2>1, <2>2, <2>3
<1> HIDE DEF c
<1>3. Genuine(c)
  BY <1>2 DEF Genuine
<1>4. ASSUME c # <<>>
      PROVE  Genuine(Tail(c))
  <2>1. \A i \in 1..Len(Tail(c)) : i + 1 \in 1..Len(c) /\ Tail(c)[i] = c[i + 1]
    BY <1>1, <1>4
  <2> QED
    BY <1>3, <2>1 DEF Genuine
<1> QED
  BY <1>3, <1>4 DEF c

\* What is known and asked for rests on peer and read number alone.
LEMMA KnownKept ==
  ASSUME peer' = peer
  PROVE  /\ \A recs : Genuine(recs) => Genuine(recs)'
         /\ \A op : UNCHANGED readEpoch /\ InStep(op) => InStep(op)'
BY DEF Genuine, InStep, Known

LEMMA StepBodies ==
  ASSUME ConnInv, ChainShape, BodiesShape, Step
  PROVE  BodiesShape'
<1>1. /\ Len(Queue) = 1 /\ Queue[1] \in AnEvent /\ Handle(Queue[1])
      /\ Queue' = <<>> /\ Rest' = 1..Len(out') /\ TypeOK /\ peer' = peer
  BY StepFacts DEF CoreInv, Step
<1> PICK e : e = Queue[1]
  OBVIOUS
<1>2. e \in AnEvent /\ Handle(e)
  BY <1>1
<1> PICK recs : recs = e.recs
  OBVIOUS
<1>3. /\ Genuine(inbound) /\ inbound \in Seq(Record)
      /\ e.ev = "transportBytes" =>
           /\ recs \in Seq(Record) /\ Genuine(recs)
           /\ Incoming(e) = inbound \o recs
  BY <1>1, <1>2, EventFields DEF BodiesShape, TypeOK, Incoming
<1>4. Genuine(inbound')
  <2>1. CASE inbound' = inbound
    BY <1>3, <2>1
  <2>2. CASE /\ e.ev = "transportBytes" /\ Incoming(e) # <<>>
             /\ inbound' \in {Incoming(e), Tail(Incoming(e))}
    BY <1>3, <2>2, GenuineParts
  <2> QED
    BY <1>1, <1>2, <2>1, <2>2, InboundMoves
<1>5. ASSUME NEW i \in 1..Len(out'), OpenCall(out'[i])
      PROVE  InStep(out'[i].op) /\ Len(out') = 1 /\ UNCHANGED readEpoch
  <2>1. CASE Reads(e)
    <3>1. Len(out') = 1 /\ i = 1 /\ AsksToOpen(out'[i].op, e)
          /\ UNCHANGED readEpoch
      BY <1>5, <2>1 DEF Reads
    <3> PICK all : all = Incoming(e)
      OBVIOUS
    <3>2. /\ e.ev = "transportBytes" /\ all # <<>>
          /\ Head(all).outer = "applicationData"
          /\ out'[i].op.body = Head(all).body
      BY <3>1 DEF AsksToOpen
    <3>5. all = inbound \o recs
      BY <1>3, <3>2
    <3>6. all \in Seq(Record) /\ Genuine(all)
      BY <1>3, <3>2, <3>5, GenuineParts
    <3>3. 1 \in 1..Len(all) /\ Head(all) = all[1]
      BY <3>2, <3>6
    <3>4. Known(out'[i].op.body)
      BY <3>2, <3>3, <3>6 DEF Genuine
    <3> QED
      BY <3>1, <3>4 DEF InStep, AsksToOpen
  <2>2. CASE Leaves
    BY <1>5, <2>2 DEF Leaves, NoReads, ReadAction
  <2>3. CASE Takes
    BY <1>5, <2>3 DEF Takes, OpenCall, EmitPlaintext
  <2>4. CASE Arrives(e.call.op)
    BY <1>5, <2>4 DEF Arrives
  <2> QED
    BY <1>1, <1>2, <2>1, <2>2, <2>3, <2>4, EventReads
<1>6. Genuine(inbound)'
  BY <1>1, <1>4, KnownKept DEF Genuine, Known
<1>7. \A i \in Rest' : OpenCall(out'[i]) => InStep(out[i].op)' /\ Len(out') = 1
  BY <1>1, <1>5 DEF InStep, Known
<1> QED
  BY <1>1, <1>6, <1>7 DEF BodiesShape, OpenCall

LEMMA StepPull ==
  ASSUME ConnInv, ChainShape, PullShape, Step
  PROVE  PullShape'
<1>1. /\ Len(Queue) = 1 /\ Queue[1] \in AnEvent /\ Handle(Queue[1])
      /\ Queue' = <<>> /\ Rest' = 1..Len(out') /\ TypeOK /\ call' = call
  BY StepFacts DEF CoreInv
<1> PICK e : e = Queue[1]
  OBVIOUS
<1>2. CASE Reads(e)
  <2>1. ReadEvent(Queue[1])
    BY <1>2 DEF Reads, ReadEvent
  <2>2. Reading
    BY <1>1, <2>1 DEF Reading
  <2>3. UNCHANGED <<hs, pendingPlain>>
    BY <1>2 DEF Reads
  <2> QED
    BY <1>1, <2>2, <2>3 DEF PullShape, Connected
<1>3. CASE ~Reads(e)
  <2>1. \A i \in 1..Len(out') : ~ReadAction(out'[i])
    <3>1. CASE Leaves
      BY <3>1 DEF Leaves, NoReads
    <3>2. CASE Takes
      BY <3>2 DEF Takes, ReadAction, OpenCall, EmitPlaintext
    <3>3. CASE Arrives(e.call.op)
      BY <3>3 DEF Arrives
    <3> QED
      BY <1>1, <1>3, <3>1, <3>2, <3>3, EventReads
  <2>2. ~Reading'
    BY <1>1, <2>1 DEF Reading, ReadAction, OpenCall
  <2> QED
    BY <2>2 DEF PullShape
<1> QED
  BY <1>2, <1>3

LEMMA StepPlain ==
  ASSUME ConnInv, ChainShape, PlainShape, Step
  PROVE  PlainShape'
<1>1. /\ Len(Queue) = 1 /\ Queue[1] \in AnEvent /\ Handle(Queue[1])
      /\ Queue' = <<>> /\ Rest' = 1..Len(out') /\ TypeOK
      /\ call' = call /\ rt' = rt
  BY StepFacts DEF CoreInv
<1> PICK e : e = Queue[1]
  OBVIOUS
<1>2. /\ rt.plaintextOut = <<>> /\ (e.ev = "appRecv" <=> Asking)
      /\ Asking' = Asking
  BY <1>1 DEF PlainShape, Asking
<1>3. Asking => Takes
  BY <1>1, <1>2, EventReads DEF Reads, Transports, OpenAnswer
<1>4. \A i \in 1..Len(out') : out'[i].act = "emitPlaintext" =>
        Asking /\ Len(out') = 1 /\ pendingPlain' = <<>>
  <2>1. CASE Takes /\ Asking
    BY <2>1 DEF Takes
  <2>2. CASE Leaves
    BY <2>2 DEF Leaves, NoReads
  <2>3. CASE Reads(e)
    BY <2>3 DEF Reads
  <2>4. CASE Arrives(e.call.op)
    BY <2>4 DEF Arrives
  <2> QED
    BY <1>1, <1>2, <2>1, <2>2, <2>3, <2>4, EventReads
<1>5. Asking => \A i \in 1..Len(out') : out'[i].act = "emitPlaintext"
  BY <1>3 DEF Takes, EmitPlaintext
<1>6. Asking /\ Connected' => pendingPlain' = <<>>
  BY <1>3 DEF Takes, Connected
<1> QED
  BY <1>1, <1>2, <1>4, <1>5, <1>6 DEF PlainShape, Asking

-----------------------------------------------------------------------------
(* What arrives.                                                           *)

LEMMA BytesNothing ==
  ASSUME NEW b \in Bytes
  PROVE  <<>> \o b = b /\ b \o <<>> = b /\ <<>> \in Bytes
BY DEF Bytes

LEMMA BytesAssoc ==
  ASSUME NEW a \in Bytes, NEW b \in Bytes, NEW c \in Bytes
  PROVE  a \o b \in Bytes /\ (a \o b) \o c = a \o (b \o c)
BY DEF Bytes

LEMMA BufferParts ==
  ASSUME ConnInv
  PROVE  /\ OrNothing(rt.plaintextOut) \in Bytes
         /\ OrNothing(pendingPlain) \in Bytes
         /\ Emitting \in Bytes /\ Buffered \in Bytes
         /\ received \in Bytes /\ Arrived \in Bytes
         /\ Performed => Emitting = <<>>
<1>1. /\ ConnType /\ rt.plaintextOut \in Seq(Bytes)
      /\ pendingPlain \in Seq(Bytes) /\ received \in Bytes
  BY DEF ConnInv, ConnType, CoreInv, TypeOK, RuntimeType, Runtime
<1>2. \A b \in Seq(Bytes) : OrNothing(b) \in Bytes
  <2>1. <<>> \in Bytes
    BY DEF Bytes
  <2>2. \A b \in Seq(Bytes) : b # <<>> => b[1] \in Bytes
    OBVIOUS
  <2> QED
    BY <2>1, <2>2 DEF OrNothing
<1>3. Emitting \in Bytes
  <2>1. CASE ~Performed /\ Current.act = "emitPlaintext"
    <3>1. performed < Len(out)
      BY <1>1, <2>1 DEF Performed, ConnType, DriveType, CoreInv, TypeOK
    <3>2. Current.content \in Bytes
      BY <1>1, <2>1, <3>1, CurrentType, ActionFields
    <3> QED
      BY <2>1, <3>2 DEF Emitting
  <2> QED
    BY <2>1 DEF Emitting, Bytes
<1>4. Buffered \in Bytes
  BY <1>1, <1>2, <1>3, BytesAssoc DEF Buffered
<1>5. Arrived \in Bytes
  BY <1>1, <1>4, BytesAssoc DEF Arrived
<1>6. Performed => Emitting = <<>>
  BY DEF Emitting
<1> QED
  BY <1>1, <1>2, <1>3, <1>4, <1>5, <1>6

LEMMA NothingBefore ==
  ASSUME NEW a, NEW b, NEW c \in Bytes, a = <<>>, b = <<>>
  PROVE  a \o b \o c = c
BY BytesNothing

LEMMA StreamType ==
  ASSUME ConnInv
  PROVE  /\ peer \in Seq(Inner) /\ Len(peer) \in Nat
         /\ Contents(peer) \in Seq(Bytes) /\ Contents(peer) \in Seq(Seq(Nat))
         /\ Len(Contents(peer)) = Len(peer)
         /\ Upto(0) = <<>>
<1>1. peer \in Seq(Inner)
  BY StreamsAssumption DEF ConnInv, ConnType, RuntimeType
<1>2. \A i \in 1..Len(peer) : Contents(peer)[i] \in Bytes
  <2> SUFFICES ASSUME NEW i \in 1..Len(peer)
               PROVE  Contents(peer)[i] \in Bytes
    OBVIOUS
  <2>1. peer[i] \in Inner
    BY <1>1
  <2>2. peer[i].ctype = "applicationData" => peer[i].content \in Bytes
    BY <2>1, InnerFields
  <2> QED
    BY <2>2, BytesNothing DEF Contents, Bytes
<1>3. Contents(peer) \in Seq(Bytes) /\ Len(Contents(peer)) = Len(peer)
  <2>1. Len(peer) \in Nat
    BY <1>1
  <2>2. Contents(peer) = [i \in 1..Len(peer) |-> Contents(peer)[i]]
    BY Zenon DEF Contents
  <2>3. \A f : f = [i \in 1..Len(peer) |-> f[i]]
               /\ (\A i \in 1..Len(peer) : f[i] \in Bytes) =>
          f \in Seq(Bytes) /\ Len(f) = Len(peer)
    BY <2>1
  <2> QED
    BY <1>2, <2>2, <2>3, Zenon
<1>4. Upto(0) = <<>>
  <2>1. SubSeq(Contents(peer), 1, 0) = <<>>
    BY <1>3
  <2> QED
    BY <2>1, FlattenEmpty DEF Upto
<1> QED
  BY <1>1, <1>3, <1>4 DEF Bytes

\* A record of the peer's stream is opened while nothing waits.
Comes ==
  /\ Len(Queue) = 1 /\ OpenAnswer(Queue[1]) /\ Queue[1].ok
  /\ Connected /\ UNCHANGED hs
  /\ Buffered = <<>>
  /\ readEpoch.seq < Len(peer) /\ readEpoch'.seq = readEpoch.seq + 1
  /\ Buffered' = Contents(peer)[readEpoch.seq + 1]

LEMMA BodyOpened ==
  ASSUME NEW op, Known(op.body), Opens(op),
         op.body.inner.ctype = "applicationData", peer \in Seq(Inner)
  PROVE  /\ op.seq + 1 \in 1..Len(peer) /\ op.seq \in Nat
         /\ op.body.inner = peer[op.seq + 1]
<1> PICK body : body = op.body
  OBVIOUS
<1>1. /\ body \in PeerBodies(peer) /\ body.seq = op.seq
      /\ body.inner.ctype = "applicationData"
  BY DEF Known, Opens
<1>2. body # FinishedBody
  BY <1>1 DEF FinishedBody, Body
<1>3. PICK i \in 1..Len(peer) : body = Body("application", i - 1, peer[i])
  BY <1>1, <1>2 DEF PeerBodies
<1>4. body.seq = i - 1 /\ body.inner = peer[i]
  BY <1>3 DEF Body
<1>5. Len(peer) \in Nat
  OBVIOUS
<1>6. op.seq = i - 1 /\ op.seq \in Nat /\ op.seq + 1 = i
  BY <1>1, <1>4, <1>5
<1> QED
  BY <1>4, <1>6

LEMMA StepBuffer ==
  ASSUME ConnInv, ChainShape, BodiesShape, PullShape, PlainShape, Step
  PROVE  /\ received' = received /\ peer' = peer
         /\ \/ /\ Buffered' = Buffered
               /\ Connected' => IF Connected THEN UNCHANGED readEpoch
                                             ELSE readEpoch'.seq = 0
            \/ Buffered' = <<>> /\ ~Connected'
            \/ Comes
<1>1. /\ Len(Queue) = 1 /\ Queue[1] \in AnEvent /\ Handle(Queue[1])
      /\ Rest' = 1..Len(out') /\ TypeOK /\ rt' = rt /\ received' = received
      /\ Rest = {} /\ performed' = 0 /\ out' \in Seq(OutputAction)
      /\ Performed /\ peer' = peer
  BY StepFacts DEF CoreInv, Step
<1>2. ConnInv'
  BY StepConn
<1> PICK e : e = Queue[1]
  OBVIOUS
<1>3. /\ OrNothing(pendingPlain) \in Bytes
      /\ OrNothing(pendingPlain') \in Bytes
      /\ rt'.plaintextOut = <<>> /\ Emitting = <<>> /\ rt.plaintextOut = <<>>
  <2>0. Queue # <<>>
    BY DEF Step, Queue
  <2>1. rt.plaintextOut = <<>>
    BY <2>0 DEF PlainShape
  <2>2. pendingPlain' \in Seq(Bytes)
    BY <1>2 DEF ConnInv, ConnType, CoreInv, TypeOK
  <2>3. OrNothing(pendingPlain') \in Bytes
    <3>1. pendingPlain' # <<>> => pendingPlain'[1] \in Bytes
      BY <2>2
    <3> QED
      BY <3>1 DEF OrNothing, Bytes
  <2> QED
    BY <1>1, <2>1, <2>3, BufferParts
<1>4. Buffered = OrNothing(pendingPlain)
  BY <1>3, NothingBefore DEF Buffered, OrNothing
<1>5. Emitting' = <<>> => Buffered' = OrNothing(pendingPlain')
  BY <1>3, NothingBefore DEF Buffered, OrNothing
<1>6. ASSUME \A i \in 1..Len(out') : out'[i].act # "emitPlaintext"
      PROVE  Emitting' = <<>>
  <2>1. Len(out') \in Nat /\ (Len(out') # 0 => 1 \in 1..Len(out'))
    BY <1>1
  <2>2. Performed' \/ (Current.act # "emitPlaintext")'
    BY <1>1, <1>6, <2>1 DEF Performed, Current
  <2> QED
    BY <2>2 DEF Emitting
<1>7. CASE Leaves
  <2>1. Buffered' = OrNothing(pendingPlain')
    BY <1>5, <1>6, <1>7 DEF Leaves, NoReads
  <2>2. CASE pendingPlain' = pendingPlain
    BY <1>1, <1>4, <1>7, <2>1, <2>2 DEF Leaves, KeepsPlain
  <2>3. CASE pendingPlain' = <<>> /\ ~Connected'
    <3>1. OrNothing(pendingPlain') = <<>>
      BY <2>3 DEF OrNothing
    <3> QED
      BY <1>1, <2>1, <2>3, <3>1
  <2> QED
    BY <1>7, <2>2, <2>3 DEF Leaves, KeepsPlain
<1>8. CASE Takes
  <2>0. Connected' = Connected /\ UNCHANGED readEpoch
    BY <1>8 DEF Takes, Connected
  <2>1. CASE Connected /\ pendingPlain # <<>>
    <3>1. /\ pendingPlain' = <<>>
          /\ out' = <<EmitPlaintext(pendingPlain[1])>>
      BY <1>8, <2>1 DEF Takes
    <3>2. Len(out') = 1 /\ out'[0 + 1] = EmitPlaintext(pendingPlain[1])
      BY <3>1
    <3>3. Emitting' = pendingPlain[1]
      BY <1>1, <3>2 DEF Emitting, Performed, Current, EmitPlaintext
    <3>4. OrNothing(pendingPlain') = <<>> /\ OrNothing(rt'.plaintextOut) = <<>>
          /\ OrNothing(pendingPlain) = pendingPlain[1]
      BY <1>3, <2>1, <3>1 DEF OrNothing
    <3>5. Buffered' = <<>> \o pendingPlain[1] \o <<>>
      BY <3>3, <3>4 DEF Buffered
    <3>6. pendingPlain[1] \in Bytes
      BY <1>3, <3>4
    <3>7. Buffered' = pendingPlain[1]
      BY <3>5, <3>6, BytesNothing
    <3> QED
      BY <1>1, <1>4, <2>0, <3>4, <3>7
  <2>2. CASE ~(Connected /\ pendingPlain # <<>>)
    <3>1. pendingPlain' = pendingPlain /\ out' = <<>>
      BY <1>8, <2>2 DEF Takes
    <3>2. Buffered' = OrNothing(pendingPlain')
      BY <1>5, <1>6, <3>1
    <3> QED
      BY <1>1, <1>4, <2>0, <3>1, <3>2
  <2> QED
    BY <2>1, <2>2
<1>9. CASE Reads(e)
  <2>1. Buffered' = OrNothing(pendingPlain')
    BY <1>5, <1>6, <1>9 DEF Reads
  <2>2. UNCHANGED <<hs, readEpoch, pendingPlain>>
    BY <1>9 DEF Reads
  <2> QED
    BY <1>1, <1>4, <2>1, <2>2 DEF Connected
<1>10. CASE OpenAnswer(e) /\ e.ok /\ Arrives(e.call.op)
  <2> PICK op : op = e.call.op
    OBVIOUS
  <2>1. InStep(op) /\ Reading
    BY <1>1, <1>10 DEF BodiesShape, Reading, ReadEvent
  <2>2. Connected /\ UNCHANGED hs /\ pendingPlain = <<>>
    BY <1>10, <2>1 DEF PullShape, Arrives
  <2>3. Opens(op) /\ op.body.inner.ctype = "applicationData"
        /\ pendingPlain' = <<op.body.inner.content>> /\ out' = <<>>
        /\ readEpoch' = AdvanceSeq(readEpoch)
    BY <1>10 DEF Arrives
  <2>4. peer \in Seq(Inner)
    BY StreamType
  <2>5. /\ op.seq + 1 \in 1..Len(peer) /\ op.seq \in Nat
        /\ op.body.inner = peer[op.seq + 1] /\ op.seq = readEpoch.seq
    BY <2>1, <2>3, <2>4, BodyOpened DEF InStep
  <2>6. Contents(peer)[op.seq + 1] = op.body.inner.content
    BY <2>3, <2>5 DEF Contents
  <2>7. Buffered' = op.body.inner.content
    <3>1. Buffered' = OrNothing(pendingPlain')
      BY <1>5, <1>6, <2>3
    <3>2. OrNothing(pendingPlain') = op.body.inner.content
      BY <2>3 DEF OrNothing
    <3> QED
      BY <3>1, <3>2
  <2>8. Buffered = <<>>
    BY <1>4, <2>2 DEF OrNothing
  <2>9. readEpoch'.seq = readEpoch.seq + 1
    BY <1>1, <2>3 DEF AdvanceSeq, TypeOK, EpochState
  <2>10. readEpoch.seq < Len(peer)
    BY <2>4, <2>5
  <2> QED
    BY <1>1, <1>10, <2>2, <2>5, <2>6, <2>7, <2>8, <2>9, <2>10 DEF Comes
<1> QED
  BY <1>1, <1>7, <1>8, <1>9, <1>10, EventReads

-----------------------------------------------------------------------------
(* The interpreter.                                                        *)

LEMMA ExecRuntime ==
  ASSUME ConnInv, Execute
  PROVE  /\ UNCHANGED <<vars, peer, call, fuel, received>>
         /\ rt'.plaintextOut = IF Current.act = "emitPlaintext"
                               THEN <<Current.content>> ELSE rt.plaintextOut
<1> USE DEF Perform, wireVars
<1>0. UNCHANGED <<vars, peer, call, fuel, callerVars>> /\ RuntimeType
  BY ExecuteCarried DEF Carried, ConnInv, ConnType
<1>1. rt \in Runtime
  BY <1>0 DEF RuntimeType
<1> SUFFICES rt'.plaintextOut = IF Current.act = "emitPlaintext"
                                THEN <<Current.content>> ELSE rt.plaintextOut
  BY <1>0 DEF callerVars
<1>2. CASE ReadBytes \/ ReadNothing \/ ReadEnd
  BY <1>1, <1>2 DEF ReadBytes, ReadNothing, ReadEnd, Runtime
<1>3. CASE WriteSealed
  <2>1. /\ Current.act = "writeTransport"
        /\ SealedUnits(answered[1].op) \in Seq(Unit)
    BY <1>0, <1>3, WriteSealedAdds DEF Adds, ConnInv
  <2>2. Drain(rt.outbound \o SealedUnits(answered[1].op))
    BY <1>3 DEF WriteSealed
  <2> QED
    BY <1>0, <2>1, <2>2, DrainWritten
<1>4. CASE WriteFlight
  <2> DEFINE protected == Current.epoch = "handshake"
                           /\ <<"write", "handshake">> \in rt.keys
  <2>1. performed < Len(out) /\ Current.act = "writeHandshake" /\ ConnType
    BY <1>4 DEF WriteFlight, ConnInv
  <2>2. protected \in BOOLEAN /\ Current.msg \in ServerMessage
    BY <2>1, CurrentType, ActionFields
  <2>3. \/ rt' = Terminate(rt, "other")
        \/ Drain(rt.outbound \o FlightUnit(Current.msg, protected))
    BY <1>4 DEF WriteFlight
  <2> HIDE DEF protected
  <2>4. FlightUnit(Current.msg, protected) \in Seq(Unit)
    BY <2>2 DEF FlightUnit, Unit
  <2>5. rt'.plaintextOut = rt.plaintextOut
    BY <1>0, <1>1, <2>3, <2>4, DrainWritten DEF Terminate, Runtime
  <2> QED
    BY <1>0, <2>1, <2>5
<1>5. CASE WriteAlertRecord
  <2>1. performed < Len(out) /\ Current.act = "writeAlert" /\ ConnType
    BY <1>5 DEF WriteAlertRecord, ConnInv
  <2>2. Current.epoch \in Epoch /\ Current.seq \in 0..MaxSeq
    BY <2>1, CurrentType, ActionFields
  <2>3. RecordUnit("fatalAlert", Current.epoch, Current.seq) \in Seq(Unit)
    BY <2>2 DEF RecordUnit, Unit
  <2>4. rt'.plaintextOut = rt.plaintextOut
    BY <1>0, <1>5, <2>3, DrainWritten DEF WriteAlertRecord
  <2> QED
    BY <1>0, <2>1, <2>4
<1>6. CASE ProviderSucceeds
  <2> DEFINE keys == rt.keys \cup Installs(Current.op)
  <2>1. rt' = [rt EXCEPT !.keys = keys] /\ Current.act = "callCrypto"
    BY <1>6 DEF ProviderSucceeds
  <2> HIDE DEF keys
  <2> QED
    BY <1>0, <1>1, <2>1 DEF Runtime
<1>7. CASE ProviderFails \/ ProviderMisanswers
  BY <1>1, <1>7 DEF ProviderFails, ProviderMisanswers, Terminate, Runtime
<1>8. CASE Plaintext
  <2>1. CASE /\ Current.act = "emitPlaintext"
             /\ rt' = [rt EXCEPT !.plaintextOut = <<Current.content>>]
    BY <1>0, <1>1, <2>1 DEF Runtime
  <2>2. CASE /\ Current.act = "acceptPlaintextBytes"
             /\ rt' = [rt EXCEPT !.acceptedBytes = @ + Current.count]
    <3> DEFINE sum == rt.acceptedBytes + Current.count
    <3>1. rt' = [rt EXCEPT !.acceptedBytes = sum]
      BY <2>2
    <3> HIDE DEF sum
    <3> QED
      BY <1>0, <1>1, <2>2, <3>1 DEF Runtime
  <2> QED
    BY <1>8, <2>1, <2>2 DEF Plaintext
<1>9. CASE Report \/ CloseConnection
  BY <1>0, <1>1, <1>9 DEF Report, CloseConnection, Terminate, Runtime
<1> QED
  BY <1>2, <1>3, <1>4, <1>5, <1>6, <1>7, <1>8, <1>9 DEF Execute

LEMMA ExecGenuine ==
  ASSUME ConnInv, ChainShape, Execute, Queue = <<>>,
         NEW e, Queue' = <<e>>, e.ev = "transportBytes"
  PROVE  Genuine(e.recs)
<1> USE DEF Perform
<1>1. /\ events \in Seq(AnEvent) /\ followUps \in Seq(AnEvent)
      /\ events' = events
  BY ExecuteCarried DEF Carried, ConnInv, ConnType, DriveType
<1>2. events = <<>> /\ followUps = <<>>
  BY <1>1, EmptySeq DEF Queue
<1>3. ASSUME NEW event, Raise(event)
      PROVE  event = e
  <2>1. followUps' = <<event>> /\ events' = <<>>
    BY <1>1, <1>2, <1>3 DEF Raise
  <2>2. Queue' = <<event>>
    BY <2>1 DEF Queue
  <2> QED
    BY <2>2
<1>4. followUps' # followUps
  BY <1>1, <1>2 DEF Queue
<1>5. CASE ReadBytes
  <2>1. PICK recs \in Chunks :
          /\ \A i \in 1..Len(recs) : Deliverable(recs[i], FlightSeen)
          /\ Raise([ev |-> "transportBytes", recs |-> recs])
    BY <1>5 DEF ReadBytes
  <2>2. e = [ev |-> "transportBytes", recs |-> recs]
    BY <1>3, <2>1
  <2>3. e.recs = recs
    BY <2>2
  <2> QED
    BY <2>1, <2>3 DEF Genuine, Known, Deliverable
<1>6. CASE ReadEnd
  BY <1>3, <1>6 DEF ReadEnd, Event
<1>7. CASE ProviderSucceeds \/ ProviderFails
  BY <1>3, <1>7 DEF ProviderSucceeds, ProviderFails
<1>8. CASE ReadNothing \/ WriteSealed \/ WriteFlight \/ WriteAlertRecord
           \/ ProviderMisanswers \/ Plaintext \/ Report \/ CloseConnection
  BY <1>4, <1>8
  DEF ReadNothing, WriteSealed, WriteFlight, WriteAlertRecord,
      ProviderMisanswers, Plaintext, Report, CloseConnection
<1> QED
  BY <1>5, <1>6, <1>7, <1>8 DEF Execute

LEMMA ExecBodies ==
  ASSUME ConnInv, ChainShape, BodiesShape, Execute
  PROVE  BodiesShape'
<1>1. /\ Current = out[performed + 1] /\ performed + 1 \in Rest
      /\ Rest' = Rest \ {performed + 1}
      /\ performed \in Nat /\ Len(out) \in Nat
  BY ExecBase
<1>2. UNCHANGED <<vars, peer>> /\ UNCHANGED <<out, inbound, readEpoch>>
  BY ExecRuntime DEF vars, coreVars
<1>3. \/ Queue' = Queue
      \/ /\ Raises(Current) /\ Queue = <<>>
         /\ \E e : Queue' = <<e>> /\ Raised(e)
  BY ExecQueue
<1>4. Genuine(inbound)'
  BY <1>2 DEF BodiesShape, Genuine, Known
<1>5. \A i \in Rest' : OpenCall(out[i])' => InStep(out[i].op)' /\ Len(out') = 1
  BY <1>1, <1>2 DEF BodiesShape, OpenCall, InStep, Known
<1>6. CASE Queue' = Queue
  <2>1. \A i \in 1..Len(Queue) : ~OpenAnswer(Queue[i])
    BY <1>1 DEF BodiesShape
  <2>2. \A i \in 1..Len(Queue') :
          /\ (Queue[i].ev = "transportBytes" => Genuine(Queue[i].recs))'
          /\ ~OpenAnswer(Queue[i])'
    BY <1>2, <1>6, <2>1 DEF BodiesShape, Genuine, Known, OpenAnswer
  <2> QED
    BY <1>4, <1>5, <2>2 DEF BodiesShape
<1>7. ASSUME NEW e, Queue = <<>>, Queue' = <<e>>, Raised(e)
      PROVE  BodiesShape'
  <2>1. Len(Queue') = 1 /\ Queue'[1] = e
    BY <1>7
  <2>2. e.ev = "transportBytes" => Genuine(e.recs)
    BY <1>7, ExecGenuine
  <2>3. OpenAnswer(e) => InStep(e.call.op) /\ Rest' = {}
    <3>1. SUFFICES ASSUME OpenAnswer(e)
                   PROVE  InStep(e.call.op) /\ Rest' = {}
      OBVIOUS
    <3>2. OpenCall(Current) /\ e.call.op = Current.op
      BY <1>7, <3>1 DEF OpenAnswer, Raised, ProviderCall, OpenCall
    <3>3. InStep(Current.op) /\ Len(out) = 1
      BY <1>1, <3>2 DEF BodiesShape
    <3>4. Rest' = {}
      BY <1>1, <3>3 DEF Rest
    <3> QED
      BY <3>2, <3>3, <3>4
  <2>4. /\ (e.ev = "transportBytes" => Genuine(Queue[1].recs)')
        /\ OpenAnswer(e) => InStep(Queue[1].call.op)' /\ Rest' = {}
    BY <1>2, <2>1, <2>2, <2>3 DEF Genuine, InStep, Known
  <2> QED
    BY <1>4, <1>5, <2>1, <2>4 DEF BodiesShape, OpenAnswer
<1> QED
  BY <1>3, <1>6, <1>7

LEMMA ExecPull ==
  ASSUME ConnInv, ChainShape, PullShape, Execute
  PROVE  PullShape'
<1>1. /\ Current = out[performed + 1] /\ performed + 1 \in Rest
      /\ Rest' = Rest \ {performed + 1}
  BY ExecBase
<1>2. UNCHANGED <<hs, out, pendingPlain, call>>
  BY ExecRuntime DEF vars, coreVars
<1>3. Reading' => Reading
  <2>1. CASE Queue' = Queue
    BY <1>1, <1>2, <2>1
    DEF Reading, ReadAction, OpenCall, ReadEvent, OpenAnswer, Transports
  <2>2. ASSUME NEW e, Queue' = <<e>>, Raised(e)
        PROVE  Reading' => Reading
    <3>1. Len(Queue') = 1 /\ Queue'[1] = e
      BY <2>2
    <3>2. ReadEvent(e) => ReadAction(Current)
      BY <2>2
      DEF Raised, ReadEvent, Transports, OpenAnswer, ReadAction, OpenCall,
          ProviderCall
    <3> QED
      BY <1>1, <1>2, <3>1, <3>2
      DEF Reading, ReadAction, OpenCall, ReadEvent, OpenAnswer, Transports
  <2> QED
    BY <2>1, <2>2, ExecQueue
<1> QED
  BY <1>2, <1>3 DEF PullShape, Connected

LEMMA ExecPlain ==
  ASSUME ConnInv, ChainShape, PlainShape, Execute
  PROVE  PlainShape' /\ Buffered' = Buffered
<1>1. /\ Current = out[performed + 1] /\ performed + 1 \in Rest
      /\ Rest' = Rest \ {performed + 1} /\ ~Performed
      /\ performed \in Nat /\ Len(out) \in Nat /\ performed' = performed + 1
  BY ExecBase
<1>2. UNCHANGED <<hs, out, pendingPlain, call, fuel>>
      /\ rt'.plaintextOut = IF Current.act = "emitPlaintext"
                            THEN <<Current.content>> ELSE rt.plaintextOut
  BY ExecRuntime DEF vars, coreVars
<1>3. \/ Queue' = Queue
      \/ /\ Raises(Current) /\ Queue = <<>>
         /\ \E e : Queue' = <<e>> /\ Raised(e)
  BY ExecQueue
<1>4. rt.plaintextOut = <<>>
  BY <1>1 DEF PlainShape
<1>5. \A i \in Rest' : out[i].act # "emitPlaintext"
  BY <1>1 DEF PlainShape, Rest
<1>6. Asking => Current.act = "emitPlaintext"
  BY <1>1 DEF PlainShape
<1>7. \/ Queue' = Queue
      \/ /\ ~Asking /\ \E e : Queue' = <<e>> /\ e.ev # "appRecv"
  BY <1>3, <1>6 DEF Raises, Raised
<1>8. rt'.plaintextOut # <<>> =>
        Asking /\ Queue' = <<>> /\ Rest' = {} /\ pendingPlain = <<>>
  <2>1. SUFFICES ASSUME Current.act = "emitPlaintext"
                 PROVE  /\ Asking /\ Queue' = <<>> /\ Rest' = {}
                        /\ pendingPlain = <<>>
    BY <1>2, <1>4
  <2>2. Asking /\ Queue = <<>> /\ Len(out) = 1 /\ pendingPlain = <<>>
    BY <1>1, <2>1 DEF PlainShape
  <2> QED
    BY <1>1, <1>7, <2>2 DEF Rest
<1>9. \A i \in 1..Len(Queue') : Queue'[i].ev = "appRecv" <=> Asking
  <2>1. ASSUME NEW e, Queue' = <<e>>, e.ev # "appRecv", ~Asking
        PROVE  \A i \in 1..Len(Queue') : Queue'[i].ev = "appRecv" <=> Asking
    <3>1. Len(Queue') = 1 /\ Queue'[1] = e
      BY <2>1
    <3> QED
      BY <2>1, <3>1
  <2> QED
    BY <1>7, <2>1 DEF PlainShape
<1>10. PlainShape'
  <2>1. Asking' = Asking
    BY <1>2 DEF Asking
  <2>2. /\ Asking /\ Queue' # <<>> => fuel > 0
        /\ call = "recv" /\ Queue' = <<>> /\ Connected => pendingPlain = <<>>
    <3>1. call = "recv" => Asking
      BY DEF Asking
    <3> QED
      BY <1>7, <3>1 DEF PlainShape
  <2> QED
    BY <1>2, <1>5, <1>6, <1>8, <1>9, <2>1, <2>2 DEF PlainShape, Connected
<1>11. Emitting' = <<>>
  <2>1. Performed' \/ performed' + 1 \in Rest'
    BY <1>1, <1>2 DEF Performed, Rest
  <2>2. Performed' \/ (Current.act # "emitPlaintext")'
    BY <1>2, <1>5, <2>1 DEF Current
  <2> QED
    BY <2>2 DEF Emitting
<1>12. CASE Current.act = "emitPlaintext"
  <2>1. pendingPlain = <<>> /\ Emitting = Current.content
    BY <1>1, <1>12 DEF PlainShape, Emitting
  <2>2. /\ OrNothing(rt'.plaintextOut) = Current.content
        /\ OrNothing(rt.plaintextOut) = <<>>
        /\ OrNothing(pendingPlain) = <<>>
    BY <1>2, <1>4, <1>12, <2>1 DEF OrNothing
  <2>3. Current.content \in Bytes
    BY <2>1, BufferParts
  <2>4. /\ Buffered = <<>> \o Current.content \o <<>>
        /\ Buffered' = Current.content \o <<>> \o <<>>
    BY <1>2, <1>11, <2>1, <2>2 DEF Buffered
  <2> QED
    BY <1>10, <2>3, <2>4, BytesNothing
<1>13. CASE Current.act # "emitPlaintext"
  <2>1. Emitting = <<>> /\ rt'.plaintextOut = rt.plaintextOut
    BY <1>2, <1>13 DEF Emitting
  <2> QED
    BY <1>2, <1>10, <1>11, <2>1 DEF Buffered
<1> QED
  BY <1>12, <1>13

-----------------------------------------------------------------------------
(* The public calls.                                                       *)

\* Calls that leave the plaintext where it is: they return, ask the core for
\* plaintext, have the transport read when it held none, do something else, or
\* never reach the core.
Returning == Queue' = <<>> /\ call' = "none"

AsksCore ==
  /\ ~Asking /\ Asking' /\ fuel' > 0
  /\ \E e : Queue' = <<e>> /\ e.ev = "appRecv"

Pulls ==
  /\ call = "recv" /\ call' = "pull" /\ Driven
  /\ \E e : Queue' = <<e>> /\ e.ev = "transportReadable"

AsksElse ==
  /\ Idle /\ ~Asking'
  /\ \E e : Queue' = <<e>>
            /\ e.ev \notin {"appRecv", "transportReadable", "transportBytes",
                            "cryptoResult"}

Refuses == Idle /\ UNCHANGED <<call, driveVars>>

LEMMA CallsRead ==
  ASSUME ConnInv, ReadsInProgress = FALSE, Calls
  PROVE  \/ Asking /\ Driven /\ DeliverPlaintext /\ Returning
         \/ /\ UNCHANGED received /\ rt'.plaintextOut = rt.plaintextOut
            /\ Asking => rt.plaintextOut = <<>>
            /\ Returning \/ AsksCore \/ Pulls \/ AsksElse \/ Refuses
<1> USE DEF wireVars, callerVars
<1>0. rt \in Runtime /\ RuntimeType
  BY DEF ConnInv, ConnType, RuntimeType
<1>1. Finish => Returning
  BY DEF Finish, Returning, Queue
<1>2. \A stage, event : Drive(stage, event) =>
        Queue' = <<event>> /\ call' = stage /\ fuel' > 0
  BY LimitsOfCallsAssumption DEF Drive, Queue
<1>3. Idle => ~Asking
  BY DEF Idle, Asking
<1>4. CASE RecvReturn
  BY <1>0, <1>1, <1>4 DEF RecvReturn, Asking, DeliverPlaintext
<1>5. CASE SendReturn \/ CloseReturn \/ ProgressReturn
  BY <1>0, <1>1, <1>5 DEF SendReturn, CloseReturn, ProgressReturn, Asking
<1>6. CASE FlushReturn
  <2>1. rt.outbound \o <<>> = rt.outbound /\ <<>> \in Seq(Unit)
    BY <1>0 DEF Runtime
  <2>2. Drain(rt.outbound \o <<>>)
    BY <1>6, <2>1 DEF FlushReturn
  <2>3. rt'.plaintextOut = rt.plaintextOut
    BY <1>0, <2>1, <2>2, DrainWritten
  <2> QED
    BY <1>1, <1>6, <2>3 DEF FlushReturn, Asking
<1>7. CASE RecvStart
  <2>1. /\ Idle /\ UNCHANGED <<rt, received>>
        /\ Drive("recv", Event("appRecv"))
    BY <1>7 DEF RecvStart, Start
  <2> PICK e : e = Event("appRecv")
    OBVIOUS
  <2>2. Queue' = <<e>> /\ e.ev = "appRecv" /\ call' = "recv" /\ fuel' > 0
    BY <1>2, <2>1 DEF Event
  <2> QED
    BY <1>3, <2>1, <2>2 DEF AsksCore, Asking
<1>8. CASE RecvRetry
  <2>1. /\ call = "pull" /\ UNCHANGED <<rt, received>>
        /\ Drive("retry", Event("appRecv"))
    BY <1>8 DEF RecvRetry
  <2> PICK e : e = Event("appRecv")
    OBVIOUS
  <2>2. Queue' = <<e>> /\ e.ev = "appRecv" /\ call' = "retry" /\ fuel' > 0
    BY <1>2, <2>1 DEF Event
  <2> QED
    BY <2>1, <2>2 DEF AsksCore, Asking
<1>9. CASE RecvPull
  <2>1. /\ call = "recv" /\ Driven /\ rt.plaintextOut = <<>>
        /\ UNCHANGED <<rt, received>>
        /\ Drive("pull", Event("transportReadable"))
    BY <1>9 DEF RecvPull
  <2> PICK e : e = Event("transportReadable")
    OBVIOUS
  <2>2. Queue' = <<e>> /\ e.ev = "transportReadable" /\ call' = "pull"
    BY <1>2, <2>1 DEF Event
  <2> QED
    BY <2>1, <2>2 DEF Pulls
<1>10. ASSUME NEW stage, NEW e, Idle, Drive(stage, e),
              stage \notin {"recv", "retry"},
              e.ev \notin {"appRecv", "transportReadable", "transportBytes",
                           "cryptoResult"}
       PROVE  AsksElse
  BY <1>2, <1>10 DEF AsksElse, Asking
<1>11. ASSUME NEW n \in 0..MaxSends, SendStart(n)
       PROVE  /\ UNCHANGED received /\ rt'.plaintextOut = rt.plaintextOut
              /\ AsksElse /\ ~Asking
  <2> PICK e : e = [ev |-> "appSend",
                    plain |-> [i \in 1..Admitted(n) |-> owned + i]]
    OBVIOUS
  <2>1. /\ Idle /\ Drive("send", e) /\ UNCHANGED received
        /\ rt' = [rt EXCEPT !.acceptedBytes = 0]
    BY <1>11 DEF SendStart
  <2>2. e.ev = "appSend"
    OBVIOUS
  <2>3. AsksElse
    BY <1>10, <2>1, <2>2
  <2>4. rt'.plaintextOut = rt.plaintextOut
    BY <1>0, <2>1 DEF Runtime
  <2> QED
    BY <1>3, <2>1, <2>3, <2>4
<1>12. ASSUME NEW n \in 0..MaxSends, SendNothing(n)
       PROVE  UNCHANGED <<received, rt>> /\ Refuses
  BY <1>12 DEF SendNothing, Refuses
<1>13. CASE FlushStart
  <2>1. Idle /\ Drive("flush", Event("appFlush")) /\ UNCHANGED <<rt, received>>
    BY <1>13 DEF FlushStart, Start
  <2>2. Event("appFlush").ev = "appFlush"
    BY DEF Event
  <2>3. AsksElse
    BY <1>10, <2>1, <2>2
  <2> QED
    BY <1>3, <2>1, <2>3
<1>14. CASE CloseStart
  <2>1. PICK mode \in CloseMode :
          Start("close", [ev |-> "appClose", mode |-> mode]) /\ UNCHANGED rt
    BY <1>14 DEF CloseStart
  <2> PICK e : e = [ev |-> "appClose", mode |-> mode]
    OBVIOUS
  <2>2. Idle /\ Drive("close", e) /\ UNCHANGED <<rt, received>>
        /\ e.ev = "appClose"
    BY <2>1 DEF Start
  <2>3. AsksElse
    BY <1>10, <2>2
  <2> QED
    BY <1>3, <2>2, <2>3
<1>15. CASE ProgressStart
  <2>1. PICK name \in {"timeout", "transportEof"} :
          Start("progress", Event(name)) /\ UNCHANGED rt
    BY <1>15 DEF ProgressStart
  <2>2. Idle /\ Drive("progress", Event(name)) /\ UNCHANGED <<rt, received>>
    BY <2>1 DEF Start
  <2>3. Event(name).ev = name
    BY DEF Event
  <2>4. AsksElse
    BY <1>10, <2>2, <2>3
  <2> QED
    BY <1>3, <2>2, <2>4
<1> QED
  BY <1>3, <1>4, <1>5, <1>6, <1>7, <1>8, <1>9, <1>11, <1>12, <1>13, <1>14,
     <1>15 DEF Calls, Refuses

LEMMA OneQueued ==
  ASSUME NEW e, Queue' = <<e>>
  PROVE  Len(Queue') = 1 /\ Queue'[1] = e /\ Queue' # <<>>
OBVIOUS

LEMMA CallsBodies ==
  ASSUME ConnInv, BodiesShape, ReadsInProgress = FALSE, Calls
  PROVE  BodiesShape'
<1>1. Rest' = {} /\ Rest = {} /\ UNCHANGED <<vars, peer>>
  BY CallsKeep, CallsCalled DEF ConnInv, Called
<1>2. Genuine(inbound)'
  BY <1>1 DEF BodiesShape, Genuine, Known, vars, coreVars
<1>3. \A i \in 1..Len(Queue') :
        /\ (Queue[i].ev = "transportBytes" => Genuine(Queue[i].recs))'
        /\ (OpenAnswer(Queue[i]) => InStep(Queue[i].call.op))'
  <2>1. CASE Queue' = <<>>
    BY <2>1
  <2>2. CASE \E e : /\ Queue' = <<e>>
                    /\ e.ev \notin {"transportBytes", "cryptoResult"}
    BY <2>2, OneQueued DEF OpenAnswer
  <2>3. CASE Queue' = Queue
    BY <1>1, <2>3
    DEF BodiesShape, Genuine, Known, OpenAnswer, InStep, vars, coreVars,
        epochVars
  <2> QED
    BY <2>1, <2>2, <2>3, CallsRead
    DEF Returning, AsksCore, Pulls, AsksElse, Refuses, driveVars, Queue
<1> QED
  BY <1>1, <1>2, <1>3 DEF BodiesShape

LEMMA CallsPull ==
  ASSUME ConnInv, PullShape, PlainShape, ReadsInProgress = FALSE, Calls
  PROVE  PullShape'
<1>1. Rest' = {} /\ UNCHANGED <<hs, pendingPlain>> /\ Rest = {}
  BY CallsKeep, CallsCalled DEF ConnInv, Called, vars, coreVars
<1>2. CASE Pulls
  <2>1. Queue = <<>>
    BY <1>2 DEF Pulls, Driven, PlainShape, Asking, Queue
  <2>2. Connected => pendingPlain = <<>>
    BY <1>2, <2>1 DEF Pulls, PlainShape
  <2> QED
    BY <1>1, <1>2, <2>2 DEF PullShape, Pulls, Connected
<1>3. CASE Returning
  BY <1>1, <1>3 DEF Returning, PullShape, Reading
<1>4. CASE AsksCore \/ AsksElse
  <2>1. \E e : Queue' = <<e>> /\ ~ReadEvent(e)
    BY <1>4
    DEF AsksCore, AsksElse, ReadEvent, Transports, OpenAnswer
  <2>2. ~Reading'
    BY <1>1, <2>1, OneQueued
    DEF Reading, ReadEvent, Transports, OpenAnswer
  <2> QED
    BY <2>2 DEF PullShape
<1>5. CASE Refuses
  <2>1. Queue' = Queue /\ call' = call
    BY <1>5 DEF Refuses, driveVars, Queue
  <2>2. Reading' => Reading
    BY <1>1, <2>1 DEF Reading, ReadEvent, Transports, OpenAnswer
  <2> QED
    BY <1>1, <2>1, <2>2 DEF PullShape, Connected
<1> QED
  BY <1>2, <1>3, <1>4, <1>5, CallsRead

LEMMA CallsPlain ==
  ASSUME ConnInv, PlainShape, ReadsInProgress = FALSE, Calls
  PROVE  PlainShape'
<1>1. Rest' = {} /\ UNCHANGED <<hs, pendingPlain>>
  BY CallsKeep, CallsCalled DEF ConnInv, Called, vars, coreVars
<1>2. CASE Returning
  <2>1. rt'.plaintextOut = <<>>
    <3>1. CASE DeliverPlaintext
      BY <3>1 DEF DeliverPlaintext, ConnInv, ConnType, RuntimeType, Runtime
    <3>2. CASE /\ rt'.plaintextOut = rt.plaintextOut
               /\ Asking => rt.plaintextOut = <<>>
      BY <3>2 DEF PlainShape
    <3> QED
      BY <3>1, <3>2, CallsRead
  <2>2. ~Asking' /\ Queue' = <<>> /\ call' # "recv"
    BY <1>2 DEF Returning, Asking
  <2> QED
    BY <1>1, <2>1, <2>2 DEF PlainShape
<1>3. ASSUME ~Returning
      PROVE  /\ rt'.plaintextOut = <<>>
             /\ AsksCore \/ Pulls \/ AsksElse \/ Refuses
  BY <1>3, CallsRead DEF PlainShape
<1>4. CASE AsksCore /\ ~Returning
  <2>1. PICK e : Queue' = <<e>> /\ e.ev = "appRecv"
    BY <1>4 DEF AsksCore
  <2>2. Asking' /\ fuel' > 0
    BY <1>4 DEF AsksCore
  <2> QED
    BY <1>1, <1>3, <1>4, <2>1, <2>2, OneQueued DEF PlainShape
<1>5. CASE (Pulls \/ AsksElse) /\ ~Returning
  <2>1. PICK e : Queue' = <<e>> /\ e.ev # "appRecv"
    BY <1>5 DEF Pulls, AsksElse
  <2>2. ~Asking' /\ call' # "recv"
    BY <1>5 DEF Pulls, AsksElse, Asking
  <2> QED
    BY <1>1, <1>3, <1>5, <2>1, <2>2, OneQueued DEF PlainShape
<1>6. CASE Refuses /\ ~Returning
  <2>1. Queue' = Queue /\ ~Asking' /\ ~Asking /\ call' # "recv"
    BY <1>6 DEF Refuses, driveVars, Queue, Idle, Asking
  <2>2. \A i \in 1..Len(Queue) : Queue[i].ev = "appRecv" <=> Asking
    BY DEF PlainShape
  <2> QED
    BY <1>1, <1>3, <1>6, <2>1, <2>2 DEF PlainShape
<1> QED
  BY <1>2, <1>3, <1>4, <1>5, <1>6

\* The caller takes what waits, all of it, or leaves it.
LEMMA CallsBuffer ==
  ASSUME ConnInv, PlainShape, ReadsInProgress = FALSE, Calls
  PROVE  \/ received' = received /\ Buffered' = Buffered
         \/ received' = received \o Buffered /\ Buffered' = <<>>
<1>1. /\ Performed /\ Performed' /\ Emitting = <<>> /\ Emitting' = <<>>
      /\ UNCHANGED pendingPlain /\ rt \in Runtime
  BY CallsKeep, CallsCalled
  DEF ConnInv, ConnType, RuntimeType, Called, vars, coreVars, Emitting
<1>2. CASE Asking /\ DeliverPlaintext
  <2>1. /\ rt.plaintextOut # <<>> /\ rt'.plaintextOut = <<>>
        /\ received' = received \o rt.plaintextOut[1]
    BY <1>1, <1>2 DEF DeliverPlaintext, Runtime
  <2>2. pendingPlain = <<>>
    BY <2>1 DEF PlainShape
  <2>3. /\ OrNothing(rt'.plaintextOut) = <<>>
        /\ OrNothing(pendingPlain) = <<>>
        /\ OrNothing(rt.plaintextOut) = rt.plaintextOut[1]
    BY <2>1, <2>2 DEF OrNothing
  <2>4. Buffered' = <<>> \o <<>> \o <<>>
    BY <1>1, <2>2, <2>3 DEF Buffered
  <2>5. Buffered' = <<>>
    BY <2>4
  <2>6. Buffered = rt.plaintextOut[1] \o <<>> \o <<>>
    BY <1>1, <2>3 DEF Buffered
  <2>7. rt.plaintextOut[1] \in Bytes
    BY <2>3, BufferParts
  <2>8. Buffered = rt.plaintextOut[1]
    BY <2>6, <2>7, BytesNothing
  <2> QED
    BY <2>1, <2>5, <2>8
<1>3. CASE UNCHANGED received /\ rt'.plaintextOut = rt.plaintextOut
  BY <1>1, <1>3 DEF Buffered
<1> QED
  BY <1>2, <1>3, CallsRead

-----------------------------------------------------------------------------
(* What has arrived is the peer's stream up to the read number.            *)

LEMMA CountSame ==
  ASSUME CountShape, Arrived' = Arrived, UNCHANGED <<hs, readEpoch, peer>>
  PROVE  CountShape'
<1>1. /\ Early' = Early /\ Connected' = Connected /\ Whole' = Whole
      /\ Upto(readEpoch.seq)' = Upto(readEpoch.seq)
  BY DEF Early, Connected, Whole, Upto, Contents
<1> QED
  BY <1>1 DEF CountShape

LEMMA BytesPrefix ==
  ASSUME NEW s \in Seq(Seq(Nat)), NEW k \in Nat, k <= Len(s)
  PROVE  \E u \in Bytes : FlattenSeq(s) = FlattenSeq(SubSeq(s, 1, k)) \o u
BY FlattenPrefix DEF Bytes

\* One record more has been opened.
LEMMA OneMore ==
  ASSUME ConnInv, CountShape, Comes, received' = received
  PROVE  /\ Arrived' = Upto(readEpoch.seq + 1)
         /\ \E rest \in Bytes : Whole = Arrived' \o rest
<1> PICK texts : texts = Contents(peer)
  OBVIOUS
<1> PICK n : n = readEpoch.seq
  OBVIOUS
<1>1. /\ texts \in Seq(Seq(Nat)) /\ Len(texts) = Len(peer)
      /\ Len(peer) \in Nat /\ n \in Nat /\ n < Len(peer)
  BY StreamType DEF Comes, ConnInv, ConnType, CoreInv, TypeOK, EpochState
<1>2. Arrived' = received \o texts[n + 1]
  BY DEF Arrived, Comes
<1>3. received = FlattenSeq(SubSeq(texts, 1, n))
  <2>1. Arrived = received
    BY BufferParts, BytesNothing DEF Arrived, Comes
  <2> QED
    BY <2>1 DEF CountShape, Comes, Upto
<1>4. Arrived' = FlattenSeq(SubSeq(texts, 1, n + 1))
  BY <1>1, <1>2, <1>3, FlattenStep
<1>5. \E rest \in Bytes :
        FlattenSeq(texts) = FlattenSeq(SubSeq(texts, 1, n + 1)) \o rest
  <2>1. PICK m \in Nat : m = n + 1 /\ m <= Len(texts)
    BY <1>1
  <2> QED
    BY <1>1, <2>1, BytesPrefix, Zenon
<1> QED
  BY <1>4, <1>5 DEF Upto, Whole

LEMMA StepCount ==
  ASSUME ConnInv, ChainShape, BodiesShape, PullShape, PlainShape, CountShape,
         Step
  PROVE  CountShape'
<1>1. /\ received' = received /\ peer' = peer
      /\ CoreStep /\ TypeOK /\ Moves
  BY StepBuffer, StepFacts, CoreStepMoves DEF CoreInv
<1>2. Whole' = Whole /\ \A n : Upto(n)' = Upto(n)
  BY <1>1 DEF Whole, Upto, Contents
<1>3. Early' => Early
  BY <1>1, EarlyWas
<1>4. Connected' /\ ~Connected => Early
  BY <1>1, EndingStays
  DEF Moves, Stays, Ends, Forward, Connected, Early, Ending, TerminalPhase
<1>5. Early => received = <<>> /\ Buffered = <<>>
  <2>1. received \in Bytes /\ Buffered \in Bytes
    BY BufferParts
  <2>2. \A a \in Bytes, b \in Bytes : a \o b = <<>> => a = <<>> /\ b = <<>>
    BY DEF Bytes
  <2> QED
    BY <2>1, <2>2 DEF CountShape, Arrived
<1>6. CASE /\ Buffered' = Buffered
           /\ Connected' => IF Connected THEN UNCHANGED readEpoch
                                         ELSE readEpoch'.seq = 0
  <2>1. Arrived' = Arrived
    BY <1>1, <1>6 DEF Arrived
  <2>2. ASSUME Connected'
        PROVE  readEpoch'.seq <= Len(peer) /\ Arrived = Upto(readEpoch'.seq)
    <3>1. CASE Connected
      BY <1>6, <2>2, <3>1 DEF CountShape
    <3>2. CASE ~Connected
      BY <1>4, <1>6, <2>2, <3>2, StreamType DEF CountShape
    <3> QED
      BY <3>1, <3>2
  <2> QED
    BY <1>1, <1>2, <1>3, <2>1, <2>2 DEF CountShape
<1>7. CASE Buffered' = <<>> /\ ~Connected'
  <2>1. received \in Bytes /\ Buffered \in Bytes
    BY BufferParts
  <2>2. Arrived' = received
    BY <1>1, <1>7, <2>1, BytesNothing DEF Arrived
  <2>3. \E rest \in Bytes : Whole = Arrived' \o rest
    <3>1. PICK rest \in Bytes : Whole = (received \o Buffered) \o rest
      BY DEF CountShape, Arrived
    <3>2. /\ Buffered \o rest \in Bytes
          /\ Whole = received \o (Buffered \o rest)
      BY <2>1, <3>1, BytesAssoc
    <3> QED
      BY <2>2, <3>2
  <2> QED
    BY <1>1, <1>2, <1>3, <1>5, <1>7, <2>2, <2>3 DEF CountShape
<1>8. CASE Comes
  <2>1. /\ Arrived' = Upto(readEpoch'.seq)
        /\ \E rest \in Bytes : Whole = Arrived' \o rest
    BY <1>1, <1>8, OneMore DEF Comes
  <2>2. readEpoch'.seq <= Len(peer)
    BY <1>1, <1>8, StreamType DEF Comes, TypeOK, EpochState
  <2>3. ~Early'
    BY <1>8 DEF Comes, Early, Connected
  <2> QED
    BY <1>1, <1>2, <2>1, <2>2, <2>3 DEF CountShape
<1> QED
  BY <1>6, <1>7, <1>8, StepBuffer

LEMMA ExecCount ==
  ASSUME ConnInv, ChainShape, PlainShape, CountShape, Execute
  PROVE  CountShape'
<1>1. UNCHANGED <<vars, peer, received>> /\ Buffered' = Buffered
  BY ExecRuntime, ExecPlain
<1>2. UNCHANGED <<hs, readEpoch>> /\ Arrived' = Arrived
  BY <1>1 DEF vars, coreVars, epochVars, Arrived
<1> QED
  BY <1>1, <1>2, CountSame

LEMMA CallsCount ==
  ASSUME ConnInv, PlainShape, CountShape, ReadsInProgress = FALSE, Calls
  PROVE  CountShape'
<1>0. UNCHANGED <<vars, peer, performed, closed>>
  BY CallsCalled DEF Called, ConnInv
<1>1. UNCHANGED vars /\ UNCHANGED peer
  BY <1>0
<1>2. UNCHANGED <<hs, readEpoch>>
  BY <1>1 DEF vars, coreVars, epochVars
<1>3. Arrived' = Arrived
  <2>1. CASE received' = received /\ Buffered' = Buffered
    BY <2>1 DEF Arrived
  <2>2. CASE received' = received \o Buffered /\ Buffered' = <<>>
    <3>1. Arrived' = Arrived \o <<>>
      BY <2>2 DEF Arrived
    <3> QED
      BY <3>1, BufferParts, BytesNothing
  <2> QED
    BY <2>1, <2>2, CallsBuffer
<1> QED
  BY <1>1, <1>2, <1>3, CountSame

-----------------------------------------------------------------------------
(* The invariant.                                                          *)

LEMMA InitDelivery == ConnInit => DeliveryInv
<1> SUFFICES ASSUME ConnInit
             PROVE  DeliveryInv
  OBVIOUS
<1>1. ConnInv
  BY InitConn
<1>2. /\ hs = "start" /\ out = <<>> /\ writeEpoch.seq = 0
      /\ inbound = <<>> /\ pendingPlain = <<>> /\ rt.plaintextOut = <<>>
      /\ call = "none" /\ events = <<>> /\ followUps = <<>>
      /\ performed = 0 /\ received = <<>>
  BY DEF ConnInit, Init, FreshEpoch
<1>3. Rest = {} /\ Queue = <<>> /\ Performed /\ Early /\ ~Connected
  BY <1>2 DEF Rest, Queue, Performed, Early, Connected, Ending, TerminalPhase
<1>4. ChainShape /\ CallsShape /\ EarlyShape
  BY <1>2, <1>3
  DEF ChainShape, CallsShape, EarlyShape, SealToWrite
<1>5. BodiesShape /\ PullShape /\ PlainShape
  BY <1>2, <1>3
  DEF BodiesShape, Genuine, PullShape, Reading, PlainShape, Asking
<1>6. CountShape
  <2>1. OrNothing(<<>>) = <<>> /\ Emitting = <<>>
    BY <1>3 DEF OrNothing, Emitting
  <2>2. Arrived = <<>>
    BY <1>2, <2>1 DEF Arrived, Buffered
  <2>3. \E rest \in Bytes : Whole = <<>> \o rest
    <3>1. Contents(peer) \in Seq(Seq(Nat))
      BY <1>1, StreamType
    <3>2. Whole \in Bytes
      BY <3>1, FlattenType DEF Whole, Bytes
    <3> QED
      BY <3>2, BytesNothing
  <2> QED
    BY <1>3, <2>2, <2>3 DEF CountShape
<1> QED
  BY <1>1, <1>4, <1>5, <1>6 DEF DeliveryInv

LEMMA StutterDelivery ==
  ASSUME DeliveryInv, UNCHANGED connVars
  PROVE  DeliveryInv'
<1> USE DEF DeliveryInv
<1>1. ConnInv'
  BY ConnInvStep
<1>2. UNCHANGED <<hs, closeState, readEpoch, out, writeEpoch, pendingOps,
                  inbound, pendingPlain, peer, call, events, followUps,
                  performed, fuel, answered, rt, received>>
  BY DEF connVars, vars, coreVars, epochVars, driveVars, callerVars
<1>3. /\ Queue' = Queue /\ Rest' = Rest /\ Performed' = Performed
      /\ Current' = Current /\ Connected' = Connected /\ Asking' = Asking
  BY <1>2 DEF Queue, Rest, Performed, Current, Connected, Asking
<1>4. ChainShape' /\ CallsShape' /\ EarlyShape'
  BY <1>2, <1>3
  DEF ChainShape, CallsShape, EarlyShape, Early, SealToWrite, Live,
      Terminal, Outstands
<1>5. BodiesShape'
  <2>1. \A recs : Genuine(recs) => Genuine(recs)'
    BY <1>2, KnownKept
  <2>2. \A op : InStep(op) => InStep(op)'
    BY <1>2, KnownKept
  <2> QED
    BY <1>2, <1>3, <2>1, <2>2 DEF BodiesShape, Genuine, InStep, Known
<1>6. PullShape' /\ PlainShape'
  BY <1>2, <1>3 DEF PullShape, Reading, PlainShape
<1>7. CountShape'
  <2>1. Arrived' = Arrived
    BY <1>2, <1>3 DEF Arrived, Buffered, Emitting
  <2> QED
    BY <1>2, <2>1, CountSame
<1> QED
  BY <1>1, <1>4, <1>5, <1>6, <1>7

LEMMA DeliveryInvStep ==
  ASSUME ReadsInProgress = FALSE
  PROVE  DeliveryInv /\ [ConnNext]_connVars => DeliveryInv'
<1> SUFFICES ASSUME DeliveryInv, [ConnNext]_connVars
             PROVE  DeliveryInv'
  OBVIOUS
<1> USE DEF DeliveryInv
<1>1. ConnInv'
  BY ConnInvStep
<1>2. CASE Step
  BY <1>1, <1>2, StepChain, StepBodies, StepPull, StepPlain, StepCount
<1>3. CASE Execute
  BY <1>1, <1>3, ExecChain, ExecBodies, ExecPull, ExecPlain, ExecCount
<1>4. CASE Calls
  BY <1>1, <1>4, CallsChain, CallsBodies, CallsPull, CallsPlain, CallsCount
<1>5. CASE UNCHANGED connVars
  BY <1>5, StutterDelivery
<1> QED
  BY <1>2, <1>3, <1>4, <1>5 DEF ConnNext

\* What the caller was given, and what waits for it in the runtime, on its way
\* there and in the core, is the plaintext of the records opened so far, one
\* each and in order, whatever the network hands over; the transport is read
\* only when nothing waits.  For a driver that reads the transport in recv
\* alone: two reads in progress at once may answer the same record twice.
THEOREM DeliveryInvariant ==
  ASSUME ReadsInProgress = FALSE
  PROVE  ConnSpec => []DeliveryInv
BY InitDelivery, DeliveryInvStep, PTL DEF ConnSpec

\* What recv has returned, with what still waits for it, is how the plaintext of
\* the peer's stream begins, whatever that stream holds.
BeginsTheStream == \E rest \in Bytes : Whole = Arrived \o rest

\* No plaintext is invented, repeated, skipped or put out of order between the
\* peer's records and the caller of recv, on any stream.
THEOREM StreamCorrect ==
  ASSUME ReadsInProgress = FALSE
  PROVE  ConnSpec => []BeginsTheStream
<1>1. DeliveryInv => BeginsTheStream
  BY DEF DeliveryInv, CountShape, BeginsTheStream
<1> QED
  BY <1>1, DeliveryInvariant, PTL

\* The streams of the model: the units of each are 1, 2, 3 and so on.
NumberedStreams ==
  \A stream \in Streams : Numbered(FlattenSeq(Contents(stream)))

LEMMA NumberedBegins ==
  ASSUME NEW a \in Bytes, NEW b \in Bytes, Numbered(a \o b)
  PROVE  Numbered(a)
<1>1. \A i \in 1..Len(a) : i \in 1..Len(a \o b) /\ (a \o b)[i] = a[i]
  BY DEF Bytes
<1> QED
  BY <1>1 DEF Numbered

\* recv gives the caller the peer's units in order and each once.
THEOREM DeliveryCorrect ==
  ASSUME ReadsInProgress = FALSE, NumberedStreams
  PROVE  ConnSpec => []InOrderDelivery
<1>1. DeliveryInv => InOrderDelivery
  <2> SUFFICES ASSUME DeliveryInv
               PROVE  InOrderDelivery
    OBVIOUS
  <2>0. ConnInv
    BY DEF DeliveryInv
  <2>1. Numbered(Arrived)
    <3>1. PICK rest \in Bytes : Whole = Arrived \o rest
      BY DEF DeliveryInv, CountShape
    <3>2. Numbered(Arrived \o rest)
      BY <2>0, <3>1
      DEF NumberedStreams, Whole, ConnInv, ConnType, RuntimeType
    <3> QED
      BY <2>0, <3>2, BufferParts, NumberedBegins
  <2> DEFINE taken == OrNothing(rt.plaintextOut)
             kept == OrNothing(pendingPlain)
             waiting == taken \o kept
  <2>2. /\ received \in Bytes /\ taken \in Bytes /\ kept \in Bytes
        /\ Emitting \in Bytes /\ waiting \in Bytes
    BY <2>0, BufferParts, BytesAssoc
  <2>3. InOrderDelivery <=> Numbered(received \o waiting)
    <3>1. ASSUME NEW a \in Bytes, NEW b \in Bytes, NEW c \in Bytes
          PROVE  (a \o b) \o c = a \o (b \o c)
      BY BytesAssoc
    <3>2. (received \o taken) \o kept = received \o waiting
      BY <2>2, <3>1, Zenon
    <3> QED
      BY <3>2 DEF InOrderDelivery
  <2>4. CASE Emitting = <<>>
    <3>1. Buffered = waiting
      BY <2>2, <2>4, BytesNothing DEF Buffered
    <3> QED
      BY <2>1, <2>3, <3>1 DEF Arrived
  <2>5. CASE Emitting # <<>>
    <3>1. performed + 1 \in Rest /\ Current.act = "emitPlaintext"
      BY <2>0, <2>5
      DEF Emitting, Performed, Rest, ConnInv, ConnType, DriveType, CoreInv,
          TypeOK
    <3>2. pendingPlain = <<>> /\ rt.plaintextOut = <<>>
      BY <3>1 DEF DeliveryInv, PlainShape, Current
    <3>3. waiting = <<>>
      BY <3>2 DEF OrNothing
    <3>4. received \o waiting = received
      BY <2>2, <3>3, BytesNothing
    <3>5. Buffered \in Bytes
      BY <2>0, BufferParts
    <3> QED
      BY <2>1, <2>2, <2>3, <3>4, <3>5, NumberedBegins DEF Arrived
  <2> QED
    BY <2>4, <2>5
<1> QED
  BY <1>1, DeliveryInvariant, PTL

-----------------------------------------------------------------------------
(* The application keys and the state of the core.  The channel is open    *)
(* while the core is connected and the arena holds keys: the write key is  *)
(* there as long as any key is, once the flight is sent.                   *)

\* The chain of calls that installs the application keys, one at a time.
InstallShape ==
  hs = "sentCertificateVerify" =>
    /\ \A i \in Rest : out[i].act = "callCrypto" =>
         out[i].op = ScheduleOp(keySched) /\ i = Len(out)
    /\ \A i \in 1..Len(Queue) : Queue[i].ev = "cryptoResult" =>
         /\ Rest = {}
         /\ keySched.phase = "awaitInstallWriteAp" /\ Queue[i].ok => AppKey

\* When the write key is lost before the flight is complete, no call that
\* would complete it is made or answered any more.
AppDueShape ==
  AppDue =>
    /\ \A i \in Rest : out[i].act # "writeHandshake"
    /\ ~AppKey => /\ \A i \in Rest : out[i].act # "callCrypto"
                  /\ \A i \in 1..Len(Queue) : Queue[i].ev # "cryptoResult"

\* Keys are installed during the flight only, and what drops them later drops
\* them all.
StageShape ==
  /\ \A i \in Rest : Installing(out[i]) => hs \in Flight
  /\ \A i \in Rest : out[i].act \in Dropping => hs \in Ending
  /\ hs \in FlightSent /\ ~AppKey => rt.keys = {}
  /\ InstallShape /\ AppDueShape

OpenKey ==
  \A i \in 1..Len(Queue) :
    OpenAnswer(Queue[i]) /\ Queue[i].ok => rt.keys # {}

LEMMA InstallsInFlight ==
  ASSUME NEW ops, Concludes(ops)
  PROVE  \A i \in 1..Len(out') : Installing(out'[i]) => hs' \in Flight
<1>1. CASE Stops
  BY <1>1 DEF Stops, Installing, WriteAlert
<1>2. CASE Keeps(ops)
  BY <1>2 DEF Keeps, Installing
<1>3. CASE Asks(ops)
  <2>1. PICK op \in CryptoOp, n \in 1..Len(out') :
          /\ out'[n] = CallCrypto(nextOpId, op)
          /\ \A i \in (1..Len(out')) \ {n} :
               \/ out'[i].act = "writeHandshake"
               \/ out'[i].act = "acceptPlaintextBytes"
          /\ op.kind = "installTrafficKeys" => hs' \in Flight
    BY <1>3 DEF Asks, FlightRecord
  <2> QED
    BY <2>1 DEF CallCrypto, Installing
<1> QED
  BY <1>1, <1>2, <1>3 DEF Concludes

\* Only the end of the key schedule leads out of the flight, into the phases
\* behind it.
LEMMA FlightSentFrom ==
  ASSUME Moves, hs' \in FlightSent, hs' = "sentServerFinished" => hs = hs'
  PROVE  hs \in FlightSent
<1>1. CASE Stays
  BY <1>1 DEF Stays
<1>2. CASE Forward
  BY <1>2, Order DEF Forward, FlightSent
<1>3. CASE Ends
  BY <1>3 DEF Ends, FlightSent
<1> QED
  BY <1>1, <1>2, <1>3 DEF Moves

LEMMA StepStage ==
  ASSUME ConnInv, ChainShape, StageShape, Step
  PROVE  StageShape'
<1> PICK e : e = Queue[1]
  OBVIOUS
<1>1. /\ Len(Queue) = 1 /\ e \in AnEvent /\ Handle(e)
      /\ Queue' = <<>> /\ Rest' = 1..Len(out') /\ rt' = rt
      /\ CoreStep /\ CoreInv
  BY StepFacts
<1>2. OffFlight \/ ((OnFlight \/ Completes) /\ e.ev = "cryptoResult" /\ e.ok)
  BY <1>1, EventFlight DEF CoreInv
<1>3. AppKey' = AppKey /\ rt'.keys = rt.keys
  BY <1>1 DEF AppKey
<1>4. \A i \in 1..Len(out') :
        /\ out'[i].act \in Dropping => hs' \in Ending
        /\ Installing(out'[i]) => hs' \in Flight
  <2>1. Absorb \/ \E ops \in SUBSET pendingOps : Concludes(ops)
    BY <1>1, CoreStepConcludes DEF CoreInv
  <2>2. CASE Absorb
    BY <2>2 DEF Absorb
  <2> QED
    BY <2>1, <2>2, DropsEnd, InstallsInFlight
<1>5. /\ Moves
      /\ hs \in FlightSent /\ ~AppKey => rt.keys = {}
  BY <1>1, CoreStepMoves DEF CoreInv, StageShape
<1>6. CASE OffFlight
  <2>1. hs' = "sentServerFinished" => hs = hs'
    BY <1>6 DEF OffFlight
  <2>2. hs' \in FlightSent => hs \in FlightSent
    BY <1>5, <2>1, FlightSentFrom
  <2>3. /\ \A i \in 1..Len(out') : out'[i].act # "writeHandshake"
        /\ hs' = "sentCertificateVerify" =>
             \A i \in 1..Len(out') : out'[i].act # "callCrypto"
    BY <1>6 DEF OffFlight, KeyPhase, Scheduling
  <2>4. InstallShape' /\ AppDueShape'
    BY <1>1, <2>3 DEF InstallShape, AppDueShape, AppDue
  <2> QED
    BY <1>1, <1>3, <1>4, <1>5, <2>2, <2>4 DEF StageShape, Installing
<1>7. CASE OnFlight /\ e.ev = "cryptoResult" /\ e.ok
  <2>1. hs' \in FlightSent => hs \in FlightSent
    BY <1>5, <1>7, FlightSentFrom DEF OnFlight
  <2>2. hs' = "sentCertificateVerify" =>
          \A i \in 1..Len(out') :
            out'[i].act = "callCrypto" =>
              out'[i].op = ScheduleOp(keySched') /\ i = Len(out')
    BY <1>7 DEF OnFlight, Scheduling
  <2>3. InstallShape'
    BY <1>1, <2>2 DEF InstallShape
  <2>4. AppDue' =>
          /\ \A i \in 1..Len(out') : out'[i].act # "writeHandshake"
          /\ AppKey
    <3>1. SUFFICES ASSUME AppDue'
                   PROVE  /\ \A i \in 1..Len(out') :
                               out'[i].act # "writeHandshake"
                          /\ AppKey
      OBVIOUS
    <3>2. /\ Len(out') = 1 /\ hs = "sentCertificateVerify"
          /\ keySched.phase = "awaitInstallWriteAp"
      BY <1>7, <3>1 DEF OnFlight
    <3>3. \A i \in 1..Len(out') : i = 1
      BY <3>2
    <3>4. out'[Len(out')].act = "callCrypto"
      BY <1>7, <3>2 DEF OnFlight
    <3>5. AppKey
      BY <1>1, <1>7, <3>2 DEF StageShape, InstallShape
    <3> QED
      BY <3>2, <3>3, <3>4, <3>5
  <2>5. AppDueShape'
    BY <1>1, <1>3, <2>4 DEF AppDueShape
  <2> QED
    BY <1>1, <1>3, <1>4, <1>5, <2>1, <2>3, <2>5 DEF StageShape, Installing
<1>8. CASE Completes /\ e.ev = "cryptoResult"
  <2>1. /\ hs' = "sentServerFinished" /\ out' = <<>> /\ AppKey
    BY <1>1, <1>8 DEF Completes, StageShape, AppDueShape
  <2>2. InstallShape' /\ AppDueShape'
    BY <1>1, <2>1 DEF InstallShape, AppDueShape, AppDue
  <2> QED
    BY <1>1, <1>3, <1>4, <2>1, <2>2 DEF StageShape, Installing
<1> QED
  BY <1>2, <1>6, <1>7, <1>8

LEMMA InstallsApKey ==
  ASSUME NEW ks, ks.phase = "awaitInstallWriteAp"
  PROVE  Installs(ScheduleOp(ks)) = {<<"write", "application">>}
<1>1. /\ Schedule(ks.phase).kind = "installTrafficKeys"
      /\ Schedule(ks.phase).label = "write application"
  BY DEF Schedule, Awaits
<1>2. /\ ScheduleOp(ks).kind = "installTrafficKeys"
      /\ ScheduleOp(ks).label = "write application"
  BY <1>1 DEF ScheduleOp
<1> QED
  BY <1>2 DEF Installs, KeyOf

\* The one event an action raises.
LEMMA RaisedOnly ==
  ASSUME ConnInv, ChainShape, Execute, Queue = <<>>,
         NEW e, Queue' = <<e>>, NEW f, Raise(f)
  PROVE  f = e
<1>1. /\ events \in Seq(AnEvent) /\ followUps \in Seq(AnEvent)
      /\ events' = events
  BY ExecuteCarried DEF Carried, ConnInv, ConnType, DriveType
<1>2. events = <<>> /\ followUps = <<>>
  BY <1>1, EmptySeq DEF Queue
<1>3. followUps' = <<f>> /\ events' = <<>>
  BY <1>1, <1>2 DEF Raise
<1>4. Queue' = <<f>>
  BY <1>3 DEF Queue
<1> QED
  BY <1>4

LEMMA ExecStage ==
  ASSUME ConnInv, ChainShape, StageShape, Execute
  PROVE  StageShape'
<1> PICK p : p = performed + 1
  OBVIOUS
<1>1. /\ Current = out[p] /\ p \in Rest /\ Rest' = Rest \ {p}
      /\ UNCHANGED <<hs, out>> /\ Rest \subseteq 1..Len(out)
      /\ Rest = p..Len(out) /\ p \in Nat /\ Len(out) \in Nat
  BY ExecBase DEF Rest
<1>2. keySched' = keySched /\ AppDue' = AppDue
  <2>1. keySched' = keySched
    BY ExecuteCarried DEF Carried, vars, coreVars, flightVars, ConnInv
  <2> QED
    BY <1>1, <2>1 DEF AppDue
<1>3. \/ Queue' = Queue
      \/ /\ Raises(Current) /\ Queue = <<>>
         /\ \E e : Queue' = <<e>> /\ Raised(e)
  BY ExecQueue
<1>4. followUps' = followUps => Queue' = Queue
  BY ExecuteCarried DEF Carried, Queue, ConnInv
<1>5. hs = "sentCertificateVerify" => hs \notin Ending
  BY DEF Ending, TerminalPhase
<1>6. \A i \in Rest' : /\ (Installing(out[i]) => hs \in Flight)'
                       /\ (out[i].act \in Dropping => hs \in Ending)'
  BY <1>1 DEF StageShape, Installing
<1>7. (hs \in FlightSent /\ ~AppKey => rt.keys = {})'
  <2>1. SUFFICES ASSUME hs \in FlightSent
                 PROVE  ~AppKey' => rt'.keys = {}
    BY <1>1
  <2>2. hs \notin Flight
    BY <2>1 DEF FlightSent, Flight
  <2>3. rt'.keys \in {{}, rt.keys}
    BY <1>1, <2>2, ExecBase DEF StageShape
  <2> QED
    BY <2>1, <2>3 DEF StageShape, AppKey
<1>8. ASSUME hs = "sentCertificateVerify"
      PROVE  /\ \A i \in Rest' : out[i].act = "callCrypto" =>
                  out[i].op = ScheduleOp(keySched) /\ i = Len(out)
             /\ \A i \in 1..Len(Queue') : Queue'[i].ev = "cryptoResult" =>
                  /\ Rest' = {}
                  /\ keySched.phase = "awaitInstallWriteAp" /\ Queue'[i].ok =>
                       AppKey'
  <2>1. /\ \A i \in Rest : out[i].act = "callCrypto" =>
             out[i].op = ScheduleOp(keySched) /\ i = Len(out)
        /\ \A i \in 1..Len(Queue) : Queue[i].ev = "cryptoResult" => Rest = {}
    BY <1>8 DEF StageShape, InstallShape
  <2>2. CASE Queue' = Queue
    BY <1>1, <2>1, <2>2
  <2>3. ASSUME NEW e, Queue = <<>>, Queue' = <<e>>, Raised(e)
        PROVE  \A i \in 1..Len(Queue') : Queue'[i].ev = "cryptoResult" =>
                 /\ Rest' = {}
                 /\ keySched.phase = "awaitInstallWriteAp" /\ Queue'[i].ok =>
                      AppKey'
    <3>1. Len(Queue') = 1 /\ Queue'[1] = e
      BY <2>3
    <3>2. SUFFICES ASSUME e.ev = "cryptoResult"
                   PROVE  /\ Rest' = {}
                          /\ keySched.phase = "awaitInstallWriteAp" /\ e.ok =>
                               AppKey'
      BY <3>1
    <3>3. Current.act = "callCrypto"
      BY <2>3, <3>2 DEF Raised
    <3>4. Current.op = ScheduleOp(keySched) /\ p = Len(out)
      BY <1>1, <2>1, <3>3
    <3>5. Rest' = {}
      BY <1>1, <3>4
    <3>6. ASSUME keySched.phase = "awaitInstallWriteAp", e.ok
          PROVE  AppKey'
      <4>1. KeyMoves
        BY <3>3, ExecKeyMoves
      <4>2. followUps' # followUps
        BY <1>4, <2>3
      <4>3. ~(\E f : Raise(f) /\ ~f.ok)
        BY <2>3, <3>6, RaisedOnly
      <4>4. rt'.keys = rt.keys \cup Installs(Current.op)
        BY <3>3, <4>1, <4>2, <4>3 DEF KeyMoves, Dropping
      <4>5. Installs(Current.op) = {<<"write", "application">>}
        BY <3>4, <3>6, InstallsApKey
      <4> QED
        BY <4>4, <4>5 DEF AppKey
    <3> QED
      BY <3>5, <3>6
  <2> QED
    BY <1>1, <1>3, <2>1, <2>2, <2>3
<1>9. ASSUME AppDue
      PROVE  /\ \A i \in Rest' : out[i].act # "writeHandshake"
             /\ ~AppKey' =>
                  /\ \A i \in Rest' : out[i].act # "callCrypto"
                  /\ \A i \in 1..Len(Queue') : Queue'[i].ev # "cryptoResult"
  <2>1. \A i \in Rest : out[i].act # "writeHandshake"
    BY <1>9 DEF StageShape, AppDueShape
  <2>2. Current.act # "writeHandshake" /\ Current.act \notin Dropping
    BY <1>1, <1>5, <1>9, <2>1 DEF StageShape, AppDue
  <2>3. KeyMoves
    BY <2>2, ExecKeyMoves
  <2>4. CASE AppKey
    <3>1. SUFFICES ASSUME ~AppKey'
                   PROVE  /\ \A i \in Rest' : out[i].act # "callCrypto"
                          /\ \A i \in 1..Len(Queue') :
                               Queue'[i].ev # "cryptoResult"
      BY <1>1, <2>1
    <3>2. Current.act = "callCrypto" /\ followUps' = followUps
      BY <2>2, <2>3, <2>4, <3>1 DEF KeyMoves, AppKey
    <3>3. Queue' = Queue /\ Queue = <<>>
      BY <1>1, <1>4, <3>2 DEF ChainShape, Raises
    <3>4. Rest' = {}
      BY <1>1, <1>9, <3>2 DEF StageShape, InstallShape, AppDue
    <3> QED
      BY <3>3, <3>4
  <2>5. CASE ~AppKey
    <3>1. /\ \A i \in Rest : out[i].act # "callCrypto"
          /\ \A i \in 1..Len(Queue) : Queue[i].ev # "cryptoResult"
      BY <1>9, <2>5 DEF StageShape, AppDueShape
    <3>2. ASSUME NEW e, Queue' = <<e>>, Raised(e)
          PROVE  \A i \in 1..Len(Queue') : Queue'[i].ev # "cryptoResult"
      <4>1. Len(Queue') = 1 /\ Queue'[1] = e
        BY <3>2
      <4>2. e.ev # "cryptoResult"
        BY <1>1, <3>1, <3>2 DEF Raised
      <4> QED
        BY <4>1, <4>2
    <3> QED
      BY <1>1, <1>3, <2>1, <3>1, <3>2
  <2> QED
    BY <2>4, <2>5
<1>10. InstallShape' /\ AppDueShape'
  BY <1>1, <1>2, <1>8, <1>9 DEF InstallShape, AppDueShape
<1> QED
  BY <1>6, <1>7, <1>10 DEF StageShape

\* A call from outside brings no answer of the provider.
LEMMA CallsStage ==
  ASSUME ConnInv, StageShape, OpenKey, Calls
  PROVE  StageShape' /\ OpenKey'
<1>1. /\ Rest' = {} /\ hs' = hs /\ rt'.keys = rt.keys
  BY CallsKeep
<1>2. keySched' = keySched
  BY CallsCalled DEF Called, vars, coreVars, flightVars, ConnInv
<1>3. AppKey' = AppKey /\ AppDue' = AppDue
  BY <1>1, <1>2 DEF AppKey, AppDue
<1>4. \A i \in 1..Len(Queue') :
        Queue'[i].ev # "cryptoResult" \/ (Queue' = Queue)
  BY CallsNoAnswer
<1>5. InstallShape' /\ AppDueShape'
  BY <1>1, <1>2, <1>3, <1>4 DEF StageShape, InstallShape, AppDueShape
<1>6. OpenKey'
  BY <1>1, <1>4 DEF OpenKey, OpenAnswer
<1> QED
  BY <1>1, <1>3, <1>5, <1>6 DEF StageShape

\* A record is opened with a read key, which is there when the answer comes.
LEMMA ExecOpenKey ==
  ASSUME ConnInv, ChainShape, BodiesShape, Execute
  PROVE  OpenKey'
<1> USE DEF Perform
<1>1. performed + 1 \in Rest
  BY ExecBase
<1>2. \/ Queue' = Queue
      \/ /\ Raises(Current) /\ Queue = <<>>
         /\ \E e : Queue' = <<e>> /\ Raised(e)
  BY ExecQueue
<1>3. CASE Queue' = Queue
  BY <1>1, <1>3 DEF BodiesShape, OpenKey, OpenAnswer
<1>4. ASSUME NEW e, Queue = <<>>, Queue' = <<e>>, Raised(e)
      PROVE  OpenKey'
  <2>1. Len(Queue') = 1 /\ Queue'[1] = e
    BY <1>4
  <2>2. SUFFICES ASSUME OpenAnswer(e), e.ok
                 PROVE  rt'.keys # {}
    BY <2>1 DEF OpenKey, OpenAnswer
  <2>3. \A f : Raise(f) => f = e
    BY <1>4, RaisedOnly
  <2>4. e.ev = "cryptoResult" /\ Current.act = "callCrypto"
        /\ Current.op.kind = "aeadOpen"
    BY <1>4, <2>2 DEF OpenAnswer, Raised, ProviderCall
  <2>5. followUps' # followUps
    <3>1. Queue' # Queue
      BY <1>4, <2>1
    <3> QED
      BY <3>1, ExecuteCarried DEF Carried, Queue, ConnInv
  <2>6. ProviderSucceeds \/ ProviderFails \/ ProviderMisanswers
    <3>1. CASE ReadBytes \/ ReadNothing \/ ReadEnd
      BY <2>4, <3>1 DEF ReadBytes, ReadNothing, ReadEnd
    <3>2. CASE WriteSealed \/ WriteFlight \/ WriteAlertRecord
      BY <2>4, <3>2 DEF WriteSealed, WriteFlight, WriteAlertRecord
    <3>3. CASE Plaintext \/ Report \/ CloseConnection
      BY <2>4, <3>3 DEF Plaintext, Report, CloseConnection
    <3> QED
      BY <3>1, <3>2, <3>3 DEF Execute
  <2>7. CASE ProviderSucceeds
    <3> DEFINE keys == rt.keys \cup Installs(Current.op)
    <3>1. Resolves(Current.op) \subseteq rt.keys
          /\ rt' = [rt EXCEPT !.keys = keys]
      BY <2>7 DEF ProviderSucceeds
    <3>2. <<"read", Current.op.epoch>> \in rt.keys
      BY <2>4, <3>1 DEF Resolves
    <3>3. keys # {}
      BY <3>2
    <3> HIDE DEF keys
    <3>4. rt \in Runtime
      BY DEF ConnInv, ConnType, RuntimeType
    <3> QED
      BY <3>1, <3>3, <3>4 DEF Runtime
  <2>8. CASE ProviderFails
    <3>1. Raise([ev |-> "cryptoResult", call |-> ProviderCall, ok |-> FALSE])
      BY <2>8 DEF ProviderFails
    <3> QED
      BY <2>2, <2>3, <3>1
  <2>9. CASE ProviderMisanswers
    BY <2>5, <2>9 DEF ProviderMisanswers
  <2> QED
    BY <2>6, <2>7, <2>8, <2>9
<1> QED
  BY <1>2, <1>3, <1>4

-----------------------------------------------------------------------------
(* The connection implements the channel, step by step.                    *)

ViewInv == DeliveryInv /\ SealInv /\ StageShape /\ OpenKey

ChannelStep == [Channel!Next]_(Channel!channelVars)

LEMMA SameView ==
  ASSUME ChannelStatus' = ChannelStatus, Buffered' = Buffered,
         received' = received, Committed' = Committed, owned' = owned
  PROVE  ChannelStep
BY DEF ChannelStep, Channel!channelVars, Buffered

LEMMA EndsView ==
  ASSUME ChannelStatus' = "ended", Buffered' \in {Buffered, <<>>},
         received' = received, Committed' = Committed, owned' = owned
  PROVE  ChannelStep
BY DEF ChannelStep, Channel!Next, Channel!End, Buffered

\* The state of the core and the keys decide the status.
LEMMA StatusOf ==
  /\ hs \in Ending <=> hs \in TerminalPhase \cup {"closing"}
  /\ ChannelStatus = "open" <=> Connected /\ rt.keys # {}
  /\ ChannelStatus = "opening" <=> Early
  /\ ChannelStatus = "ended" <=> hs \in Ending \/ (Connected /\ rt.keys = {})
BY DEF ChannelStatus, Ending, TerminalPhase, Connected, Early

\* A step of the core opens the channel, ends it or leaves it as it is.
LEMMA StatusMoves ==
  ASSUME Moves, rt' = rt
  PROVE  \/ ChannelStatus' = ChannelStatus
         \/ ChannelStatus = "opening" /\ ChannelStatus' = "open"
         \/ ChannelStatus' = "ended"
<1>1. CASE Stays
  BY <1>1 DEF Stays, ChannelStatus
<1>2. CASE Forward
  <2>1. hs \notin {"connected", "closing"} \cup TerminalPhase
        /\ hs' \notin {"closing"} \cup TerminalPhase
    BY <1>2, Order DEF Forward, TerminalPhase
  <2> QED
    BY <2>1 DEF ChannelStatus
<1>3. CASE Ends
  <2>1. hs' \in {"closing"} \cup TerminalPhase
    BY <1>3 DEF Ends, TerminalPhase
  <2> QED
    BY <2>1 DEF ChannelStatus
<1> QED
  BY <1>1, <1>2, <1>3 DEF Moves

LEMMA StreamNumbered ==
  ASSUME NumberedStreams, peer \in Streams, NEW a \in Bytes,
         NEW rest \in Bytes, Whole = a \o rest
  PROVE  Numbered(a)
<1>1. Numbered(a \o rest)
  BY DEF NumberedStreams, Whole
<1> QED
  BY <1>1, NumberedBegins

\* What arrives continues the units that were read.
LEMMA ComesNumbered ==
  ASSUME NumberedStreams, ConnInv, CountShape, Comes, received' = received
  PROVE  /\ Buffered' \in Bytes /\ received \in Bytes
         /\ \A i \in 1..Len(Buffered') : Buffered'[i] = Len(received) + i
<1> PICK c : c = Buffered'
  OBVIOUS
<1>1. received \in Bytes /\ peer \in Streams
  BY BufferParts DEF ConnInv, ConnType, RuntimeType
<1>2. c \in Bytes
  <2>1. Contents(peer) \in Seq(Seq(Nat)) /\ Len(Contents(peer)) = Len(peer)
    BY StreamType
  <2>2. readEpoch.seq + 1 \in 1..Len(Contents(peer))
    BY <2>1 DEF Comes, ConnInv, ConnType, CoreInv, TypeOK, EpochState
  <2> QED
    BY <2>1, <2>2 DEF Comes, Bytes
<1>3. Numbered(received \o c)
  <2>1. Arrived' = received \o c
    BY DEF Arrived
  <2>2. PICK rest \in Bytes : Whole = Arrived' \o rest
    BY OneMore
  <2>3. received \o c \in Bytes
    BY <1>1, <1>2 DEF Bytes
  <2> QED
    BY <1>1, <2>1, <2>2, <2>3, StreamNumbered
<1>4. \A i \in 1..Len(c) : c[i] = Len(received) + i
  <2>1. received \in Seq(Nat) /\ c \in Seq(Nat)
    BY <1>1, <1>2 DEF Bytes
  <2>2. ASSUME NEW i \in 1..Len(c)
        PROVE  c[i] = Len(received) + i
    <3>1. /\ Len(received) + i \in 1..Len(received \o c)
          /\ (received \o c)[Len(received) + i] = c[i]
      BY <2>1
    <3> QED
      BY <1>3, <3>1 DEF Numbered
  <2> QED
    BY <2>2
<1> QED
  BY <1>1, <1>2, <1>4

LEMMA ComesView ==
  ASSUME NumberedStreams, ConnInv, CountShape, OpenKey, Comes, rt' = rt,
         received' = received, Committed' = Committed, owned' = owned
  PROVE  ChannelStep
<1> PICK c : c = Buffered'
  OBVIOUS
<1>1. /\ c \in Bytes /\ received \in Bytes
      /\ \A i \in 1..Len(c) : c[i] = Len(received) + i
  BY ComesNumbered
<1>2. ChannelStatus = "open" /\ ChannelStatus' = "open"
  <2>1. rt.keys # {} /\ Connected /\ hs' = hs
    BY DEF OpenKey, Comes
  <2> QED
    BY <2>1 DEF ChannelStatus, Connected, TerminalPhase
<1>3. Buffered = <<>>
  BY DEF Comes
<1>4. CASE c = <<>>
  BY <1>2, <1>3, <1>4, SameView
<1>5. CASE c # <<>>
  <2> DEFINE d == [i \in 1..Len(c) |-> Len(received) + i]
  <2>1. c \in Seq(Nat) /\ Len(c) \in Nat \ {0}
    BY <1>1, <1>5, EmptySeq DEF Bytes
  <2>2. d \in Seq(Nat) /\ Len(d) = Len(c)
    BY <1>1, <2>1 DEF Bytes
  <2>3. c = d
    BY <1>1, <2>1, <2>2
  <2>4. received \o Buffered = received /\ Buffered \o d = d
    BY <1>1, <1>3, <2>2 DEF Bytes
  <2>5. Len(c) \in 1..Len(Buffered')
    BY <2>1
  <2>6. Buffered' = Buffered \o [i \in 1..Len(c) |->
                                    Len(received \o Buffered) + i]
    BY <2>3, <2>4
  <2>7. Channel!Arrive
    BY <1>2, <2>5, <2>6 DEF Channel!Arrive, Buffered
  <2> QED
    BY <2>7 DEF ChannelStep, Channel!Next
<1> QED
  BY <1>4, <1>5

LEMMA StepView ==
  ASSUME NumberedStreams, ViewInv, Step
  PROVE  ChannelStep
<1> USE DEF ViewInv, DeliveryInv
<1>1. /\ UNCHANGED <<rt, received, owned>> /\ Written' = Written
      /\ CoreStep /\ TypeOK
  BY StepFacts DEF CoreInv
<1>2. Committed' = Committed /\ Moves
  BY <1>1, StillWritten, CoreStepMoves
<1>3. \/ ChannelStatus' = ChannelStatus
      \/ ChannelStatus = "opening" /\ ChannelStatus' = "open"
      \/ ChannelStatus' = "ended"
  BY <1>1, <1>2, StatusMoves
<1>4. CASE Buffered' = Buffered
  <2>1. CASE ChannelStatus' = ChannelStatus
    BY <1>1, <1>2, <1>4, <2>1, SameView
  <2>2. CASE ChannelStatus = "opening" /\ ChannelStatus' = "open"
    BY <1>1, <1>2, <1>4, <2>2
    DEF ChannelStep, Channel!Next, Channel!Open, Buffered
  <2>3. CASE ChannelStatus' = "ended"
    BY <1>1, <1>2, <1>4, <2>3, EndsView
  <2> QED
    BY <1>3, <2>1, <2>2, <2>3
<1>5. CASE Buffered' = <<>> /\ ~Connected'
  <2>1. CASE hs' \in Ending
    <3>1. ChannelStatus' = "ended"
      BY <2>1 DEF ChannelStatus, Ending
    <3> QED
      BY <1>1, <1>2, <1>5, <3>1, EndsView
  <2>2. CASE hs' \notin Ending
    <3>1. Early'
      BY <1>5, <2>2 DEF Early, Connected
    <3>2. Early
      BY <1>2, <3>1, EarlyWas
    <3>3. Buffered = <<>>
      <4>1. received \in Bytes /\ Buffered \in Bytes /\ Arrived = <<>>
        BY <3>2, BufferParts DEF CountShape
      <4> QED
        BY <4>1 DEF Arrived, Bytes
    <3> QED
      BY <1>4, <1>5, <3>3
  <2> QED
    BY <2>1, <2>2
<1>6. CASE Comes
  BY <1>1, <1>2, <1>6, ComesView
<1> QED
  BY <1>4, <1>5, <1>6, StepBuffer

\* What the interpreter does to the keys of a connected core can only end the
\* channel.
LEMMA ExecStatus ==
  ASSUME ConnInv, ChainShape, EarlyShape, Execute
  PROVE  ChannelStatus' = ChannelStatus \/ ChannelStatus' = "ended"
<1>1. /\ Current = out[performed + 1] /\ performed + 1 \in Rest
      /\ hs' = hs
      /\ (~Installing(Current) => rt'.keys \in {{}, rt.keys})
  BY ExecBase
<1>2. CASE Connected
  <2>1. ~Early
    BY <1>2 DEF Early, Connected
  <2>2. rt'.keys \in {{}, rt.keys}
    BY <1>1, <2>1 DEF EarlyShape
  <2> QED
    BY <1>1, <1>2, <2>2 DEF ChannelStatus, Connected, TerminalPhase
<1>3. CASE ~Connected
  BY <1>1, <1>3 DEF ChannelStatus, Connected
<1> QED
  BY <1>2, <1>3

\* What is sealed goes out on an open channel.
LEMMA WriteView ==
  ASSUME ViewInv, Execute, Current.act = "writeTransport",
         Buffered' = Buffered, received' = received, owned' = owned
  PROVE  ChannelStep
<1> USE DEF ViewInv, SealInv
<1> PICK op : op = answered[1].op
  OBVIOUS
<1>1. Current = out[performed + 1] /\ performed + 1 \in Rest /\ hs' = hs
  BY ExecBase
<1>2. WriteSealed
  BY DEF Execute, Perform, ReadBytes, ReadNothing, ReadEnd,
         WriteFlight, WriteAlertRecord, Plaintext, Report, CloseConnection,
         ProviderSucceeds, ProviderFails, ProviderMisanswers
<1>3. ConnType /\ RuntimeType
  BY DEF ConnInv, ConnType
<1>4. /\ Adds(SealedUnits(op)) /\ op \in CryptoOp /\ op.kind = "aeadSeal"
  BY <1>2, <1>3, WriteSealedAdds
<1>5. AppKey /\ SealsLast(op)
  <2>1. SealParts
    BY <1>1 DEF EarlyShape, SealToWrite, SealShape, SealParts
  <2> QED
    BY <1>1, <2>1 DEF SealParts, WriteShape
<1>6. ChannelStatus' = ChannelStatus
  BY <1>1, <1>4 DEF Adds, ChannelStatus
<1>7. CASE SealsData(op)
  <2>1. /\ Len(op.inner.content) \in Nat
        /\ op.inner.ctype = "applicationData"
    BY <1>4, <1>7, SealedContent DEF SealsData
  <2>2. Committed \in Nat /\ Committed' = Committed + Len(op.inner.content)
    BY <1>3, <1>4, <2>1, SealedPlaces
  <2>3. ChannelStatus = "open"
    <3>1. Connected /\ rt.keys # {}
      BY <1>5, <1>7 DEF SealsData, AppKey
    <3> QED
      BY <3>1 DEF ChannelStatus, Connected, TerminalPhase
  <2>4. CASE Len(op.inner.content) = 0
    BY <1>6, <2>2, <2>4, SameView
  <2>5. CASE Len(op.inner.content) # 0
    <3>1. Committed' > Committed
      BY <2>1, <2>2, <2>5
    <3>2. Channel!Commit
      BY <1>6, <2>3, <3>1 DEF Channel!Commit, Buffered
    <3> QED
      BY <3>2 DEF ChannelStep, Channel!Next
  <2> QED
    BY <2>4, <2>5
<1>8. CASE SealsNotify(op)
  <2>1. Committed \in Nat /\ Committed' = Committed + 0
    BY <1>3, <1>4, <1>8, SealedPlaces DEF SealsNotify
  <2>2. Committed' = Committed
    BY <2>1
  <2> QED
    BY <1>6, <2>2, SameView
<1> QED
  BY <1>5, <1>7, <1>8 DEF SealsLast

LEMMA ExecView ==
  ASSUME ViewInv, Execute
  PROVE  ChannelStep
<1>0. ConnInv /\ ChainShape /\ EarlyShape /\ PlainShape
  BY DEF ViewInv, DeliveryInv
<1>1. Buffered' = Buffered /\ received' = received /\ owned' = owned
  BY <1>0, ExecPlain, ExecRuntime, ExecBase
<1>2. CASE Current.act = "writeTransport"
  BY <1>1, <1>2, WriteView
<1>3. CASE Current.act # "writeTransport"
  BY <1>0, <1>1, <1>3, OthersKept, ExecStatus, SameView, EndsView
<1> QED
  BY <1>2, <1>3

\* send reports all that was committed.
LEMMA SendView ==
  ASSUME ViewInv, SendReturn, owned' # owned
  PROVE  ChannelStep
<1> USE DEF ViewInv, SealInv
<1>0. Calls
  BY DEF Calls
<1>1. /\ call = "send" /\ Live /\ rt.acceptedBytes > 0
      /\ owned' = owned + rt.acceptedBytes
      /\ UNCHANGED <<vars, peer, performed, rt, received>>
  BY DEF SendReturn, Finish
<1>2. rt.acceptedBytes \in Nat /\ owned \in Nat
  BY DEF ConnInv, ConnType, RuntimeType, Runtime
<1>3. /\ Written' = Written /\ UNCHANGED <<hs, out, pendingPlain>>
  BY <1>0, <1>1, CallsKeep DEF vars, coreVars
<1>4. Buffered' = Buffered
  BY <1>1, <1>3 DEF Buffered, Emitting, Performed, Current
<1>5. ChannelStatus' = ChannelStatus /\ Committed' = Committed
  BY <1>1, <1>3, StillWritten DEF ChannelStatus
<1>6. SealParts
  BY <1>1 DEF SealShape, SealParts
<1>7. ChannelStatus = "open" => owned' = Committed
  <2>1. SUFFICES ASSUME ChannelStatus = "open"
                 PROVE  owned' = Committed
    OBVIOUS
  <2>2. hs = "connected" /\ rt.keys # {}
    BY <2>1 DEF ChannelStatus
  <2>3. AppKey
    BY <2>2 DEF StageShape, FlightSent
  <2>4. ~Lost /\ ~InHand
    BY <1>0, <1>6, <2>3, CallsQuiet DEF Lost
  <2> QED
    BY <1>1, <1>6, <2>4 DEF SealParts, Ledger
<1>8. owned' > owned
  BY <1>1, <1>2
<1>9. Channel!Accept
  BY <1>1, <1>4, <1>5, <1>7, <1>8 DEF Channel!Accept, Buffered
<1> QED
  BY <1>9 DEF ChannelStep, Channel!Next

LEMMA CallsView ==
  ASSUME ReadsInProgress = FALSE, ViewInv, Calls
  PROVE  ChannelStep
<1>0. ConnInv /\ PlainShape
  BY DEF ViewInv, DeliveryInv
<1>1. ChannelStatus' = ChannelStatus /\ Committed' = Committed
  BY <1>0, CallsKeep, StillWritten DEF ChannelStatus
<1>2. owned' = owned \/ SendReturn
  BY DEF Calls, RecvStart, RecvPull, RecvRetry, RecvReturn, DeliverPlaintext,
         SendStart, SendNothing, FlushStart, FlushReturn, CloseStart,
         CloseReturn, ProgressStart, ProgressReturn, Start, callerVars
<1>3. CASE owned' # owned
  BY <1>2, <1>3, SendView
<1>4. CASE owned' = owned /\ received' = received /\ Buffered' = Buffered
  BY <1>1, <1>4, SameView
<1>5. CASE /\ owned' = owned
           /\ received' = received \o Buffered /\ Buffered' = <<>>
  <2>1. CASE Buffered = <<>>
    <3>1. received' = received
      BY <1>0, <1>5, <2>1, BufferParts, BytesNothing
    <3> QED
      BY <1>1, <1>5, <2>1, <3>1, SameView
  <2>2. CASE Buffered # <<>>
    <3>1. Channel!Deliver
      BY <1>1, <1>5, <2>2 DEF Channel!Deliver, Buffered
    <3> QED
      BY <3>1 DEF ChannelStep, Channel!Next
  <2> QED
    BY <2>1, <2>2
<1> QED
  BY <1>0, <1>3, <1>4, <1>5, CallsBuffer

LEMMA InitChannel == ConnInit => ViewInv /\ Channel!Init
<1> SUFFICES ASSUME ConnInit
             PROVE  ViewInv /\ Channel!Init
  OBVIOUS
<1>1. DeliveryInv /\ SealInv
  BY InitDelivery, InitSeal
<1>2. /\ hs = "start" /\ out = <<>> /\ performed = 0 /\ rt.keys = {}
      /\ events = <<>> /\ followUps = <<>> /\ call = "none"
      /\ received = <<>> /\ owned = 0
  BY DEF ConnInit, Init
<1>3. Rest = {} /\ Queue = <<>> /\ Early /\ Live /\ ~Connected
  BY <1>2
  DEF Rest, Queue, Early, Live, Terminal, Ending, TerminalPhase, Connected
<1>4. StageShape /\ OpenKey
  BY <1>2, <1>3
  DEF StageShape, InstallShape, AppDueShape, AppDue, OpenKey, FlightSent
<1>5. ChannelStatus = "opening"
  BY <1>2 DEF ChannelStatus, TerminalPhase
<1>6. Committed = 0
  BY <1>1, <1>2, <1>3 DEF SealInv, SealShape, Ledger
<1>7. Buffered = <<>>
  <2>1. ConnInv /\ Arrived = <<>>
    BY <1>1, <1>3 DEF DeliveryInv, CountShape
  <2>2. received \in Bytes /\ Buffered \in Bytes
    BY <2>1, BufferParts
  <2> QED
    BY <2>1, <2>2 DEF Arrived, Bytes
<1> QED
  BY <1>1, <1>2, <1>4, <1>5, <1>6, <1>7
  DEF ViewInv, Channel!Init, Buffered

LEMMA StutterView ==
  ASSUME ViewInv, UNCHANGED connVars
  PROVE  StageShape' /\ OpenKey' /\ ChannelStep
<1>1. UNCHANGED <<hs, out, keySched, pendingPlain, events, followUps,
                  performed, rt, wire, received, owned>>
  BY DEF connVars, vars, coreVars, flightVars, driveVars, wireVars, callerVars
<1>2. /\ Queue' = Queue /\ Rest' = Rest /\ Written' = Written
      /\ Performed' = Performed /\ Current' = Current
  BY <1>1 DEF Queue, Rest, Written, Performed, Current
<1>3. AppKey' = AppKey /\ AppDue' = AppDue
  BY <1>1 DEF AppKey, AppDue
<1>4. StageShape' /\ OpenKey'
  BY <1>1, <1>2, <1>3
  DEF ViewInv, StageShape, InstallShape, AppDueShape, OpenKey
<1>5. Buffered' = Buffered
  BY <1>1, <1>2 DEF Buffered, Emitting
<1>6. ChannelStatus' = ChannelStatus /\ Committed' = Committed
  BY <1>1, <1>2, StillWritten DEF ChannelStatus
<1> QED
  BY <1>1, <1>4, <1>5, <1>6, SameView

LEMMA ViewInvStep ==
  ASSUME ReadsInProgress = FALSE, MaxSteps >= 2
  PROVE  ViewInv /\ [ConnNext]_connVars => ViewInv'
<1> SUFFICES ASSUME ViewInv, [ConnNext]_connVars
             PROVE  ViewInv'
  OBVIOUS
<1>0. DeliveryInv /\ SealInv /\ StageShape /\ OpenKey
  BY DEF ViewInv
<1>1. ConnInv /\ ChainShape /\ BodiesShape
  BY <1>0 DEF DeliveryInv
<1>2. DeliveryInv' /\ SealInv'
  BY <1>0, DeliveryInvStep, SealInvStep
<1>3. CASE Step
  <2>1. OpenKey'
    <3>1. Queue' = <<>>
      BY <1>1, <1>3, StepFacts
    <3> QED
      BY <3>1 DEF OpenKey
  <2> QED
    BY <1>0, <1>1, <1>2, <1>3, <2>1, StepStage DEF ViewInv
<1>4. CASE Execute
  BY <1>0, <1>1, <1>2, <1>4, ExecStage, ExecOpenKey DEF ViewInv
<1>5. CASE Calls
  BY <1>0, <1>1, <1>2, <1>5, CallsStage DEF ViewInv
<1>6. CASE UNCHANGED connVars
  BY <1>2, <1>6, StutterView DEF ViewInv
<1> QED
  BY <1>3, <1>4, <1>5, <1>6 DEF ConnNext

\* The connection implements SecureChannel: under every step of core,
\* interpreter, provider, transport and caller the channel opens once, ends for
\* good, takes in the peer's plaintext in order while it is open, hands all of
\* it to the caller, seals only while it is open, and tells the caller of
\* exactly what was sealed.
THEOREM ChannelCorrect ==
  ASSUME ReadsInProgress = FALSE, NumberedStreams, MaxSteps >= 2
  PROVE  ConnSpec => ImplementsChannel
<1>1. ConnInit => ViewInv /\ Channel!Init
  BY InitChannel
<1>2. ViewInv /\ [ConnNext]_connVars => ViewInv'
  BY ViewInvStep
<1>3. ViewInv /\ [ConnNext]_connVars => ChannelStep
  BY StepView, ExecView, CallsView, StutterView DEF ConnNext
<1>4. ViewInv /\ [ConnNext]_connVars => [Channel!Next]_(Channel!channelVars)
  BY <1>3 DEF ChannelStep
<1> QED
  BY <1>1, <1>2, <1>4, PTL DEF ConnSpec, ImplementsChannel, Channel!Spec
=============================================================================
