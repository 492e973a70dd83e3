------------------------------ MODULE TlsCore -------------------------------
(***************************************************************************)
(* Kroopt.Core.step: the pure, deterministic TLS 1.3 server protocol core. *)
(* One action per input event and handler leaf.  The variable out is the   *)
(* list of OutputActions the last step returned; every other variable is a *)
(* field of Core.State.  The environment of Next is open: any bytes may    *)
(* arrive, and any outstanding operation may be answered, in any order,    *)
(* with any answer its kind allows.                                        *)
(***************************************************************************)
EXTENDS TlsTypes

CONSTANTS
  Chunks,           \* what one transportBytes event may complete
  Inners,           \* what an opened record may contain
  MaxOps,           \* bound of the model: operations issued
  MaxInbound        \* bound of the model: complete records buffered

ASSUME InputsAssumption == Chunks \subseteq Seq(Record) /\ Inners \subseteq Inner
ASSUME BoundsAssumption == MaxOps \in Nat /\ MaxInbound \in Nat

VARIABLES
  hs,               \* handshake
  closeState,
  readEpoch, writeEpoch,
  pendingOps, nextOpId,
  inbound,          \* inboundCiphertext: complete records not yet framed
  outbound,         \* outboundCiphertext: ids of the seals it retains
  reasm,            \* handshakeReasm
  pendingPlain,     \* pendingPlainOut: <<>> or one record's content
  pendingFinished,  \* pendingClientFinished: <<>> or one message
  transcript,
  keySched,
  budgets,
  out

bufferVars == <<inbound, outbound, reasm>>
flightVars == <<transcript, keySched, pendingFinished, budgets>>
epochVars == <<readEpoch, writeEpoch>>
opVars == <<pendingOps, nextOpId>>
coreVars == <<hs, closeState, readEpoch, writeEpoch, pendingOps, nextOpId,
              inbound, outbound, reasm, pendingPlain, pendingFinished,
              transcript, keySched, budgets>>
vars == <<coreVars, out>>

-----------------------------------------------------------------------------
(* Output actions.                                                         *)

Act(name) == [act |-> name]
CallCrypto(id, op) == [act |-> "callCrypto", id |-> id, op |-> op]
WriteAlert(e) == [act |-> "writeAlert", epoch |-> e.epoch, seq |-> e.seq]
WriteHandshake(epoch, seq, msg) ==
  [act |-> "writeHandshake", epoch |-> epoch, seq |-> seq, msg |-> msg]
WriteTransport(id) == [act |-> "writeTransport", id |-> id]
CloseTransport(mode) == [act |-> "closeTransport", mode |-> mode]
EmitPlaintext(c) == [act |-> "emitPlaintext", content |-> c]
AcceptPlaintext(n) == [act |-> "acceptPlaintextBytes", count |-> n]

OutputAction ==
  [act : {"failWithAlert", "reportError", "readTransport",
          "reportHandshakeComplete"}] \cup
  [act : {"callCrypto"}, id : Nat, op : CryptoOp] \cup
  [act : {"writeAlert"}, epoch : Epoch, seq : 0..MaxSeq] \cup
  [act : {"writeHandshake"}, epoch : Epoch, seq : 0..3, msg : ServerMessage]
  \cup
  [act : {"writeTransport"}, id : Nat] \cup
  [act : {"closeTransport"}, mode : CloseMode] \cup
  [act : {"emitPlaintext"}, content : Bytes] \cup
  [act : {"acceptPlaintextBytes"}, count : Nat]

-----------------------------------------------------------------------------
(* Outcomes shared by the handlers: what happens to phase, close state,    *)
(* buffered plaintext and output.                                          *)

Terminal == hs \in TerminalPhase
Live == ~Terminal
Connected == hs = "connected"

MoveTo(phase, actions) ==
  /\ hs' = phase
  /\ UNCHANGED <<closeState, pendingPlain>>
  /\ out' = actions

Ignore == MoveTo(hs, <<>>)

\* Faulty form of Fail: the buffered record survives the failure.
FailKeepsPlain ==
  /\ hs' = "failed"
  /\ closeState' = "fatalSent"
  /\ UNCHANGED pendingPlain
  /\ out' = <<WriteAlert(writeEpoch'), Act("failWithAlert"),
              Act("reportError")>>

\* failAlert, hsFail, recordFailAlert: the alert goes out under the write
\* epoch of the state the failure is raised in.
Fail ==
  /\ hs' = "failed"
  /\ closeState' = "fatalSent"
  /\ pendingPlain' = <<>>
  /\ out' = <<WriteAlert(writeEpoch'), Act("failWithAlert"),
              Act("reportError")>>

Room(ops) == Cardinality(ops) < MaxPendingOps

Allocate(ops, kind, epoch, dir) ==
  /\ pendingOps' = ops \cup
       {[id |-> nextOpId, kind |-> kind, epoch |-> epoch, dir |-> dir]}
  /\ nextOpId' = nextOpId + 1

KeepOps(ops) == pendingOps' = ops /\ UNCHANGED nextOpId

\* allocOpOrFail, for the handlers that move to phase, emit writes and then
\* call the provider.
AllocOrFail(ops, op, epoch, dir, phase, writes) ==
  IF Room(ops)
  THEN /\ Allocate(ops, op.kind, epoch, dir)
       /\ MoveTo(phase, Append(writes, CallCrypto(nextOpId, op)))
  ELSE Fail /\ KeepOps(ops)

\* Faulty form of Without: the answered operation is not retired.
WithoutRetiring(id) == pendingOps

Without(id) == {o \in pendingOps : o.id # id}

\* Faulty forms of the two below.
SeqExhaustedLate(e) == e.seq > MaxSeq
AdvanceSeqForgotten(e) == e

\* SeqNo.next: none at the ceiling, else the successor.
SeqExhausted(e) == e.seq = MaxSeq
AdvanceSeq(e) == [e EXCEPT !.seq = @ + 1]

-----------------------------------------------------------------------------
(* Inbound handshake messages.                                             *)

\* parseClientHello, then onClientHello; charged is the budget after the
\* record that completed the message.
OnClientHello(m, charged, ops) ==
  LET seen == [charged EXCEPT !.clientHello = @ + MessageSize(m)]
      refused == \/ seen.clientHello > MaxClientHelloBytes
                 \/ m = "NoScheme"
  IN  /\ UNCHANGED pendingFinished
      /\ IF m \notin ClientHello \cup Refused \/ refused
         THEN Fail /\ KeepOps(ops) /\ budgets' = charged
              /\ UNCHANGED transcript
         ELSE /\ budgets' = seen
              /\ IF m = "NoGroup"
                 THEN Fail /\ KeepOps(ops) /\ UNCHANGED transcript
                 ELSE /\ transcript' = Append(transcript, m)
                      /\ AllocOrFail(ops, PlainOp("randomBytes", <<>>),
                           "handshake", "write", "requestedServerRandom",
                           <<>>)

OnClientFinishedBytes(m, charged, ops) ==
  /\ pendingFinished' = <<m>>
  /\ budgets' = charged
  /\ UNCHANGED transcript
  /\ AllocOrFail(ops,
       [kind |-> "verifyFinished", prefix |-> transcript, msg |-> m],
       "application", "read", "requestedClientFinishedVerify", <<>>)

\* Faulty form of OnHandshakeMessage: the client Finished is taken while the
\* application keys are still being derived.
OnFinishedTooEarly(m, charged, ops) ==
  CASE hs = "start" -> OnClientHello(m, charged, ops)
    [] hs \in {"sentCertificateVerify", "sentServerFinished"} ->
         OnClientFinishedBytes(m, charged, ops)
    [] OTHER -> /\ Ignore /\ KeepOps(ops) /\ budgets' = charged
                /\ UNCHANGED <<transcript, pendingFinished>>

\* handshakeOnPlaintextRecord.
OnHandshakeMessage(m, charged, ops) ==
  CASE hs = "start" -> OnClientHello(m, charged, ops)
    [] hs = "sentServerFinished" -> OnClientFinishedBytes(m, charged, ops)
    [] OTHER -> /\ Ignore /\ KeepOps(ops) /\ budgets' = charged
                /\ UNCHANGED <<transcript, pendingFinished>>

OnInboundAlert(a) ==
  CASE a = "closeNotify" ->
         /\ hs' = "closing" /\ closeState' = "receivedCloseNotify"
         /\ UNCHANGED pendingPlain
         /\ out' = <<CloseTransport("graceful")>>
    [] a = "fatal" ->
         /\ hs' = "failed" /\ closeState' = "fatalReceived"
         /\ pendingPlain' = <<>>
         /\ out' = <<CloseTransport("abortive")>>
    [] a = "truncated" -> Fail

-----------------------------------------------------------------------------
(* transportBytes: recs are the records the new bytes complete, none when  *)
(* they only add to a partial one.  One record is framed per event.        *)

NeedMoreBytes(recs) ==
  /\ Live
  /\ inbound \o recs = <<>>
  /\ MoveTo(hs, <<Act("readTransport")>>)
  /\ UNCHANGED <<opVars, epochVars, bufferVars, flightVars>>

Framed(recs, outer) ==
  /\ Live
  /\ inbound \o recs # <<>>
  /\ Head(inbound \o recs).outer \in outer
  /\ inbound' = IF "badHeader" \in outer THEN inbound \o recs
                                         ELSE Tail(inbound \o recs)

ProtectedRecord(recs) ==
  LET epoch == IF Connected THEN "application" ELSE "handshake"
  IN  /\ Framed(recs, {"applicationData"})
      /\ UNCHANGED <<epochVars, outbound, reasm, flightVars>>
      /\ IF hs \in {"connected", "sentServerFinished"}
         THEN AllocOrFail(pendingOps,
                [kind |-> "aeadOpen", epoch |-> readEpoch.epoch,
                 seq |-> readEpoch.seq, body |-> Head(inbound \o recs).body],
                epoch, "read", hs, <<>>)
         ELSE Ignore /\ KeepOps(pendingOps)

CcsRecord(recs) ==
  /\ Framed(recs, {"compatCcs", "otherCcs"})
  /\ UNCHANGED <<opVars, epochVars, outbound, reasm, flightVars>>
  /\ IF \/ hs \in {"start", "connected", "closing"}
        \/ Head(inbound \o recs).outer = "otherCcs"
     THEN Fail
     ELSE Ignore

\* chargeHandshakeBytes, reassembly, and at most one message per record.
HandshakeRecord(recs) ==
  LET frags == Head(inbound \o recs).frags
      charged == [budgets EXCEPT !.handshake = @ + Len(frags)]
      buf == reasm \o frags
      overBudget == charged.handshake > MaxHandshakeBytes
      refused == overBudget \/ Len(buf) > MaxReasmBytes
  IN  /\ Framed(recs, {"handshake"})
      /\ UNCHANGED <<epochVars, outbound, keySched>>
      /\ IF ~refused /\ HoldsMessage(buf)
         THEN /\ reasm' = AfterMessage(buf)
              /\ OnHandshakeMessage(FirstMessage(buf), charged, pendingOps)
         ELSE /\ budgets' = IF overBudget THEN budgets ELSE charged
              /\ reasm' = IF refused THEN reasm ELSE buf
              /\ UNCHANGED <<opVars, transcript, pendingFinished>>
              /\ IF refused THEN Fail
                            ELSE MoveTo(hs, <<Act("readTransport")>>)

AlertRecord(recs) ==
  /\ Framed(recs, {"alert"})
  /\ UNCHANGED <<opVars, epochVars, outbound, reasm, flightVars>>
  /\ OnInboundAlert(Head(inbound \o recs).alert)

InvalidRecord(recs) ==
  /\ \/ Framed(recs, {"invalidType"})
     \/ Framed(recs, {"badHeader"})
  /\ UNCHANGED <<opVars, epochVars, outbound, reasm, flightVars>>
  /\ Fail

-----------------------------------------------------------------------------
(* cryptoResult for an outstanding operation id.  An id that is not        *)
(* outstanding (stale, answered before, unknown) is dropped.               *)

Outstanding(id, kinds) ==
  /\ Live
  /\ \E o \in pendingOps : o.id = id /\ o.kind \in kinds

DroppedResult(id) ==
  /\ Live
  /\ \A o \in pendingOps : o.id # id
  /\ Ignore
  /\ UNCHANGED <<opVars, epochVars, bufferVars, flightVars>>

AeadOpenedConnected(id, inner) ==
  /\ Outstanding(id, {"aeadOpen"})
  /\ Connected
  /\ UNCHANGED <<writeEpoch, nextOpId, bufferVars, flightVars>>
  /\ LET fatal == \/ inner.ctype = "allZero"
                  \/ inner.ctype = "applicationData" /\ SeqExhausted(readEpoch)
     IN  pendingOps' = IF fatal THEN pendingOps ELSE Without(id)
  /\ CASE inner.ctype = "allZero" -> Fail /\ UNCHANGED readEpoch
       [] inner.ctype = "applicationData" /\ SeqExhausted(readEpoch) ->
            Fail /\ UNCHANGED readEpoch
       [] inner.ctype = "applicationData" /\ ~SeqExhausted(readEpoch) ->
            /\ pendingPlain' = <<inner.content>>
            /\ readEpoch' = AdvanceSeq(readEpoch)
            /\ out' = <<>>
            /\ UNCHANGED <<hs, closeState>>
       [] inner.ctype = "alert" ->
            OnInboundAlert(inner.alert) /\ UNCHANGED readEpoch
       [] OTHER -> Ignore /\ UNCHANGED readEpoch

\* Before connected the opened record carries the client Finished.
AeadOpenedHandshake(id, inner) ==
  /\ Outstanding(id, {"aeadOpen"})
  /\ ~Connected
  /\ UNCHANGED <<writeEpoch, bufferVars, keySched>>
  /\ IF inner.ctype = "handshake" /\ ~SeqExhausted(readEpoch)
     THEN /\ readEpoch' = AdvanceSeq(readEpoch)
          /\ OnHandshakeMessage(inner.msg, budgets, Without(id))
     ELSE /\ UNCHANGED <<readEpoch, transcript, pendingFinished, budgets>>
          /\ CASE inner.ctype = "alert" ->
                    KeepOps(Without(id)) /\ OnInboundAlert(inner.alert)
               [] inner.ctype = "changeCipherSpec" ->
                    KeepOps(Without(id)) /\ Ignore
               [] OTHER -> KeepOps(pendingOps) /\ Fail

\* Faulty form of AeadSealed: the close overtakes the write of close_notify.
AeadSealedClosesFirst(id) ==
  /\ Outstanding(id, {"aeadSeal"})
  /\ KeepOps(Without(id))
  /\ outbound' = Append(outbound, id)
  /\ UNCHANGED <<epochVars, inbound, reasm, flightVars>>
  /\ MoveTo(hs, IF closeState = "sentCloseNotify"
                THEN <<CloseTransport("graceful")>>
                ELSE <<WriteTransport(id)>>)

AeadSealed(id) ==
  /\ Outstanding(id, {"aeadSeal"})
  /\ KeepOps(Without(id))
  /\ outbound' = Append(outbound, id)
  /\ UNCHANGED <<epochVars, inbound, reasm, flightVars>>
  /\ MoveTo(hs, IF closeState = "sentCloseNotify"
                THEN <<WriteTransport(id), CloseTransport("graceful")>>
                ELSE <<WriteTransport(id)>>)

\* verifyFailed and failed, whatever the operation.
CryptoFailed(id) ==
  /\ Outstanding(id, OpKind)
  /\ KeepOps(Without(id))
  /\ UNCHANGED <<epochVars, bufferVars, flightVars>>
  /\ Fail

-----------------------------------------------------------------------------
(* Results that gate the server flight (handshakeOnGatingResult).  ops is  *)
(* the outstanding set with the answered operation already retired.        *)

GatingKind == OpKind \ {"aeadSeal", "aeadOpen"}

OnServerRandomDone(ops) ==
  /\ AllocOrFail(ops, PlainOp("ecdhe", <<>>), "handshake", "read",
                 "requestedEcdhe", <<>>)
  /\ UNCHANGED <<epochVars, flightVars>>

OnEcdheDone(ops) ==
  LET th == Append(transcript, "ServerHello")
      ks == [phase |-> "awaitEarly", hsTranscript |-> th,
             apTranscript |-> <<>>]
  IN  /\ transcript' = th
      /\ readEpoch' = InstallEpoch("handshake")
      /\ writeEpoch' = InstallEpoch("handshake")
      /\ AllocOrFail(ops, ScheduleOp(ks), "handshake", "write",
                     "derivedHandshakeSecrets",
                     <<WriteHandshake("initial", 0, "ServerHello")>>)
      /\ keySched' = IF Room(ops) THEN ks ELSE keySched
      /\ UNCHANGED <<pendingFinished, budgets>>

\* Faulty form of PumpSchedule: the phase moves on, the call is not made.
PumpWithoutCall(ops, ks, epoch) ==
  /\ MoveTo(hs, <<>>)
  /\ KeepOps(ops)
  /\ keySched' = ks
  /\ UNCHANGED <<epochVars, transcript, pendingFinished, budgets>>

\* The next operation of the stage that ks is in.
PumpSchedule(ops, ks, epoch) ==
  /\ AllocOrFail(ops, ScheduleOp(ks), epoch, "write", hs, <<>>)
  /\ keySched' = IF Room(ops) THEN ks ELSE keySched
  /\ UNCHANGED <<epochVars, transcript, pendingFinished, budgets>>

\* advance answered with its typed error.
ScheduleError(ops) ==
  Fail /\ KeepOps(ops) /\ UNCHANGED <<epochVars, flightVars>>

OnHsScheduleResult(ops, result) ==
  LET next == Advance(keySched.phase, result)
      ks == [keySched EXCEPT !.phase = next]
      th == transcript \o <<"EncryptedExtensions", "Certificate">>
  IN  CASE next = "error" -> ScheduleError(ops)
        [] next \in AwaitPhase -> PumpSchedule(ops, ks, "handshake")
        [] next = "handshakeKeysInstalled" ->
             /\ transcript' = th
             /\ keySched' = ks
             /\ AllocOrFail(ops, PlainOp("signCertificateVerify", th),
                  "handshake", "write", "requestedCertificateVerifySignature",
                  <<WriteHandshake("handshake", 0, "EncryptedExtensions"),
                    WriteHandshake("handshake", 1, "Certificate")>>)
             /\ UNCHANGED <<epochVars, pendingFinished, budgets>>
        [] OTHER -> /\ Ignore /\ KeepOps(ops) /\ keySched' = ks
                    /\ UNCHANGED <<epochVars, transcript, pendingFinished,
                                   budgets>>

\* Faulty form of OnCertVerifySigned: the snapshot precedes the append.
OnCertVerifySnapshotEarly(ops) ==
  /\ transcript' = Append(transcript, "CertificateVerify")
  /\ AllocOrFail(ops, PlainOp("computeServerFinished", transcript),
       "handshake", "write", "requestedServerFinishedMac",
       <<WriteHandshake("handshake", 2, "CertificateVerify")>>)
  /\ UNCHANGED <<epochVars, keySched, pendingFinished, budgets>>

OnCertVerifySigned(ops) ==
  LET th == Append(transcript, "CertificateVerify")
  IN  /\ transcript' = th
      /\ AllocOrFail(ops, PlainOp("computeServerFinished", th),
           "handshake", "write", "requestedServerFinishedMac",
           <<WriteHandshake("handshake", 2, "CertificateVerify")>>)
      /\ UNCHANGED <<epochVars, keySched, pendingFinished, budgets>>

\* resumeApplication opens the application stage over CH..server Finished.
OnServerFinishedMac(ops) ==
  LET th == Append(transcript, "ServerFinished")
      ks == [keySched EXCEPT !.phase = "awaitDerivedMs", !.apTranscript = th]
  IN  IF keySched.phase # "handshakeKeysInstalled"
      THEN ScheduleError(ops)
      ELSE /\ transcript' = th
           /\ AllocOrFail(ops, ScheduleOp(ks), "application", "write",
                "sentCertificateVerify",
                <<WriteHandshake("handshake", 3, "ServerFinished")>>)
           /\ keySched' = IF Room(ops) THEN ks ELSE keySched
           /\ UNCHANGED <<epochVars, pendingFinished, budgets>>

OnApScheduleResult(ops, result) ==
  LET next == Advance(keySched.phase, result)
      ks == [keySched EXCEPT !.phase = next]
  IN  CASE next = "error" -> ScheduleError(ops)
        [] next \in AwaitPhase -> PumpSchedule(ops, ks, "application")
        [] next = "complete" ->
             /\ MoveTo("sentServerFinished", <<>>)
             /\ keySched' = ks
             /\ readEpoch' = InstallEpoch("handshake")
             /\ writeEpoch' = InstallEpoch("application")
             /\ KeepOps(ops)
             /\ UNCHANGED <<transcript, pendingFinished, budgets>>
        [] OTHER -> /\ Ignore /\ KeepOps(ops) /\ keySched' = ks
                    /\ UNCHANGED <<epochVars, transcript, pendingFinished,
                                   budgets>>

\* Faulty form of OnClientFinishedVerified: reading stays on handshake keys.
OnVerifiedKeepsReadKeys(ops) ==
  /\ transcript' = transcript \o pendingFinished
  /\ MoveTo("connected", <<Act("reportHandshakeComplete")>>)
  /\ KeepOps(ops)
  /\ UNCHANGED <<epochVars, keySched, pendingFinished, budgets>>

OnClientFinishedVerified(ops) ==
  /\ transcript' = transcript \o pendingFinished
  /\ readEpoch' = InstallEpoch("application")
  /\ MoveTo("connected", <<Act("reportHandshakeComplete")>>)
  /\ KeepOps(ops)
  /\ UNCHANGED <<writeEpoch, keySched, pendingFinished, budgets>>

\* handshakeOnGatingResult: a result the phase does not wait for is ignored.
GatingResult(id, result) ==
  LET ops == Without(id)
  IN  /\ Outstanding(id, {k \in OpKind : AnswerTo(k) = result})
      /\ UNCHANGED bufferVars
      /\ CASE result = "randomBytes" /\ hs = "requestedServerRandom" ->
                OnServerRandomDone(ops)
           [] result = "ecdheComplete" /\ hs = "requestedEcdhe" ->
                OnEcdheDone(ops)
           [] /\ result \in {"hkdfSecret", "keysInstalled"}
              /\ hs = "derivedHandshakeSecrets" ->
                OnHsScheduleResult(ops, result)
           [] /\ result = "signature"
              /\ hs = "requestedCertificateVerifySignature" ->
                OnCertVerifySigned(ops)
           [] result = "finishedMac" /\ hs = "requestedServerFinishedMac" ->
                OnServerFinishedMac(ops)
           [] /\ result \in {"hkdfSecret", "keysInstalled"}
              /\ hs = "sentCertificateVerify" ->
                OnApScheduleResult(ops, result)
           [] result = "verified" /\ hs = "requestedClientFinishedVerify" ->
                OnClientFinishedVerified(ops)
           [] OTHER -> /\ Ignore /\ KeepOps(ops)
                       /\ UNCHANGED <<epochVars, flightVars>>

-----------------------------------------------------------------------------
(* Application and transport events.                                       *)

\* Faulty form of AppRecv: the delivered record stays buffered.
AppRecvKeepsPlain ==
  /\ Live
  /\ UNCHANGED coreVars
  /\ out' = IF Connected /\ pendingPlain # <<>>
            THEN <<EmitPlaintext(pendingPlain[1])>>
            ELSE <<>>

AppRecv ==
  /\ Live
  /\ UNCHANGED <<hs, closeState, epochVars, opVars, bufferVars, flightVars>>
  /\ pendingPlain' = IF Connected THEN <<>> ELSE pendingPlain
  /\ out' = IF Connected /\ pendingPlain # <<>>
            THEN <<EmitPlaintext(pendingPlain[1])>>
            ELSE <<>>

\* handleAppSend seals one fragment of plain under the current sequence.
AppSend(plain) ==
  LET n == IF Len(plain) < MaxFragment THEN Len(plain) ELSE MaxFragment
      op == [kind |-> "aeadSeal", epoch |-> "application",
             seq |-> writeEpoch.seq,
             inner |-> [ctype |-> "applicationData",
                        content |-> SubSeq(plain, 1, n)]]
  IN  /\ Live
      /\ UNCHANGED <<readEpoch, bufferVars, flightVars>>
      /\ IF Connected /\ ~SeqExhausted(writeEpoch) /\ Room(pendingOps)
         THEN /\ Allocate(pendingOps, "aeadSeal", "application", "write")
              /\ writeEpoch' = AdvanceSeq(writeEpoch)
              /\ MoveTo(hs, <<CallCrypto(nextOpId, op), AcceptPlaintext(n)>>)
         ELSE UNCHANGED <<opVars, writeEpoch>> /\ Fail

AppCloseGraceful ==
  LET op == [kind |-> "aeadSeal", epoch |-> "application",
             seq |-> writeEpoch.seq, inner |-> CloseNotify]
      refused == Connected /\ (SeqExhausted(writeEpoch) \/ ~Room(pendingOps))
  IN  /\ Live /\ closeState = "open"
      /\ UNCHANGED <<readEpoch, bufferVars, flightVars>>
      /\ IF Connected /\ ~refused
         THEN /\ Allocate(pendingOps, "aeadSeal", "application", "write")
              /\ writeEpoch' = AdvanceSeq(writeEpoch)
         ELSE UNCHANGED <<opVars, writeEpoch>>
      /\ IF refused
         THEN Fail
         ELSE /\ hs' = "closing" /\ closeState' = "sentCloseNotify"
              /\ pendingPlain' = <<>>
              /\ out' = IF Connected THEN <<CallCrypto(nextOpId, op)>>
                                     ELSE <<CloseTransport("graceful")>>

AppCloseFatal ==
  /\ Live /\ closeState = "open"
  /\ UNCHANGED <<epochVars, opVars, bufferVars, flightVars>>
  /\ hs' = "failed" /\ closeState' = "fatalSent" /\ pendingPlain' = <<>>
  /\ out' = <<WriteAlert(writeEpoch), Act("failWithAlert"),
              CloseTransport("fatal")>>

AppCloseAbortive ==
  /\ Live /\ closeState = "open"
  /\ UNCHANGED <<epochVars, opVars, bufferVars, flightVars>>
  /\ hs' = "closed" /\ closeState' = "transportClosed" /\ pendingPlain' = <<>>
  /\ out' = <<CloseTransport("abortive")>>

\* A repeated close only re-issues the transport close.
AppCloseAgain(mode) ==
  /\ Live /\ closeState # "open"
  /\ MoveTo(hs, <<CloseTransport(mode)>>)
  /\ UNCHANGED <<epochVars, opVars, bufferVars, flightVars>>

\* Faulty form of TransportEof: the close state is left as it was.
EofKeepsCloseState ==
  /\ Live
  /\ UNCHANGED <<closeState, epochVars, opVars, bufferVars, flightVars>>
  /\ hs' = "failed"
  /\ pendingPlain' = <<>>
  /\ out' = <<Act("reportError")>>

TransportEof ==
  /\ Live
  /\ UNCHANGED <<epochVars, opVars, bufferVars, flightVars>>
  /\ hs' = "failed" /\ closeState' = "transportEofBeforeCloseNotify"
  /\ pendingPlain' = <<>>
  /\ out' = <<Act("reportError")>>

Timeout ==
  /\ Live
  /\ UNCHANGED <<epochVars, opVars, bufferVars, flightVars>>
  /\ Fail

TransportReadable ==
  /\ Live
  /\ MoveTo(hs, <<Act("readTransport")>>)
  /\ UNCHANGED <<epochVars, opVars, bufferVars, flightVars>>

\* transportWritable and appFlush: the interpreter drains, the core does not.
Writable ==
  /\ Live
  /\ Ignore
  /\ UNCHANGED <<epochVars, opVars, bufferVars, flightVars>>

\* absorbTerminal, whatever the event.
Absorb == Terminal /\ UNCHANGED coreVars /\ out' = <<>>

-----------------------------------------------------------------------------
Init ==
  /\ hs = "start" /\ closeState = "open"
  /\ readEpoch = FreshEpoch /\ writeEpoch = FreshEpoch
  /\ pendingOps = {} /\ nextOpId = 0
  /\ inbound = <<>> /\ outbound = <<>> /\ reasm = <<>>
  /\ pendingPlain = <<>> /\ pendingFinished = <<>>
  /\ transcript = <<>> /\ keySched = NoKeySched
  /\ budgets = [handshake |-> 0, clientHello |-> 0]
  /\ out = <<>>

TransportBytes(recs) ==
  \/ NeedMoreBytes(recs) \/ ProtectedRecord(recs) \/ CcsRecord(recs)
  \/ HandshakeRecord(recs) \/ AlertRecord(recs) \/ InvalidRecord(recs)

AppClose(mode) ==
  \/ mode = "graceful" /\ AppCloseGraceful
  \/ mode = "fatal" /\ AppCloseFatal
  \/ mode = "abortive" /\ AppCloseAbortive
  \/ AppCloseAgain(mode)

AeadOpened(id, inner) ==
  AeadOpenedConnected(id, inner) \/ AeadOpenedHandshake(id, inner)

GatingAnswer == {AnswerTo(k) : k \in GatingKind}

Quiet == TransportReadable \/ Writable \/ Absorb

\* Inputs that may issue operations stop at the bounds of the model.
WithinBounds(recs) ==
  nextOpId < MaxOps /\ Len(inbound \o recs) <= MaxInbound

Next ==
  \/ \E recs \in Chunks : WithinBounds(recs) /\ TransportBytes(recs)
  \/ \E id \in 0..nextOpId :
       \/ DroppedResult(id)
       \/ \E inner \in Inners : AeadOpened(id, inner)
       \/ AeadSealed(id)
       \/ CryptoFailed(id)
       \/ \E result \in GatingAnswer : GatingResult(id, result)
  \/ AppRecv
  \/ \E plain \in Payloads : nextOpId < MaxOps /\ AppSend(plain)
  \/ \E mode \in CloseMode : AppClose(mode)
  \/ TransportEof \/ Timeout \/ Quiet

Spec == Init /\ [][Next]_vars

-----------------------------------------------------------------------------
(* Properties.                                                             *)

TypeOK ==
  /\ hs \in Phase /\ closeState \in CloseState
  /\ readEpoch \in EpochState /\ writeEpoch \in EpochState
  /\ pendingOps \in SUBSET PendingOp /\ nextOpId \in Nat
  /\ inbound \in Seq(Record) /\ outbound \in Seq(Nat)
  /\ reasm \in Seq(Fragment)
  /\ pendingPlain \in Seq(Bytes) /\ Len(pendingPlain) <= 1
  /\ pendingFinished \in Seq(Message) /\ Len(pendingFinished) <= 1
  /\ transcript \in Transcript /\ keySched \in KeySched
  /\ budgets \in [handshake : Nat, clientHello : Nat]
  /\ out \in Seq(OutputAction)

\* legalEdge: stay, fail, begin a close, end a close, or one step along the
\* flight.
LegalEdge(a, b) ==
  \/ a = b
  \/ a \notin TerminalPhase /\ b \in {"failed", "closing"}
  \/ a = "closing" /\ b = "closed"
  \/ \E i \in 1..(Len(FlightOrder) - 1) :
       a = FlightOrder[i] /\ b = FlightOrder[i + 1]

\* No phase is skipped or entered twice: but for the abortive close, which
\* goes straight to closed, the core moves along legalEdge, so connected is
\* entered from requestedClientFinishedVerify only.
PhaseOrder ==
  [][\/ LegalEdge(hs, hs')
     \/ hs' = "closed" /\ closeState' = "transportClosed"]_vars

\* The transcript prefixes RFC 8446 binds signature, MACs and traffic
\* secrets to, for the ClientHello ch.
ToServerHello(ch) == <<ch, "ServerHello">>
ToCertificate(ch) ==
  <<ch, "ServerHello", "EncryptedExtensions", "Certificate">>
ToCertificateVerify(ch) == Append(ToCertificate(ch), "CertificateVerify")
ToServerFinished(ch) == Append(ToCertificateVerify(ch), "ServerFinished")

\* connected is only reached over one complete flight: the transcript is a
\* ClientHello, the five server messages and the client Finished, both stages
\* of the key schedule ran over the right prefixes of it, and both directions
\* use installed application keys, whatever the provider answered.
ConnectedOnlyAfterFlight ==
  Connected =>
    \E ch \in ClientHello :
      /\ Len(pendingFinished) = 1
      /\ transcript = ToServerFinished(ch) \o pendingFinished
      /\ keySched = [phase |-> "complete", hsTranscript |-> ToServerHello(ch),
                     apTranscript |-> ToServerFinished(ch)]
      /\ readEpoch.epoch = "application" /\ readEpoch.keysInstalled
      /\ writeEpoch.epoch = "application" /\ writeEpoch.keysInstalled

Binds(op, ch) ==
  CASE op.kind = "signCertificateVerify" -> op.prefix = ToCertificate(ch)
    [] op.kind = "computeServerFinished" -> op.prefix = ToCertificateVerify(ch)
    [] op.kind = "verifyFinished" -> op.prefix = ToServerFinished(ch)
    [] op.kind = "hkdfExpand" ->
         CASE op.label \in {"s hs traffic", "c hs traffic"} ->
                op.prefix = ToServerHello(ch)
           [] op.label \in {"s ap traffic", "c ap traffic"} ->
                op.prefix = ToServerFinished(ch)
           [] OTHER -> TRUE
    [] OTHER -> TRUE

\* Every signature, MAC, verification and traffic secret the core asks for is
\* over exactly the prefix of this handshake that RFC 8446 gives it; each is a
\* snapshot taken in one step and used several results later.
FlightBinding ==
  \A i \in 1..Len(out) :
    out[i].act = "callCrypto" => Binds(out[i].op, Head(transcript))

\* The operation whose answer the phase waits for.
AwaitedKind ==
  CASE hs = "requestedServerRandom" -> "randomBytes"
    [] hs = "requestedEcdhe" -> "ecdhe"
    [] hs = "requestedCertificateVerifySignature" -> "signCertificateVerify"
    [] hs = "requestedServerFinishedMac" -> "computeServerFinished"
    [] OTHER -> Schedule(keySched.phase).kind

\* No phase of the server flight waits for an answer nobody owes: exactly one
\* operation is outstanding and it is the one the phase and the key schedule
\* wait for, so a stalled, doubled or crossed request cannot happen.
FlightAwaitsItsAnswer ==
  hs \in Flight =>
    /\ hs = "derivedHandshakeSecrets" => keySched.phase \in HandshakeStage
    /\ hs = "sentCertificateVerify" => keySched.phase \in ApplicationStage
    /\ \E o \in pendingOps : o.kind = AwaitedKind /\ pendingOps = {o}

\* The phase and the close state never tell different stories of how the
\* connection ends, whatever closes, alerts, end of stream and failures race.
CloseStateAgrees ==
  CASE hs = "failed" -> closeState \in {"fatalSent", "fatalReceived",
                                        "transportEofBeforeCloseNotify"}
    [] hs = "closed" -> closeState = "transportClosed"
    [] hs = "closing" -> closeState \in {"sentCloseNotify",
                                         "receivedCloseNotify"}
    [] OTHER -> closeState = "open"

\* Plaintext is only held back on a channel that may still deliver it: while
\* connected, or after the peer, not this side, began the close.
HeldOnlyOnOpenChannel ==
  pendingPlain # <<>> =>
    \/ Connected
    \/ hs = "closing" /\ closeState = "receivedCloseNotify"
=============================================================================
