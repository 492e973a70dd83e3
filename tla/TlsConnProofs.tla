---------------------------- MODULE TlsConnProofs ----------------------------
(***************************************************************************)
(* Proofs about the connection: every event it feeds the core is one the   *)
(* core is specified for, so what is proved of the core holds under the    *)
(* interpreter; and what the interpreter adds to it.  Secrets are gone     *)
(* when a connection that core, caller or runtime has ended returns (a     *)
(* transport that broke in a write apart); what send and close ask for is  *)
(* sealed, numbered, written and reported once, with the alert last; and   *)
(* the flight is encrypted.                                                *)
(***************************************************************************)
EXTENDS TlsConn, TlsCoreProofs, FiniteSetTheorems

Request == [id : Nat, op : CryptoOp]

AnEvent ==
  [ev : {"appRecv", "appFlush", "transportReadable", "transportEof",
         "timeout"}] \cup
  [ev : {"appSend"}, plain : Bytes] \cup
  [ev : {"appClose"}, mode : CloseMode] \cup
  [ev : {"transportBytes"}, recs : Seq(Record)] \cup
  [ev : {"cryptoResult"}, call : Request, ok : BOOLEAN]

Unit ==
  [rec : {"flight"}, msg : ServerMessage, protected : BOOLEAN] \cup
  [rec : {"applicationData", "handshake", "alert", "changeCipherSpec",
          "invalid", "allZero", "fatalAlert"},
   epoch : Epoch, seq : 0..MaxSeq] \cup
  [rec : {"data"}, unit : Nat]

Runtime ==
  [outbound : Seq(Unit), plaintextOut : Seq(Bytes), acceptedBytes : Nat,
   lastError : LastError, terminal : BOOLEAN,
   keys : SUBSET (Direction \X Epoch)]

USE DEF LastError

DriveType ==
  /\ events \in Seq(AnEvent) /\ followUps \in Seq(AnEvent)
  /\ performed \in 0..Len(out) /\ fuel \in Nat
  /\ answered \in Seq(Request)

RuntimeType ==
  /\ rt \in Runtime
  /\ wire \in Seq(Unit) /\ closed \in BOOLEAN
  /\ received \in Bytes /\ owned \in Nat
  /\ peer \in Streams

CoreInv == TypeOK /\ FlightShape /\ CloseStateAgrees /\ HeldOnlyOnOpenChannel

\* The actions of the last step that are not carried out.
Rest == (performed + 1)..Len(out)

\* A sealed record is written for the seal that was answered last.
WritesAnswered ==
  \A i \in Rest : out[i].act = "writeTransport" =>
    answered # <<>> /\ answered[1].op.kind = "aeadSeal"

Installing(action) ==
  action.act = "callCrypto" /\ action.op.kind = "installTrafficKeys"

InstallsNamed ==
  \A i \in Rest : Installing(out[i]) => out[i].op.label \in KeyLabel

IdlePerformed == Idle => Performed

ConnType ==
  /\ CoreInv /\ DriveType /\ RuntimeType
  /\ WritesAnswered /\ InstallsNamed /\ IdlePerformed

\* The actions that carry out terminate.
Dropping == {"failWithAlert", "reportError", "closeTransport"}

\* Secrets go with the first terminate and none comes back: a connection that
\* is ending installs no key, and one that has ended still has a terminate to
\* carry out or has none left to drop.
SecretsShape ==
  /\ closed => hs \in Ending /\ rt.keys = {}
  /\ \A i \in Rest : hs \in Ending => ~Installing(out[i])
  /\ \A i \in Rest : out[i].act = "closeTransport" => hs \in Ending
  /\ Terminal => rt.keys = {} \/ \E i \in Rest : out[i].act \in Dropping

ConnInv == ConnType /\ SecretsShape

-----------------------------------------------------------------------------
(* Events of the core.                                                     *)

\* What the core takes when a call succeeded.
LEMMA SucceedsAnswers ==
  ASSUME NEW c \in Request, Succeeds(c)
  PROVE  \/ AeadSealed(c.id)
         \/ \E inner \in Inner : AeadOpened(c.id, inner)
         \/ \E answer \in GatingAnswer : GatingResult(c.id, answer)
<1>1. c.id \in Nat /\ c.op \in CryptoOp
  BY DEF Request
<1>2. CASE c.op.kind = "aeadSeal"
  BY <1>1, <1>2 DEF Succeeds
<1>3. CASE c.op.kind = "aeadOpen"
  <2>1. c.op.body \in Sealed
    BY <1>1, <1>3 DEF CryptoOp
  <2>2. c.op.body.inner \in Inner
    BY <2>1, SealedAssumption
  <2>3. AeadOpened(c.id, c.op.body.inner)
    BY <1>3 DEF Succeeds
  <2> QED
    BY <2>2, <2>3
<1>4. CASE c.op.kind \notin {"aeadSeal", "aeadOpen"}
  <2>1. c.op.kind \in GatingKind
    BY <1>1, <1>4, OpKindType DEF GatingKind
  <2>2. GatingResult(c.id, AnswerTo(c.op.kind))
    BY <1>4 DEF Succeeds, AnswerTo
  <2>3. AnswerTo(c.op.kind) \in GatingAnswer
    BY <2>1 DEF GatingAnswer
  <2> QED
    BY <2>2, <2>3
<1> QED
  BY <1>2, <1>3, <1>4

LEMMA SucceedsIsCoreStep ==
  ASSUME NEW c \in Request, Succeeds(c)
  PROVE  CoreStep
BY SucceedsAnswers DEF CoreStep, Request

LEMMA EventFields ==
  ASSUME NEW e \in AnEvent
  PROVE  /\ e.ev = "appSend" => e.plain \in Bytes
         /\ e.ev = "appClose" => e.mode \in CloseMode
         /\ e.ev = "transportBytes" => e.recs \in Seq(Record)
         /\ e.ev = "cryptoResult" => e.call \in Request /\ e.ok \in BOOLEAN
BY DEF AnEvent

LEMMA HandleIsCoreStep ==
  ASSUME NEW e \in AnEvent, Handle(e)
  PROVE  CoreStep
<1>1. CASE Absorb \/ AppRecv \/ Writable \/ TransportReadable
           \/ TransportEof \/ Timeout
  BY <1>1 DEF CoreStep, Quiet
<1>2. CASE e.ev = "appSend" /\ AppSend(e.plain)
  BY <1>2, EventFields DEF CoreStep
<1>3. CASE e.ev = "appClose" /\ AppClose(e.mode)
  BY <1>3, EventFields DEF CoreStep
<1>4. CASE e.ev = "transportBytes" /\ TransportBytes(e.recs)
  BY <1>4, EventFields DEF CoreStep
<1>5. CASE /\ e.ev = "cryptoResult"
           /\ \/ e.ok /\ Succeeds(e.call)
              \/ ~e.ok /\ CryptoFailed(e.call.id)
              \/ DroppedResult(e.call.id)
  <2>1. e.call \in Request /\ e.call.id \in Nat
    BY <1>5, EventFields DEF Request
  <2> QED
    BY <1>5, <2>1, SucceedsIsCoreStep DEF CoreStep
<1> QED
  BY <1>1, <1>2, <1>3, <1>4, <1>5 DEF Handle

\* Only the answer to a seal adds to the ciphertext the core retains.
LEMMA OnlySealsRetain ==
  ASSUME NEW e \in AnEvent, Handle(e), outbound' # outbound
  PROVE  /\ e.ev = "cryptoResult" /\ e.call.op.kind = "aeadSeal"
         /\ AeadSealed(e.call.id)
<1> USE DEF bufferVars
<1>1. ~Absorb /\ ~AppRecv /\ ~Writable /\ ~TransportReadable
      /\ ~TransportEof /\ ~Timeout
  BY DEF Absorb, coreVars, AppRecv, Writable, TransportReadable,
         TransportEof, Timeout
<1>2. \A plain : ~AppSend(plain)
  BY DEF AppSend
<1>3. \A mode : ~AppClose(mode)
  BY DEF AppClose, AppCloseGraceful, AppCloseFatal, AppCloseAbortive,
         AppCloseAgain
<1>4. \A recs : ~TransportBytes(recs)
  BY DEF TransportBytes, NeedMoreBytes, ProtectedRecord, CcsRecord,
         HandshakeRecord, AlertRecord, InvalidRecord
<1>5. \A id : ~CryptoFailed(id) /\ ~DroppedResult(id)
  BY DEF CryptoFailed, DroppedResult
<1>6. \A id, inner : ~AeadOpened(id, inner)
  BY DEF AeadOpened, AeadOpenedConnected, AeadOpenedHandshake
<1>7. \A id, answer : ~GatingResult(id, answer)
  BY DEF GatingResult
<1>8. e.ev = "cryptoResult" /\ Succeeds(e.call)
  BY <1>1, <1>2, <1>3, <1>4, <1>5 DEF Handle
<1> QED
  BY <1>6, <1>7, <1>8 DEF Succeeds

LEMMA QueueType ==
  ASSUME DriveType, NEW queue, queue = followUps \o events, queue # <<>>
  PROVE  Head(queue) \in AnEvent /\ Tail(queue) \in Seq(AnEvent)
<1>1. queue \in Seq(AnEvent)
  BY DEF DriveType
<1> QED
  BY <1>1

LEMMA StepCore ==
  ASSUME CoreInv, DriveType, Step
  PROVE  /\ CoreStep /\ CoreInv'
         /\ Absorb \/ \E ops \in SUBSET pendingOps : Concludes(ops)
<1> DEFINE queue == followUps \o events
<1>1. Head(queue) \in AnEvent /\ Handle(Head(queue))
  BY QueueType DEF Step
<1> HIDE DEF queue
<1>2. CoreStep
  BY <1>1, HandleIsCoreStep
<1> QED
  BY <1>2, CoreStepType, FlightStep, CoreStepMoves, MovesClose,
     CoreStepConcludes DEF CoreInv

\* What a step leaves for the interpreter.
LEMMA NewActions ==
  ASSUME CoreInv, NEW ops, Concludes(ops)
  PROVE  /\ \A i \in 1..Len(out') :
              /\ Installing(out'[i]) =>
                   hs' \notin Ending /\ out'[i].op.label \in KeyLabel
              /\ out'[i].act = "closeTransport" => hs' \in Ending
              /\ out'[i].act = "writeTransport" => outbound' # outbound
         /\ hs' \in TerminalPhase =>
              \E i \in 1..Len(out') : out'[i].act \in Dropping
<1>1. CASE Stops
  BY <1>1 DEF Stops, Dropping, Installing, WriteAlert, Ending
<1>2. CASE Keeps(ops)
  BY <1>2 DEF Keeps, Installing
<1>3. CASE Asks(ops)
  <2>1. PICK op \in CryptoOp, n \in 1..Len(out') :
          /\ out'[n] = CallCrypto(nextOpId, op)
          /\ \A i \in (1..Len(out')) \ {n} :
               \/ out'[i].act = "writeHandshake"
               \/ out'[i].act = "acceptPlaintextBytes"
          /\ op.kind = "installTrafficKeys" =>
               hs' \in Flight /\ op.label \in KeyLabel
    BY <1>3 DEF Asks, FlightRecord
  <2>2. Flight \cap Ending = {} /\ hs' \notin TerminalPhase
    BY <1>3 DEF Asks, Flight, Ending, TerminalPhase
  <2> QED
    BY <2>1, <2>2 DEF CallCrypto, Installing
<1> QED
  BY <1>1, <1>2, <1>3 DEF Concludes

LEMMA EndingStays ==
  ASSUME Moves, hs \in Ending
  PROVE  hs' \in Ending
<1>1. CASE Stays
  BY <1>1 DEF Stays
<1>2. CASE Forward
  BY <1>2, Order DEF Forward, Ending, TerminalPhase
<1>3. CASE Ends
  BY <1>3 DEF Ends, Ending, TerminalPhase
<1> QED
  BY <1>1, <1>2, <1>3 DEF Moves

LEMMA StepConn ==
  ASSUME ConnInv, Step
  PROVE  ConnInv'
<1> DEFINE queue == followUps \o events
           head == Head(queue)
<1>1. /\ CoreStep /\ CoreInv' /\ Moves
      /\ Absorb \/ \E ops \in SUBSET pendingOps : Concludes(ops)
  BY StepCore, CoreStepMoves DEF ConnInv, ConnType, CoreInv
<1>2. /\ head \in AnEvent /\ Tail(queue) \in Seq(AnEvent)
      /\ Handle(head)
  BY QueueType DEF Step, ConnInv, ConnType
<1>3. /\ ~Idle /\ Performed /\ fuel > 0
      /\ events' = Tail(queue) /\ followUps' = <<>>
      /\ performed' = 0 /\ fuel' = fuel - 1
      /\ answered' = IF head.ev = "cryptoResult" THEN <<head.call>>
                                                  ELSE answered
      /\ UNCHANGED <<peer, call, rt, wireVars, callerVars>>
  BY DEF Step
<1> HIDE DEF queue, head
<1>4. out' \in Seq(OutputAction) /\ Rest' = 1..Len(out')
  BY <1>1, <1>3 DEF CoreInv, TypeOK, Rest
<1>5. DriveType'
  <2>1. head.ev = "cryptoResult" => head.call \in Request
    BY <1>2, EventFields
  <2> QED
    BY <1>2, <1>3, <1>4, <2>1 DEF DriveType, ConnInv, ConnType
<1>6. RuntimeType'
  BY <1>3 DEF RuntimeType, ConnInv, ConnType, wireVars, callerVars
<1>7. IdlePerformed'
  BY <1>3 DEF IdlePerformed, Idle
<1>8. WritesAnswered' /\ InstallsNamed' /\ SecretsShape'
  <2>1. CASE Absorb
    <3>1. Rest = {} /\ Rest' = {} /\ hs' = hs
      BY <2>1, <1>3, <1>4 DEF Absorb, coreVars, Performed, Rest, ConnInv,
         ConnType, CoreInv, TypeOK
    <3> QED
      BY <3>1, <1>3 DEF WritesAnswered, InstallsNamed, SecretsShape, ConnInv,
         wireVars, Terminal
  <2>2. ASSUME NEW ops \in SUBSET pendingOps, Concludes(ops)
        PROVE  WritesAnswered' /\ InstallsNamed' /\ SecretsShape'
    <3>1. CoreInv
      BY DEF ConnInv, ConnType
    <3>2. outbound' # outbound =>
            answered' # <<>> /\ answered'[1].op.kind = "aeadSeal"
      BY <1>2, <1>3, OnlySealsRetain
    <3>3. WritesAnswered' /\ InstallsNamed'
      BY <1>4, <2>2, <3>1, <3>2, NewActions DEF WritesAnswered, InstallsNamed
    <3>4. closed' => hs' \in Ending /\ rt'.keys = {}
      BY <1>1, <1>3, EndingStays DEF SecretsShape, ConnInv, wireVars
    <3> QED
      BY <1>4, <2>2, <3>1, <3>3, <3>4, NewActions DEF SecretsShape, Terminal
  <2> QED
    BY <1>1, <2>1, <2>2
<1> QED
  BY <1>1, <1>5, <1>6, <1>7, <1>8 DEF ConnInv, ConnType

-----------------------------------------------------------------------------
(* The actions of the interpreter.                                         *)

LEMMA KeyOfType ==
  ASSUME NEW label \in KeyLabel
  PROVE  KeyOf(label) \in Direction \X Epoch
<1>1. /\ <<"write", "handshake">> \in Direction \X Epoch
      /\ <<"read", "handshake">> \in Direction \X Epoch
      /\ <<"write", "application">> \in Direction \X Epoch
      /\ <<"read", "application">> \in Direction \X Epoch
  BY DEF Direction, Epoch
<1> QED
  BY <1>1, Zenon DEF KeyOf, KeyLabel

\* The fields of an action.
LEMMA ActionFields ==
  ASSUME NEW a \in OutputAction
  PROVE  /\ a.act = "callCrypto" => a.id \in Nat /\ a.op \in CryptoOp
         /\ a.act = "writeAlert" => a.epoch \in Epoch /\ a.seq \in 0..MaxSeq
         /\ a.act = "writeHandshake" => a.msg \in ServerMessage
         /\ a.act = "emitPlaintext" => a.content \in Bytes
         /\ a.act = "acceptPlaintextBytes" => a.count \in Nat
BY DEF OutputAction

LEMMA SealedUnitsType ==
  ASSUME NEW op \in CryptoOp, op.kind = "aeadSeal"
  PROVE  SealedUnits(op) \in Seq(Unit)
<1>1. op.epoch \in Epoch /\ op.seq \in 0..MaxSeq /\ op.inner \in Inner
  BY DEF CryptoOp
<1>2. /\ op.inner.ctype \in {"applicationData", "handshake", "alert",
                             "changeCipherSpec", "invalid", "allZero"}
      /\ op.inner.ctype = "applicationData" => op.inner.content \in Bytes
  BY <1>1 DEF Inner
<1>3. RecordUnit(op.inner.ctype, op.epoch, op.seq) \in Seq(Unit)
  BY <1>1, <1>2 DEF RecordUnit, Unit
<1>4. ASSUME op.inner.ctype = "applicationData"
      PROVE  [i \in 1..Len(op.inner.content) |->
               [rec |-> "data", unit |-> op.inner.content[i]]] \in Seq(Unit)
  <2> DEFINE content == op.inner.content
  <2>1. content \in Seq(Nat)
    BY <1>2, <1>4 DEF Bytes
  <2> HIDE DEF content
  <2>2. \A i \in 1..Len(content) :
          [rec |-> "data", unit |-> content[i]] \in Unit
    BY <2>1 DEF Unit
  <2>3. [i \in 1..Len(content) |-> [rec |-> "data", unit |-> content[i]]]
          \in Seq(Unit)
    BY <2>1, <2>2
  <2> QED
    BY <2>3 DEF content
<1> QED
  BY <1>3, <1>4 DEF SealedUnits

\* The transport takes units from the front of the queue and nothing else
\* changes but that it may break.
LEMMA DrainTypes ==
  ASSUME RuntimeType, NEW queue \in Seq(Unit), Drain(queue)
  PROVE  /\ rt' \in Runtime /\ wire' \in Seq(Unit) /\ closed' = closed
         /\ rt'.keys = rt.keys /\ Len(rt'.outbound) <= Len(queue)
         /\ rt'.plaintextOut = rt.plaintextOut
         /\ rt'.acceptedBytes = rt.acceptedBytes
<1>1. PICK n \in 0..Len(queue), broken \in BOOLEAN :
        /\ wire' = wire \o SubSeq(queue, 1, n)
        /\ rt' = [rt EXCEPT !.outbound = SubSeq(queue, n + 1, Len(queue)),
                            !.lastError = IF broken THEN "transport" ELSE @,
                            !.terminal = @ \/ broken]
        /\ UNCHANGED closed
  BY DEF Drain
<1> DEFINE rest == SubSeq(queue, n + 1, Len(queue))
<1>2. /\ SubSeq(queue, 1, n) \in Seq(Unit) /\ rest \in Seq(Unit)
      /\ Len(rest) <= Len(queue)
  OBVIOUS
<1> HIDE DEF rest
<1>3. rt \in Runtime /\ wire \in Seq(Unit)
  BY DEF RuntimeType
<1>4. rt' = [rt EXCEPT !.outbound = rest,
                       !.lastError = IF broken THEN "transport" ELSE @,
                       !.terminal = @ \/ broken]
  BY <1>1 DEF rest
<1>5. wire' \in Seq(Unit)
  BY <1>1, <1>2, <1>3
<1> QED
  BY <1>1, <1>2, <1>3, <1>4, <1>5 DEF Runtime

LEMMA StutterCore ==
  ASSUME CoreInv, UNCHANGED vars
  PROVE  CoreInv'
<1>1. TypeOK' /\ CloseStateAgrees' /\ HeldOnlyOnOpenChannel'
  BY StutterType
  DEF CoreInv, CloseStateAgrees, HeldOnlyOnOpenChannel, Connected, vars,
      coreVars
<1>2. FlightShape'
  BY UndisturbedShape DEF CoreInv, vars, coreVars
<1> QED
  BY <1>1, <1>2 DEF CoreInv

\* What carrying out one action does.
Carried ==
  /\ performed < Len(out) /\ performed' = performed + 1
  /\ UNCHANGED <<vars, peer, call, events, fuel, answered, callerVars>>
  /\ followUps' \in Seq(AnEvent)
  /\ rt' \in Runtime /\ wire' \in Seq(Unit) /\ closed' \in BOOLEAN
  /\ Current.act # "closeTransport" => closed' = closed
  /\ Current.act \in Dropping => rt'.keys = {}
  /\ ~Installing(Current) => rt'.keys \in {{}, rt.keys}

LEMMA RaiseType ==
  ASSUME DriveType, NEW event \in AnEvent, Raise(event)
  PROVE  followUps' \in Seq(AnEvent)
BY DEF Raise, DriveType

LEMMA CurrentType ==
  ASSUME ConnType, performed < Len(out)
  PROVE  Current \in OutputAction /\ performed + 1 \in Rest
BY DEF ConnType, CoreInv, TypeOK, DriveType, Current, Rest

LEMMA TerminateType ==
  ASSUME rt \in Runtime, NEW error \in LastError
  PROVE  Terminate(rt, error) \in Runtime /\ Terminate(rt, error).keys = {}
BY DEF Runtime, Terminate

LEMMA ReadCarried ==
  ASSUME ConnType, ReadBytes \/ ReadNothing \/ ReadEnd
  PROVE  Carried
<1> USE DEF Perform, wireVars
<1>1. /\ performed < Len(out) /\ Current.act = "readTransport"
      /\ DriveType /\ RuntimeType
  BY DEF ReadBytes, ReadNothing, ReadEnd, ConnType
<1>2. followUps' \in Seq(AnEvent)
  <2>1. ASSUME NEW recs \in Chunks
        PROVE  [ev |-> "transportBytes", recs |-> recs] \in AnEvent
    BY InputsAssumption DEF AnEvent
  <2>2. Event("transportEof") \in AnEvent
    BY DEF Event, AnEvent
  <2> QED
    BY <1>1, <2>1, <2>2, RaiseType
    DEF ReadBytes, ReadNothing, ReadEnd, DriveType
<1>3. rt' \in Runtime /\ rt'.keys = rt.keys /\ wire' = wire /\ closed' = closed
  BY <1>1 DEF RuntimeType, Runtime, ReadBytes, ReadNothing, ReadEnd
<1>4. UNCHANGED <<vars, peer, call, events, fuel, answered, callerVars>>
      /\ performed' = performed + 1
  BY DEF ReadBytes, ReadNothing, ReadEnd
<1> QED
  BY <1>1, <1>2, <1>3, <1>4 DEF Carried, Dropping, Installing, RuntimeType

LEMMA WriteCarried ==
  ASSUME ConnType, WriteSealed \/ WriteFlight \/ WriteAlertRecord
  PROVE  Carried
<1> USE DEF Perform, wireVars
<1>1. /\ performed < Len(out)
      /\ Current.act \in {"writeTransport", "writeHandshake", "writeAlert"}
      /\ DriveType /\ RuntimeType
  BY DEF WriteSealed, WriteFlight, WriteAlertRecord, ConnType
<1>2. rt.outbound \in Seq(Unit) /\ rt \in Runtime /\ wire \in Seq(Unit)
  BY <1>1 DEF RuntimeType, Runtime
<1>3. \/ UNCHANGED <<rt, wireVars>>
      \/ rt' = Terminate(rt, "other") /\ UNCHANGED wireVars
      \/ \E units \in Seq(Unit) : Drain(rt.outbound \o units)
  <2>1. CASE WriteSealed
    <3>1. answered # <<>> /\ answered[1].op.kind = "aeadSeal"
      BY <1>1, <2>1, CurrentType DEF WriteSealed, ConnType, WritesAnswered,
         Current
    <3>2. answered[1] \in Request
      BY <1>1, <3>1 DEF DriveType
    <3>3. answered[1].op \in CryptoOp
      BY <3>2 DEF Request
    <3> QED
      BY <2>1, <3>1, <3>3, SealedUnitsType DEF WriteSealed
  <2>2. CASE WriteFlight
    <3> DEFINE protected == Current.epoch = "handshake"
                             /\ <<"write", "handshake">> \in rt.keys
    <3>1. protected \in BOOLEAN /\ Current.msg \in ServerMessage
      BY <1>1, <2>2, CurrentType, ActionFields DEF WriteFlight
    <3>2. \/ rt' = Terminate(rt, "other") /\ UNCHANGED wireVars
          \/ Drain(rt.outbound \o FlightUnit(Current.msg, protected))
      BY <2>2 DEF WriteFlight
    <3> HIDE DEF protected
    <3>3. FlightUnit(Current.msg, protected) \in Seq(Unit)
      BY <3>1 DEF FlightUnit, Unit
    <3> QED
      BY <3>2, <3>3
  <2>3. CASE WriteAlertRecord
    <3>1. Current.epoch \in Epoch /\ Current.seq \in 0..MaxSeq
      BY <1>1, <2>3, CurrentType, ActionFields DEF WriteAlertRecord
    <3>2. RecordUnit("fatalAlert", Current.epoch, Current.seq) \in Seq(Unit)
      BY <3>1 DEF RecordUnit, Unit
    <3> QED
      BY <2>3, <3>2 DEF WriteAlertRecord
  <2> QED
    BY <2>1, <2>2, <2>3
<1>4. /\ rt' \in Runtime /\ rt'.keys \in {{}, rt.keys}
      /\ wire' \in Seq(Unit) /\ closed' = closed
  <2>1. CASE UNCHANGED <<rt, wireVars>>
    BY <1>2, <2>1
  <2>2. CASE rt' = Terminate(rt, "other") /\ UNCHANGED wireVars
    BY <1>2, <2>2, TerminateType
  <2>3. CASE \E units \in Seq(Unit) : Drain(rt.outbound \o units)
    <3>1. PICK units \in Seq(Unit) : Drain(rt.outbound \o units)
      BY <2>3
    <3>2. rt.outbound \o units \in Seq(Unit)
      BY <1>2
    <3> QED
      BY <1>1, <3>1, <3>2, DrainTypes
  <2> QED
    BY <1>3, <2>1, <2>2, <2>3
<1>5. /\ UNCHANGED <<vars, peer, call, events, fuel, answered, callerVars>>
      /\ performed' = performed + 1 /\ followUps' = followUps
  BY DEF WriteSealed, WriteFlight, WriteAlertRecord
<1> QED
  BY <1>1, <1>4, <1>5 DEF Carried, Dropping, Installing, DriveType, RuntimeType

LEMMA ProviderCarried ==
  ASSUME ConnType, ProviderSucceeds \/ ProviderFails \/ ProviderMisanswers
  PROVE  Carried
<1> USE DEF Perform, wireVars
<1>1. /\ performed < Len(out) /\ Current.act = "callCrypto"
      /\ DriveType /\ rt \in Runtime /\ wire \in Seq(Unit)
      /\ closed \in BOOLEAN
  BY DEF ProviderSucceeds, ProviderFails, ProviderMisanswers, ConnType,
         RuntimeType
<1>2. /\ UNCHANGED <<vars, peer, call, events, fuel, answered, callerVars>>
      /\ performed' = performed + 1 /\ UNCHANGED wireVars
  BY DEF ProviderSucceeds, ProviderFails, ProviderMisanswers
<1>3. ProviderCall \in Request
  BY <1>1, CurrentType, ActionFields DEF ProviderCall, Request
<1>4. followUps' \in Seq(AnEvent)
  <2>1. \A ok \in BOOLEAN :
          [ev |-> "cryptoResult", call |-> ProviderCall, ok |-> ok] \in AnEvent
    BY <1>3 DEF AnEvent
  <2> QED
    BY <1>1, <2>1, RaiseType
    DEF ProviderSucceeds, ProviderFails, ProviderMisanswers, DriveType
<1>5. rt' \in Runtime /\ (~Installing(Current) => rt'.keys \in {{}, rt.keys})
  <2>1. CASE ProviderSucceeds
    <3>1. rt' = [rt EXCEPT !.keys = @ \cup Installs(Current.op)]
      BY <2>1 DEF ProviderSucceeds
    <3>2. Installs(Current.op) \subseteq Direction \X Epoch
      BY <1>1, CurrentType, KeyOfType
      DEF ConnType, InstallsNamed, Installing, Current, Installs
    <3>3. ~Installing(Current) => Installs(Current.op) = {}
      BY <1>1 DEF Installing, Installs
    <3>4. rt.keys \subseteq Direction \X Epoch
      BY <1>1 DEF Runtime
    <3> DEFINE keys == rt.keys \cup Installs(Current.op)
    <3>5. keys \in SUBSET (Direction \X Epoch)
      BY <3>2, <3>4
    <3>6. ~Installing(Current) => keys = rt.keys
      BY <3>3
    <3>7. rt' = [rt EXCEPT !.keys = keys]
      BY <3>1
    <3> HIDE DEF keys
    <3> QED
      BY <1>1, <3>5, <3>6, <3>7 DEF Runtime
  <2>2. CASE ProviderFails
    BY <1>1, <2>2 DEF ProviderFails
  <2>3. CASE ProviderMisanswers
    BY <1>1, <2>3, TerminateType DEF ProviderMisanswers
  <2> QED
    BY <2>1, <2>2, <2>3
<1> QED
  BY <1>1, <1>2, <1>4, <1>5 DEF Carried, Dropping

LEMMA ReportCarried ==
  ASSUME ConnType, Plaintext \/ Report \/ CloseConnection
  PROVE  Carried
<1> USE DEF Perform, wireVars
<1>1. /\ performed < Len(out) /\ Current \in OutputAction
      /\ followUps \in Seq(AnEvent) /\ rt \in Runtime /\ wire \in Seq(Unit)
      /\ closed \in BOOLEAN
  BY CurrentType
  DEF Plaintext, Report, CloseConnection, ConnType, RuntimeType, DriveType
<1>2. /\ UNCHANGED <<vars, peer, call, events, fuel, answered, callerVars>>
      /\ performed' = performed + 1 /\ UNCHANGED <<followUps, wire>>
  BY DEF Plaintext, Report, CloseConnection
<1>3. CASE Plaintext
  <2>1. UNCHANGED closed /\ ~Installing(Current)
        /\ Current.act \in {"emitPlaintext", "acceptPlaintextBytes"}
    BY <1>3 DEF Plaintext, Installing
  <2>2. rt' \in Runtime /\ rt'.keys = rt.keys
    <3>1. CASE /\ Current.act = "emitPlaintext"
               /\ rt' = [rt EXCEPT !.plaintextOut = <<Current.content>>]
      <4>1. <<Current.content>> \in Seq(Bytes)
        BY <1>1, <3>1, ActionFields
      <4> QED
        BY <1>1, <3>1, <4>1 DEF Runtime
    <3>2. CASE /\ Current.act = "acceptPlaintextBytes"
               /\ rt' = [rt EXCEPT !.acceptedBytes = @ + Current.count]
      <4> DEFINE sum == rt.acceptedBytes + Current.count
      <4>1. Current.count \in Nat /\ rt.acceptedBytes \in Nat
        BY <1>1, <3>2, ActionFields DEF Runtime
      <4>2. sum \in Nat /\ rt' = [rt EXCEPT !.acceptedBytes = sum]
        BY <3>2, <4>1
      <4> HIDE DEF sum
      <4> QED
        BY <1>1, <4>2 DEF Runtime
    <3> QED
      BY <1>3, <3>1, <3>2 DEF Plaintext
  <2> QED
    BY <1>1, <1>2, <2>1, <2>2 DEF Carried, Dropping
<1>4. CASE Report
  <2>1. UNCHANGED closed /\ ~Installing(Current)
        /\ Current.act \in {"reportError", "failWithAlert",
                           "reportHandshakeComplete"}
    BY <1>4 DEF Report, Installing
  <2>2. /\ rt' \in Runtime /\ rt'.keys \in {{}, rt.keys}
        /\ Current.act # "reportHandshakeComplete" => rt'.keys = {}
    BY <1>1, <1>4, TerminateType DEF Report
  <2> QED
    BY <1>1, <1>2, <2>1, <2>2 DEF Carried, Dropping
<1>5. CASE CloseConnection
  <2>1. /\ Current.act = "closeTransport" /\ closed' = TRUE
        /\ rt' = Terminate(rt, "none")
    BY <1>5 DEF CloseConnection
  <2> QED
    BY <1>1, <1>2, <2>1, TerminateType DEF Carried, Dropping, Installing
<1> QED
  BY <1>3, <1>4, <1>5

LEMMA ExecuteCarried ==
  ASSUME ConnType, Execute
  PROVE  Carried
BY ReadCarried, WriteCarried, ProviderCarried, ReportCarried DEF Execute

LEMMA ExecuteConn ==
  ASSUME ConnInv, Execute
  PROVE  ConnInv'
<1>1. Carried /\ ConnType
  BY ExecuteCarried DEF ConnInv
<1>2. /\ performed < Len(out) /\ performed' = performed + 1
      /\ UNCHANGED <<vars, peer, call, events, fuel, answered, callerVars>>
      /\ followUps' \in Seq(AnEvent)
      /\ rt' \in Runtime /\ wire' \in Seq(Unit) /\ closed' \in BOOLEAN
  BY <1>1 DEF Carried
<1>3. Rest' = Rest \ {performed + 1} /\ performed + 1 \in Rest
  <2>1. out' = out
    BY <1>2 DEF vars
  <2>2. performed \in Nat /\ Len(out) \in Nat
    BY <1>1 DEF ConnType, DriveType, CoreInv, TypeOK
  <2> QED
    BY <1>2, <2>1, <2>2 DEF Rest
<1>4. CoreInv'
  BY <1>1, <1>2, StutterCore DEF ConnType
<1>5. DriveType' /\ RuntimeType'
  BY <1>1, <1>2 DEF DriveType, RuntimeType, ConnType, CoreInv, TypeOK, vars,
     callerVars
<1>6. WritesAnswered' /\ InstallsNamed'
  BY <1>1, <1>2, <1>3 DEF WritesAnswered, InstallsNamed, ConnType, vars
<1>7. IdlePerformed'
  <2>1. ~Idle
    BY <1>1, <1>2 DEF ConnType, IdlePerformed, Performed
  <2> QED
    BY <1>2, <2>1 DEF IdlePerformed, Idle
<1>8. SecretsShape'
  <2>1. UNCHANGED <<hs, out>>
    BY <1>2 DEF vars, coreVars
  <2>2. SecretsShape
    BY DEF ConnInv
  <2>3. Installing(Current) => hs \notin Ending
    BY <1>3, <2>2 DEF SecretsShape, Current
  <2>4. hs \in Ending => rt'.keys \in {{}, rt.keys}
    BY <1>1, <2>3 DEF Carried
  <2>5. Current.act = "closeTransport" => hs \in Ending
    BY <1>3, <2>2 DEF SecretsShape, Current
  <2>6. closed' => hs \in Ending /\ rt'.keys = {}
    BY <1>1, <2>2, <2>4, <2>5 DEF SecretsShape, Carried, Dropping
  <2>7. Terminal =>
          rt'.keys = {} \/ \E i \in Rest' : out[i].act \in Dropping
    <3>1. SUFFICES ASSUME Terminal
                   PROVE  rt'.keys = {}
                          \/ \E i \in Rest' : out[i].act \in Dropping
      OBVIOUS
    <3>2. CASE rt.keys = {}
      BY <2>4, <3>1, <3>2 DEF Terminal, Ending
    <3>3. ASSUME NEW i \in Rest, out[i].act \in Dropping
          PROVE  rt'.keys = {} \/ \E j \in Rest' : out[j].act \in Dropping
      BY <1>1, <1>3, <3>3 DEF Carried, Current
    <3> QED
      BY <2>2, <3>1, <3>2, <3>3 DEF SecretsShape
  <2> QED
    BY <1>3, <2>1, <2>2, <2>6, <2>7 DEF SecretsShape, Terminal
<1> QED
  BY <1>4, <1>5, <1>6, <1>7, <1>8 DEF ConnInv, ConnType

-----------------------------------------------------------------------------
(* The public calls.                                                       *)

\* What a call or its return does.
Called ==
  /\ Performed
  /\ UNCHANGED <<vars, peer, performed, closed>>
  /\ events' \in Seq(AnEvent) /\ followUps' \in Seq(AnEvent) /\ fuel' \in Nat
  /\ answered' \in {<<>>, answered}
  /\ rt' \in Runtime /\ rt'.keys = rt.keys /\ wire' \in Seq(Unit)
  /\ received' \in Bytes /\ owned' \in Nat

\* A call begins with one event.
LEMMA StartCalled ==
  ASSUME ConnType, Performed, NEW stage, NEW event \in AnEvent,
         Drive(stage, event), rt' \in Runtime, rt'.keys = rt.keys,
         UNCHANGED callerVars
  PROVE  Called
BY LimitsOfCallsAssumption
DEF Drive, Called, ConnType, DriveType, RuntimeType, wireVars, callerVars

\* A call returns when its drive is over.
LEMMA FinishCalled ==
  ASSUME ConnType, Performed, Finish, UNCHANGED closed, rt' \in Runtime,
         rt'.keys = rt.keys, wire' \in Seq(Unit), received' \in Bytes,
         owned' \in Nat
  PROVE  Called
BY DEF Finish, Called

LEMMA CallsPerformed ==
  ASSUME ConnType, Calls
  PROVE  Performed
BY DEF Calls, RecvStart, RecvPull, RecvRetry, RecvReturn, SendStart,
       SendNothing, SendReturn, FlushStart, FlushReturn, CloseStart,
       CloseReturn, ProgressStart, ProgressReturn, Start, Driven, ConnType,
       IdlePerformed

LEMMA AdmittedType ==
  ASSUME RuntimeType, NEW n \in Nat
  PROVE  Admitted(n) \in 0..n
<1>1. Len(rt.outbound) \in Nat
  BY DEF RuntimeType, Runtime
<1> QED
  BY <1>1, LimitsOfCallsAssumption, MaxFragmentAssumption
  DEF Admitted, MaxPlaintextForProtectedBudget, Overhead

LEMMA SendEventType ==
  ASSUME RuntimeType, NEW n \in Nat
  PROVE  [ev |-> "appSend", plain |-> [i \in 1..Admitted(n) |-> owned + i]]
           \in AnEvent
<1> DEFINE plain == [i \in 1..Admitted(n) |-> owned + i]
<1>1. Admitted(n) \in Nat /\ owned \in Nat
  BY AdmittedType DEF RuntimeType
<1>2. plain \in Bytes
  BY <1>1 DEF Bytes
<1> HIDE DEF plain
<1>3. [ev |-> "appSend", plain |-> plain] \in AnEvent
  BY <1>2 DEF AnEvent
<1> QED
  BY <1>3 DEF plain

LEMMA StartsCalled ==
  ASSUME ConnType,
         \/ RecvStart \/ RecvPull \/ RecvRetry
         \/ \E n \in 0..MaxSends : SendStart(n)
         \/ FlushStart \/ CloseStart \/ ProgressStart
  PROVE  Called
<1>1. Performed /\ RuntimeType /\ rt \in Runtime
  BY CallsPerformed DEF Calls, ConnType, RuntimeType
<1>2. \A name \in {"appRecv", "appFlush", "transportReadable",
                   "transportEof", "timeout"} : Event(name) \in AnEvent
  BY DEF Event, AnEvent
<1>3. CASE RecvStart \/ RecvPull \/ RecvRetry \/ FlushStart
  BY <1>1, <1>2, <1>3, StartCalled
  DEF RecvStart, RecvPull, RecvRetry, FlushStart, Start
<1>4. ASSUME NEW n \in 0..MaxSends, SendStart(n)
      PROVE  Called
  <2> DEFINE event == [ev |-> "appSend",
                       plain |-> [i \in 1..Admitted(n) |-> owned + i]]
  <2>1. event \in AnEvent
    BY <1>1, MaxSendsAssumption, SendEventType
  <2>2. Drive("send", event) /\ UNCHANGED callerVars
        /\ rt' = [rt EXCEPT !.acceptedBytes = 0]
    BY <1>4 DEF SendStart
  <2>3. rt' \in Runtime /\ rt'.keys = rt.keys
    BY <1>1, <2>2 DEF Runtime
  <2> HIDE DEF event
  <2> QED
    BY <1>1, <2>1, <2>2, <2>3, StartCalled
<1>5. CASE CloseStart
  <2>1. \A mode \in CloseMode : [ev |-> "appClose", mode |-> mode] \in AnEvent
    BY DEF AnEvent
  <2> QED
    BY <1>1, <1>5, <2>1, StartCalled DEF CloseStart, Start
<1>6. CASE ProgressStart
  BY <1>1, <1>2, <1>6, StartCalled DEF ProgressStart, Start
<1> QED
  BY <1>3, <1>4, <1>5, <1>6

LEMMA ReturnsCalled ==
  ASSUME ConnType,
         \/ RecvReturn \/ SendReturn \/ FlushReturn \/ CloseReturn
         \/ ProgressReturn \/ \E n \in 0..MaxSends : SendNothing(n)
  PROVE  Called
<1>1. Performed /\ RuntimeType /\ DriveType
  BY CallsPerformed DEF Calls, ConnType
<1>2. /\ rt \in Runtime /\ wire \in Seq(Unit) /\ received \in Bytes
      /\ owned \in Nat /\ rt.acceptedBytes \in Nat
      /\ rt.outbound \in Seq(Unit) /\ rt.plaintextOut \in Seq(Bytes)
  BY <1>1 DEF RuntimeType, Runtime
<1>3. CASE RecvReturn
  <2>1. CASE DeliverPlaintext
    <3>1. rt'.keys = rt.keys /\ rt' \in Runtime
      <4>1. <<>> \in Seq(Bytes)
        OBVIOUS
      <4> QED
        BY <1>2, <2>1, <4>1 DEF DeliverPlaintext, Runtime
    <3>2. received' \in Bytes
      BY <1>2, <2>1 DEF DeliverPlaintext, Bytes
    <3> QED
      BY <1>1, <1>2, <2>1, <3>1, <3>2, FinishCalled
      DEF DeliverPlaintext, wireVars
  <2>2. CASE Finish /\ UNCHANGED <<rt, wireVars, received, owned>>
    BY <1>1, <1>2, <2>2, FinishCalled DEF wireVars
  <2> QED
    BY <1>3, <2>1, <2>2 DEF RecvReturn
<1>4. CASE SendReturn
  <2>1. owned' \in Nat
    BY <1>2, <1>4 DEF SendReturn
  <2> QED
    BY <1>1, <1>2, <1>4, <2>1, FinishCalled DEF SendReturn, wireVars
<1>5. CASE FlushReturn
  <2>1. rt' \in Runtime /\ wire' \in Seq(Unit) /\ closed' = closed
        /\ rt'.keys = rt.keys
    BY <1>1, <1>2, <1>5, DrainTypes DEF FlushReturn
  <2> QED
    BY <1>1, <1>2, <1>5, <2>1, FinishCalled DEF FlushReturn
<1>6. CASE CloseReturn \/ ProgressReturn
  BY <1>1, <1>2, <1>6, FinishCalled
  DEF CloseReturn, ProgressReturn, wireVars, callerVars
<1>7. ASSUME NEW n \in 0..MaxSends, SendNothing(n)
      PROVE  Called
  BY <1>1, <1>2, <1>7
  DEF SendNothing, Called, DriveType, driveVars, wireVars
<1> QED
  BY <1>3, <1>4, <1>5, <1>6, <1>7

LEMMA CallsCalled ==
  ASSUME ConnType, Calls
  PROVE  Called
BY StartsCalled, ReturnsCalled DEF Calls

LEMMA CallsConn ==
  ASSUME ConnInv, Calls
  PROVE  ConnInv'
<1>1. Called /\ ConnType
  BY CallsCalled DEF ConnInv
<1>2. /\ UNCHANGED <<vars, peer, performed, closed>> /\ Performed
      /\ rt'.keys = rt.keys
  BY <1>1 DEF Called
<1>3. Rest' = {} /\ Rest = {} /\ Performed'
  <2>1. out' = out /\ performed' = performed /\ performed = Len(out)
    BY <1>2 DEF vars, Performed
  <2>2. Len(out) \in Nat
    BY <1>1 DEF ConnType, CoreInv, TypeOK
  <2> QED
    BY <2>1, <2>2 DEF Rest, Performed
<1>4. CoreInv'
  BY <1>1, <1>2, StutterCore DEF ConnType
<1>5. DriveType'
  <2>1. DriveType /\ <<>> \in Seq(Request) /\ out' = out
    BY <1>1, <1>2 DEF ConnType, vars
  <2> QED
    BY <1>1, <1>2, <2>1 DEF DriveType, Called
<1>6. RuntimeType'
  BY <1>1, <1>2 DEF RuntimeType, ConnType, Called
<1>7. WritesAnswered' /\ InstallsNamed' /\ IdlePerformed'
  BY <1>3 DEF WritesAnswered, InstallsNamed, IdlePerformed
<1>8. SecretsShape'
  BY <1>2, <1>3 DEF SecretsShape, ConnInv, Terminal, vars, coreVars
<1> QED
  BY <1>4, <1>5, <1>6, <1>7, <1>8 DEF ConnInv, ConnType

-----------------------------------------------------------------------------
LEMMA InitConn == ConnInit => ConnInv
<1> SUFFICES ASSUME ConnInit
             PROVE  ConnInv
  OBVIOUS
<1>1. TypeOK /\ FlightShape
  BY InitFlight DEF ConnInit, FlightInv
<1>2. CloseStateAgrees /\ HeldOnlyOnOpenChannel
  BY DEF ConnInit, Init, CloseStateAgrees, HeldOnlyOnOpenChannel
<1>3. hs = "start" /\ out = <<>> /\ peer \in Streams
  BY DEF ConnInit, Init
<1>4. DriveType /\ Performed
  BY <1>3 DEF ConnInit, DriveType, Performed
<1>5. RuntimeType
  <2>1. /\ <<>> \in Seq(Unit) /\ <<>> \in Seq(Bytes) /\ <<>> \in Bytes
        /\ {} \in SUBSET (Direction \X Epoch)
    BY DEF Bytes
  <2>2. rt \in Runtime
    BY <2>1 DEF ConnInit, Runtime
  <2> QED
    BY <1>3, <2>1, <2>2 DEF ConnInit, RuntimeType
<1>6. Rest = {}
  BY <1>3 DEF ConnInit, Rest
<1>7. SecretsShape /\ WritesAnswered /\ InstallsNamed /\ IdlePerformed
  BY <1>3, <1>4, <1>6
  DEF SecretsShape, WritesAnswered, InstallsNamed, IdlePerformed, ConnInit,
      Terminal, TerminalPhase
<1> QED
  BY <1>1, <1>2, <1>4, <1>5, <1>7 DEF ConnInv, ConnType, CoreInv

LEMMA ConnInvStep == ConnInv /\ [ConnNext]_connVars => ConnInv'
<1>1. ASSUME ConnInv, ConnNext
      PROVE  ConnInv'
  BY <1>1, StepConn, ExecuteConn, CallsConn DEF ConnNext
<1>2. ASSUME ConnInv, UNCHANGED connVars
      PROVE  ConnInv'
  <2>1. UNCHANGED vars /\ UNCHANGED <<peer, call, driveVars, rt, wireVars,
                                     callerVars>>
    BY <1>2 DEF connVars
  <2>2. UNCHANGED <<out, hs>>
    BY <2>1 DEF vars, coreVars
  <2>3. CoreInv'
    BY <1>2, <2>1, StutterCore DEF ConnInv, ConnType
  <2>4. DriveType' /\ RuntimeType'
    BY <1>2, <2>1, <2>2
    DEF ConnInv, ConnType, DriveType, RuntimeType, driveVars, wireVars,
        callerVars
  <2>5. /\ WritesAnswered' /\ InstallsNamed' /\ IdlePerformed'
        /\ SecretsShape'
    BY <1>2, <2>1, <2>2
    DEF ConnInv, ConnType, WritesAnswered, InstallsNamed, IdlePerformed,
        SecretsShape, driveVars, wireVars, Rest, Idle, Performed, Terminal
  <2> QED
    BY <2>3, <2>4, <2>5 DEF ConnInv, ConnType
<1> QED
  BY <1>1, <1>2

\* The core keeps under the interpreter all it promises on its own, whatever
\* caller, transport and provider do; and secrets go with the first terminate
\* and never come back.
THEOREM ConnInvariant == ConnSpec => []ConnInv
BY InitConn, ConnInvStep, PTL DEF ConnSpec

-----------------------------------------------------------------------------
(* Records in the making.  A drive is a chain: one event, or one action    *)
(* that raises the next.  send and close ask for one seal each and see it  *)
(* through to the queue of the transport.                                  *)

Queue == followUps \o events

Raises(action) == action.act \in {"readTransport", "callCrypto"}
SealCall(action) == action.act = "callCrypto" /\ action.op.kind = "aeadSeal"
SealAnswer(e) == e.ev = "cryptoResult" /\ e.call.op.kind = "aeadSeal"

SealAsked == \E i \in Rest : SealCall(out[i])
SealAnswered == \E i \in 1..Len(Queue) : SealAnswer(Queue[i])
SealToWrite == \E i \in Rest : out[i].act = "writeTransport"
InHand == SealAsked \/ SealAnswered \/ SealToWrite

Outstands(c) == \E o \in pendingOps : o.id = c.id /\ o.kind = c.op.kind

\* At most one event is under way, and what a call offers is the first of it.
ChainShape ==
  /\ Len(Queue) <= 1
  /\ \A i \in Rest : Raises(out[i]) =>
       Queue = <<>> /\ \A j \in Rest : Raises(out[j]) => j = i
  /\ \A i \in 1..Len(Queue) :
       Queue[i].ev \in {"appSend", "appClose"} =>
         /\ Performed /\ fuel = MaxSteps
         /\ call = IF Queue[i].ev = "appSend" THEN "send" ELSE "close"

\* Calls and answers belong to operations that are outstanding.
CallsShape ==
  /\ \A i \in Rest : out[i].act = "callCrypto" => Outstands(out[i])
  /\ \A i \in 1..Len(Queue) :
       Queue[i].ev = "cryptoResult" => Outstands(Queue[i].call)

AppKey == <<"write", "application">> \in rt.keys
Lost == rt.terminal /\ ~AppKey
Early == hs \notin {"connected"} \cup Ending
Fits(n) == Len(rt.outbound) + n <= MaxCiphertext

EarlyShape ==
  /\ Early => writeEpoch.seq = 0
  /\ \A i \in Rest : Installing(out[i]) => Early
  /\ SealToWrite => Live

\* What send or close has asked to seal, with the last number used.
SealsData(op) ==
  /\ call = "send" /\ Connected
  /\ op.inner.ctype = "applicationData"
  /\ \A k \in 1..Len(op.inner.content) : op.inner.content[k] = owned + k
  /\ Fits(1 + Len(op.inner.content))

SealsNotify(op) ==
  /\ call = "close" /\ hs = "closing" /\ closeState = "sentCloseNotify"
  /\ writeEpoch.epoch = "application" /\ ~closed
  /\ op.inner = CloseNotify

SealsLast(op) ==
  /\ op.epoch = "application" /\ op.seq + 1 = writeEpoch.seq
  /\ SealsData(op) \/ SealsNotify(op)

\* The actions of the step that asked for op.
AskedFor(op) ==
  /\ call = "send" =>
       Len(out) = 2 /\ out[2] = AcceptPlaintext(Len(op.inner.content))
  /\ call = "close" => Len(out) = 1

AskShape ==
  \A i \in Rest : SealCall(out[i]) =>
    /\ i = 1 /\ fuel > 0
    /\ SealsLast(out[i].op) /\ AskedFor(out[i].op)
    /\ call = "send" => rt.acceptedBytes = 0

AnswerShape ==
  \A i \in 1..Len(Queue) : SealAnswer(Queue[i]) =>
    LET op == Queue[i].call.op
    IN  /\ performed >= 1 /\ fuel > 0
        /\ SealsLast(op) /\ AskedFor(op)
        /\ Queue[i].ok => AppKey
        /\ call = "send" =>
             rt.acceptedBytes =
               IF performed = 1 THEN 0 ELSE Len(op.inner.content)

WriteShape ==
  \A i \in Rest : out[i].act = "writeTransport" =>
    /\ i = 1 /\ Queue = <<>> /\ AppKey
    /\ SealsLast(answered[1].op)
    /\ call = "send" =>
         Len(out) = 1 /\ rt.acceptedBytes = Len(answered[1].op.inner.content)
    /\ call = "close" => Len(out) = 2 /\ out[2].act = "closeTransport"

SendShape ==
  /\ \A i \in 1..Len(Queue) : Queue[i].ev = "appSend" =>
       /\ \A k \in 1..Len(Queue[i].plain) : Queue[i].plain[k] = owned + k
       /\ Fits(1 + Len(Queue[i].plain))
       /\ rt.acceptedBytes = 0
  /\ \A i \in Rest : out[i].act = "acceptPlaintextBytes" =>
       Connected /\ call = "send" /\ (InHand \/ Lost)
  /\ call = "send" =>
       /\ Fits(0)
       /\ \A i \in Rest : \/ SealCall(out[i])
                          \/ out[i].act \in {"acceptPlaintextBytes",
                                             "writeTransport"}
       /\ \A i \in 1..Len(Queue) :
            Queue[i].ev = "appSend" \/ SealAnswer(Queue[i])

\* As long as the write key is there the numbers it has used are those of the
\* records written, and the plaintext accepted is the plaintext written.
Ledger ==
  ~Lost \/ Early =>
    /\ Cardinality(Places(AppRecords)) =
         IF InHand THEN writeEpoch.seq - 1 ELSE writeEpoch.seq
    /\ Committed =
         owned + IF call = "send" /\ ~InHand THEN rt.acceptedBytes ELSE 0

SealShape ==
  Live => AskShape /\ AnswerShape /\ WriteShape /\ SendShape /\ Ledger

DataNumbered ==
  \A i \in Places({"data"}) : Written[i].unit = Before({"data"}, i) + 1

AlertRec == {"alert", "fatalAlert"}

\* Nothing that is left to do can follow an alert.
AlertsEnd ==
  /\ \A i \in Rest : out[i].act = "writeAlert" =>
       Terminal /\ \A j \in Rest \ {i} : out[j].act \in Dropping
  /\ \A i \in Places(AlertRec) :
       /\ i = Len(Written) /\ hs \in Ending
       /\ \A j \in Rest :
            /\ out[j].act \notin {"writeTransport", "writeHandshake"}
            /\ out[j].act = "writeAlert" =>
                 out[j].epoch # "initial" /\ rt.keys = {}
       /\ Terminal \/ /\ writeEpoch.epoch # "initial"
                      /\ \/ rt.keys = {}
                         \/ /\ Rest # {}
                            /\ \A j \in Rest : out[j].act = "closeTransport"

NotifyShape ==
  closeState = "sentCloseNotify" /\ writeEpoch.seq > 0
    /\ rt.lastError = "none" =>
    InHand \/ (Written # <<>> /\ Written[Len(Written)].rec = "alert")

-----------------------------------------------------------------------------
(* Ranks.                                                                  *)

Below(S, i) == {j \in S : j < i}

\* How many of S and of the interval a..b behind it there are, and how many
\* lie before a place of the interval.
Ranked(S, a, b) ==
  /\ Cardinality(S) \in Nat
  /\ Cardinality(S \cup (a..b)) = Cardinality(S) + (b + 1 - a)
  /\ \A i \in a..b :
       Cardinality(Below(S \cup (a..b), i)) = Cardinality(S) + (i - a)

\* Members added above all others rank behind them.
LEMMA RankOfAdded ==
  ASSUME NEW n \in Nat, NEW S \in SUBSET (1..n), NEW a \in Nat, NEW b \in Nat,
         n < a, a <= b + 1
  PROVE  Ranked(S, a, b)
<1> DEFINE T == S \cup (a..b)
<1>1. IsFiniteSet(1..n)
  BY FS_Interval
<1>2. IsFiniteSet(S) /\ Cardinality(S) \in Nat
  BY <1>1, FS_Subset, FS_CardinalityType
<1>3. ASSUME NEW c \in Nat, a <= c + 1
      PROVE  Cardinality(S \cup (a..c)) = Cardinality(S) + (c + 1 - a)
  <2>1. IsFiniteSet(a..c) /\ Cardinality(a..c) = c + 1 - a
    <3>1. a \in Int /\ c \in Int
      OBVIOUS
    <3>2. /\ IsFiniteSet(a..c)
          /\ Cardinality(a..c) = IF a > c THEN 0 ELSE c - a + 1
      BY <3>1, FS_Interval, Zenon
    <3> QED
      BY <1>3, <3>2
  <2>2. S \cap (a..c) = {}
    OBVIOUS
  <2>3. Cardinality(S \cap (a..c)) = 0
    BY <2>2, FS_EmptySet
  <2>4. Cardinality(S \cup (a..c))
          = Cardinality(S) + Cardinality(a..c) - Cardinality(S \cap (a..c))
    BY <1>2, <2>1, FS_Union
  <2> QED
    BY <1>2, <2>1, <2>3, <2>4
<1>4. ASSUME NEW i \in a..b
      PROVE  Cardinality(Below(T, i)) = Cardinality(S) + (i - a)
  <2> DEFINE c == i - 1
  <2>1. c \in Nat /\ a <= c + 1 /\ c + 1 - a = i - a
    OBVIOUS
  <2>2. \A j : j \in T /\ j < i <=> j \in S \cup (a..c)
    <3>1. \A j \in S : j < i
      OBVIOUS
    <3>2. \A j \in a..b : j < i <=> j \in a..c
      OBVIOUS
    <3>3. \A j \in a..c : j \in a..b
      OBVIOUS
    <3> HIDE DEF c
    <3> QED
      BY <3>1, <3>2, <3>3, Zenon
  <2> HIDE DEF c
  <2>3. Below(T, i) = S \cup (a..c)
    BY <2>2, Zenon DEF Below
  <2>4. Cardinality(S \cup (a..c)) = Cardinality(S) + (c + 1 - a)
    BY <1>3, <2>1, Zenon
  <2> QED
    BY <2>1, <2>3, <2>4, Zenon
<1> QED
  BY <1>2, <1>3, <1>4 DEF Ranked

LEMMA WrittenType ==
  ASSUME RuntimeType
  PROVE  /\ Written \in Seq(Unit) /\ Len(Written) \in Nat
         /\ \A recs : Places(recs) \in SUBSET (1..Len(Written))
BY DEF RuntimeType, Runtime, Written, Places

LEMMA BeforeIsBelow ==
  \A recs, i : Before(recs, i) = Cardinality(Below(Places(recs), i))
BY DEF Before, Below

\* What is written is never touched again, and new records of the types recs
\* lie behind it from a to b.
Spans(units, recs, a, b) ==
  /\ units \in Seq(Unit) /\ a \in Nat /\ b \in Nat
  /\ Len(Written) < a /\ a <= b + 1 /\ b <= Len(Written) + Len(units)
  /\ \A i \in 1..Len(units) :
       units[i].rec \in recs <=> Len(Written) + i \in a..b

AddedAt(units, recs, a, b) ==
  /\ Places(recs)' = Places(recs) \cup (a..b)
  /\ Cardinality(Places(recs)) \in Nat
  /\ Cardinality(Places(recs)') = Cardinality(Places(recs)) + (b + 1 - a)
  /\ \A i \in Places(recs) :
       Written'[i] = Written[i] /\ Before(recs, i)' = Before(recs, i)
  /\ \A i \in a..b :
       /\ Written'[i] = units[i - Len(Written)]
       /\ Before(recs, i)' = Cardinality(Places(recs)) + (i - a)

LEMMA PlacesAdded ==
  ASSUME RuntimeType, NEW units, Written' = Written \o units,
         NEW recs, NEW a, NEW b, Spans(units, recs, a, b)
  PROVE  AddedAt(units, recs, a, b)
<1> DEFINE n == Len(Written)
<1>1. /\ Written \in Seq(Unit) /\ n \in Nat
      /\ Places(recs) \in SUBSET (1..n)
  BY WrittenType
<1>0. /\ units \in Seq(Unit) /\ a \in Nat /\ b \in Nat
      /\ n < a /\ a <= b + 1 /\ b <= n + Len(units)
      /\ \A i \in 1..Len(units) :
           units[i].rec \in recs <=> n + i \in a..b
  BY DEF Spans
<1>2. /\ Len(Written') = n + Len(units)
      /\ \A i \in 1..n : Written'[i] = Written[i]
      /\ \A i \in (n + 1)..(n + Len(units)) : Written'[i] = units[i - n]
  BY <1>0, <1>1
<1>3. Places(recs)' = {i \in 1..(n + Len(units)) : Written'[i].rec \in recs}
  BY <1>2 DEF Places
<1>4. Places(recs) = {i \in 1..n : Written[i].rec \in recs}
  BY DEF Places
<1>5. \A i \in (n + 1)..(n + Len(units)) :
        Written'[i].rec \in recs <=> i \in a..b
  <2>1. \A i \in (n + 1)..(n + Len(units)) :
          i - n \in 1..Len(units) /\ n + (i - n) = i
    BY <1>0, <1>1
  <2> QED
    BY <1>0, <1>2, <2>1
<1> HIDE DEF n
<1>6. Places(recs)' = Places(recs) \cup (a..b)
  BY <1>0, <1>1, <1>2, <1>3, <1>4, <1>5 DEF n
<1>7. /\ Cardinality(Places(recs)) \in Nat
      /\ Cardinality(Places(recs)')
           = Cardinality(Places(recs)) + (b + 1 - a)
      /\ \A i \in Places(recs) :
           Cardinality(Below(Places(recs)', i))
             = Cardinality(Below(Places(recs), i))
      /\ \A i \in a..b : Cardinality(Below(Places(recs)', i))
                           = Cardinality(Places(recs)) + (i - a)
  <2>1. n \in Nat /\ n < a /\ a \in Nat /\ b \in Nat /\ a <= b + 1
    BY <1>0, <1>1 DEF n
  <2> DEFINE S == Places(recs)
  <2>2. S \in SUBSET (1..n) /\ Places(recs)' = S \cup (a..b)
    BY <1>1, <1>6
  <2> HIDE DEF S
  <2>3. /\ Cardinality(S) \in Nat
        /\ Cardinality(S \cup (a..b)) = Cardinality(S) + (b + 1 - a)
        /\ \A i \in a..b :
             Cardinality(Below(S \cup (a..b), i)) = Cardinality(S) + (i - a)
    <3>1. Ranked(S, a, b)
      BY <2>1, <2>2, RankOfAdded
    <3> QED
      BY <3>1 DEF Ranked
  <2>4. \A i \in S : Below(S \cup (a..b), i) = Below(S, i)
    BY <2>1, <2>2 DEF Below
  <2> QED
    BY <2>2, <2>3, <2>4, Zenon DEF S
<1>8. \A i : Before(recs, i)' = Cardinality(Below(Places(recs)', i))
  BY DEF Before, Below
<1>9. \A i \in a..b : i \in (n + 1)..(n + Len(units))
  BY <1>0, <1>1 DEF n
<1>10. \A i \in Places(recs) :
         Written'[i] = Written[i] /\ Before(recs, i)' = Before(recs, i)
  BY <1>1, <1>2, <1>7, <1>8, BeforeIsBelow, Zenon
<1>11. \A i \in a..b :
         /\ Written'[i] = units[i - Len(Written)]
         /\ Before(recs, i)' = Cardinality(Places(recs)) + (i - a)
  BY <1>2, <1>7, <1>8, <1>9, Zenon DEF n
<1> QED
  BY <1>6, <1>7, <1>10, <1>11, Zenon DEF AddedAt

-----------------------------------------------------------------------------
(* What the core answers to an event when the connection goes on.          *)

SealsNumber(op) ==
  /\ op \in CryptoOp /\ op.kind = "aeadSeal" /\ op.epoch = "application"
  /\ op.seq = writeEpoch.seq /\ writeEpoch' = AdvanceSeq(writeEpoch)

SendAsks(plain, op) ==
  /\ Connected /\ UNCHANGED <<hs, closeState>> /\ SealsNumber(op)
  /\ out' = <<CallCrypto(nextOpId, op),
              AcceptPlaintext(Len(op.inner.content))>>
  /\ op.inner.ctype = "applicationData"
  /\ Len(op.inner.content) \in 0..Len(plain)
  /\ \A k \in 1..Len(op.inner.content) : op.inner.content[k] = plain[k]

LEMMA SendOutcome ==
  ASSUME TypeOK, NEW plain \in Bytes, AppSend(plain), hs' \notin TerminalPhase
  PROVE  \E op : SendAsks(plain, op)
<1> DEFINE n == IF Len(plain) < MaxFragment THEN Len(plain) ELSE MaxFragment
           content == SubSeq(plain, 1, n)
           inner == [ctype |-> "applicationData", content |-> content]
           op == [kind |-> "aeadSeal", epoch |-> "application",
                  seq |-> writeEpoch.seq, inner |-> inner]
<1>1. /\ content \in Bytes /\ Len(content) = n /\ n \in 0..Len(plain)
      /\ \A k \in 1..n : content[k] = plain[k]
  BY MaxFragmentAssumption DEF Bytes
<1>2. ~Fail
  BY DEF Fail, TerminalPhase
<1>3. /\ Connected /\ writeEpoch' = AdvanceSeq(writeEpoch)
      /\ MoveTo(hs, <<CallCrypto(nextOpId, op), AcceptPlaintext(n)>>)
  BY <1>2 DEF AppSend
<1> HIDE DEF content, n
<1>4. inner \in Inner
  BY <1>1 DEF Inner
<1>5. op \in CryptoOp
  <2>1. "application" \in Epoch
    BY DEF Epoch
  <2> HIDE DEF inner
  <2> QED
    BY <1>4, <2>1 DEF TypeOK, EpochState, CryptoOp
<1>6. SealsNumber(op)
  BY <1>3, <1>5 DEF SealsNumber
<1>7. op.inner.content = content /\ op.inner.ctype = "applicationData"
  OBVIOUS
<1> HIDE DEF op
<1> QED
  BY <1>1, <1>3, <1>6, <1>7 DEF SendAsks, MoveTo

CloseAsks(op) ==
  /\ Connected /\ hs' = "closing" /\ closeState' = "sentCloseNotify"
  /\ SealsNumber(op) /\ op.inner = CloseNotify
  /\ out' = <<CallCrypto(nextOpId, op)>>

CloseOnly ==
  /\ UNCHANGED writeEpoch
  /\ \E mode : out' = <<CloseTransport(mode)>>
  /\ \/ /\ ~Connected /\ hs' = "closing" /\ closeState' = "sentCloseNotify"
        /\ closeState = "open"
     \/ UNCHANGED <<hs, closeState>>

LEMMA CloseOutcome ==
  ASSUME TypeOK, NEW mode, AppClose(mode), hs' \notin TerminalPhase
  PROVE  (\E op : CloseAsks(op)) \/ CloseOnly
<1>1. CASE AppCloseGraceful
  <2> DEFINE op == [kind |-> "aeadSeal", epoch |-> "application",
                    seq |-> writeEpoch.seq, inner |-> CloseNotify]
  <2>1. CloseNotify \in Inner
    BY DEF CloseNotify, Inner, Alert
  <2>2. "application" \in Epoch
    BY DEF Epoch
  <2>3. op \in CryptoOp
    BY <2>1, <2>2 DEF TypeOK, EpochState, CryptoOp
  <2>4. op.kind = "aeadSeal" /\ op.epoch = "application"
        /\ op.seq = writeEpoch.seq /\ op.inner = CloseNotify
    OBVIOUS
  <2>5. \/ Fail
        \/ /\ Connected /\ hs' = "closing" /\ closeState' = "sentCloseNotify"
           /\ writeEpoch' = AdvanceSeq(writeEpoch)
           /\ out' = <<CallCrypto(nextOpId, op)>>
        \/ /\ ~Connected /\ hs' = "closing" /\ closeState' = "sentCloseNotify"
           /\ closeState = "open" /\ UNCHANGED writeEpoch
           /\ out' = <<CloseTransport("graceful")>>
    BY <1>1 DEF AppCloseGraceful
  <2> HIDE DEF op
  <2>6. ~Fail
    BY DEF Fail, TerminalPhase
  <2> QED
    BY <2>3, <2>4, <2>5, <2>6 DEF CloseAsks, CloseOnly, SealsNumber
<1>2. CASE AppCloseFatal \/ AppCloseAbortive
  BY <1>2 DEF AppCloseFatal, AppCloseAbortive, TerminalPhase
<1>3. CASE AppCloseAgain(mode)
  BY <1>3 DEF AppCloseAgain, MoveTo, epochVars, CloseOnly
<1> QED
  BY <1>1, <1>2, <1>3 DEF AppClose

\* The answer to a seal is taken, or it ends the connection.
LEMMA AnswerOutcome ==
  ASSUME NEW e \in AnEvent, SealAnswer(e), Outstands(e.call), Handle(e),
         hs' \notin TerminalPhase
  PROVE  /\ e.ok /\ Live /\ UNCHANGED <<hs, closeState, writeEpoch>>
         /\ out'[1].act = "writeTransport"
         /\ IF closeState = "sentCloseNotify"
            THEN Len(out') = 2 /\ out'[2].act = "closeTransport"
            ELSE Len(out') = 1
<1>1. ~Absorb
  BY DEF Absorb, coreVars, Terminal
<1>2. ~CryptoFailed(e.call.id)
  BY DEF CryptoFailed, Fail, TerminalPhase
<1>3. ~DroppedResult(e.call.id)
  BY DEF DroppedResult, Outstands
<1>4. e.ev = "cryptoResult" /\ e.call.op.kind = "aeadSeal"
  BY DEF SealAnswer
<1>5. e.ok /\ Succeeds(e.call)
  BY <1>1, <1>2, <1>3, <1>4 DEF Handle
<1>6. AeadSealed(e.call.id)
  BY <1>4, <1>5 DEF Succeeds
<1> QED
  BY <1>5, <1>6
  DEF AeadSealed, Outstanding, MoveTo, epochVars, WriteTransport,
      CloseTransport

\* Only send and close move the number of the application write key, and only
\* close announces the end.
LEMMA OthersLeave ==
  ASSUME TypeOK, NEW e \in AnEvent, Handle(e),
         e.ev \notin {"appSend", "appClose"}
  PROVE  /\ Connected => UNCHANGED writeEpoch
         /\ closeState' = "sentCloseNotify" => UNCHANGED closeState
<1> USE DEF epochVars, flightVars
<1>0. Fail => closeState' # "sentCloseNotify"
  BY DEF Fail
<1>a. /\ Ignore => UNCHANGED closeState
      /\ \A phase, acts : MoveTo(phase, acts) => UNCHANGED closeState
      /\ \A a \in Alert :
           OnInboundAlert(a) /\ closeState' = "sentCloseNotify" =>
             UNCHANGED closeState
  BY <1>0 DEF Ignore, MoveTo, OnInboundAlert, Alert
<1>b. \A ops, op, epoch, dir, phase, writes :
        AllocOrFail(ops, op, epoch, dir, phase, writes)
        /\ closeState' = "sentCloseNotify" => UNCHANGED closeState
  BY <1>0, <1>a DEF AllocOrFail
<1>c. \A m, charged, ops :
        OnHandshakeMessage(m, charged, ops)
        /\ closeState' = "sentCloseNotify" => UNCHANGED closeState
  BY <1>0, <1>a, <1>b DEF OnHandshakeMessage, OnClientHello,
     OnClientFinishedBytes
<1>1. CASE Absorb \/ AppRecv \/ Writable \/ TransportReadable
           \/ TransportEof \/ Timeout
  BY <1>0, <1>1, <1>a DEF Absorb, coreVars, AppRecv, Writable,
     TransportReadable, TransportEof, Timeout
<1>2. CASE e.ev = "transportBytes" /\ TransportBytes(e.recs)
  <2>1. CASE AlertRecord(e.recs)
    <3> DEFINE all == inbound \o e.recs
    <3>1. /\ all # <<>> /\ Head(all).outer = "alert"
          /\ OnInboundAlert(Head(all).alert) /\ UNCHANGED writeEpoch
      BY <2>1 DEF AlertRecord, Framed
    <3>2. all \in Seq(Record)
      BY <1>2, EventFields DEF TypeOK
    <3> HIDE DEF all
    <3>3. Head(all) \in Record
      BY <3>1, <3>2
    <3>4. Head(all).alert \in Alert
      BY <3>1, <3>3, RecordFields
    <3> QED
      BY <1>a, <3>1, <3>4
  <2> QED
    BY <1>0, <1>2, <1>a, <1>b, <1>c, <2>1
    DEF TransportBytes, NeedMoreBytes, ProtectedRecord, CcsRecord,
        HandshakeRecord, InvalidRecord
<1>3. CASE CryptoFailed(e.call.id) \/ DroppedResult(e.call.id)
  BY <1>0, <1>3, <1>a DEF CryptoFailed, DroppedResult
<1>4. CASE e.ev = "cryptoResult" /\ Succeeds(e.call)
  <2>1. CASE AeadSealed(e.call.id)
    BY <2>1, <1>a DEF AeadSealed
  <2>2. CASE \E inner \in Inner : AeadOpened(e.call.id, inner)
    <3>1. PICK inner \in Inner : AeadOpened(e.call.id, inner)
      BY <2>2
    <3>2. inner.ctype = "alert" => inner.alert \in Alert
      BY InnerFields
    <3>3. CASE inner.ctype = "alert" /\ OnInboundAlert(inner.alert)
      BY <3>1, <3>2, <3>3, <1>a
      DEF AeadOpened, AeadOpenedConnected, AeadOpenedHandshake
    <3> QED
      BY <3>1, <3>3, <1>0, <1>a, <1>c
      DEF AeadOpened, AeadOpenedConnected, AeadOpenedHandshake
  <2>3. ASSUME NEW answer, GatingResult(e.call.id, answer)
        PROVE  /\ Connected => UNCHANGED writeEpoch
               /\ closeState' = "sentCloseNotify" => UNCHANGED closeState
    <3>1. Connected => UNCHANGED writeEpoch
      BY <2>3 DEF GatingResult, Connected
    <3>2. closeState' = "sentCloseNotify" => UNCHANGED closeState
      BY <2>3, <1>0, <1>a, <1>b
      DEF GatingResult, OnServerRandomDone, OnEcdheDone, OnHsScheduleResult,
          OnCertVerifySigned, OnServerFinishedMac, OnApScheduleResult,
          OnClientFinishedVerified, ScheduleError, PumpSchedule
    <3> QED
      BY <3>1, <3>2
  <2>4. e.call.op.kind = "aeadOpen" => e.call.op.body.inner \in Inner
    <3>1. e.call.op \in CryptoOp
      BY <1>4, EventFields DEF Request
    <3>2. e.call.op.kind = "aeadOpen" => e.call.op.body \in Sealed
      BY <3>1 DEF CryptoOp
    <3> QED
      BY <3>2, SealedAssumption
  <2> QED
    BY <1>4, <2>1, <2>2, <2>3, <2>4 DEF Succeeds
<1> QED
  BY <1>1, <1>2, <1>3, <1>4 DEF Handle

\* Nothing else is sealed, written or accepted.
LEMMA OtherOutcome ==
  ASSUME CoreInv, NEW e \in AnEvent, Handle(e), hs' \notin TerminalPhase,
         e.ev \notin {"appSend", "appClose"}, ~SealAnswer(e)
  PROVE  /\ \A i \in 1..Len(out') :
              /\ ~SealCall(out'[i])
              /\ out'[i].act \notin {"writeTransport", "acceptPlaintextBytes"}
         /\ UNCHANGED writeEpoch \/ (Early /\ writeEpoch'.seq = 0)
         /\ closeState' = "sentCloseNotify" => UNCHANGED closeState
<1>1. CoreStep
  BY HandleIsCoreStep
<1>2. Absorb \/ \E ops \in SUBSET pendingOps : Concludes(ops)
  BY <1>1, CoreStepConcludes DEF CoreInv
<1>3. ~Absorb
  BY DEF Absorb, coreVars, Terminal
<1>4. PICK ops \in SUBSET pendingOps : Concludes(ops)
  BY <1>2, <1>3
<1>5. outbound' = outbound
  BY OnlySealsRetain DEF SealAnswer
<1>6. /\ Connected => UNCHANGED writeEpoch
      /\ closeState' = "sentCloseNotify" => UNCHANGED closeState
  BY OthersLeave DEF CoreInv
<1>7. AdvanceSeq(writeEpoch) # writeEpoch
  BY DEF AdvanceSeq, CoreInv, TypeOK, EpochState
<1>8. \A op : ~SealsNext(op)
  BY <1>6, <1>7 DEF SealsNext
<1>9. \A i \in 1..Len(out') :
        /\ ~SealCall(out'[i])
        /\ out'[i].act \notin {"writeTransport", "acceptPlaintextBytes"}
  <2>1. CASE Stops
    BY <2>1 DEF Stops, SealCall, WriteAlert
  <2>2. CASE Keeps(ops)
    BY <1>5, <2>2 DEF Keeps, SealCall
  <2>3. CASE Asks(ops)
    <3>1. PICK op \in CryptoOp, n \in 1..Len(out') :
            /\ out'[n] = CallCrypto(nextOpId, op)
            /\ \A i \in (1..Len(out')) \ {n} :
                 \/ out'[i].act = "writeHandshake"
                 \/ op.kind = "aeadSeal"
            /\ op.kind # "aeadSeal"
      BY <1>8, <2>3 DEF Asks, FlightRecord
    <3> QED
      BY <3>1 DEF CallCrypto, SealCall
  <2> QED
    BY <1>4, <2>1, <2>2, <2>3 DEF Concludes
<1>10. UNCHANGED writeEpoch \/ (Early /\ writeEpoch'.seq = 0)
  <2>1. WriteKeyMoves
    BY <1>1, CoreStepWriteKey
  <2> QED
    BY <1>6, <2>1
    DEF WriteKeyMoves, InstallEpoch, Early, Ending, TerminalPhase
<1> QED
  BY <1>6, <1>9, <1>10

-----------------------------------------------------------------------------
(* A step of the core.                                                     *)

LEMMA QueueInfo ==
  ASSUME DriveType
  PROVE  Queue \in Seq(AnEvent) /\ \A i \in 1..Len(Queue) : Queue[i] \in AnEvent
BY DEF DriveType, Queue

LEMMA Single ==
  ASSUME NEW S, NEW q \in Seq(S), q # <<>>, Len(q) <= 1
  PROVE  /\ Len(q) = 1 /\ Head(q) = q[1] /\ Tail(q) = <<>> /\ q[1] \in S
<1>0. Len(q) \in Nat \ {0} /\ Len(q) <= 1
  BY EmptySeq
<1>1. Len(q) = 1
  BY <1>0
<1>4. 1 \in 1..Len(q)
  BY <1>1
<1>5. q[1] \in S
  BY <1>4
<1>6. Head(q) = q[1]
  BY <1>4
<1>2. Tail(q) \in Seq(S) /\ Len(Tail(q)) = 0
  BY <1>1
<1>3. Tail(q) = <<>>
  BY <1>2, EmptySeq
<1> QED
  BY <1>1, <1>3, <1>5, <1>6

LEMMA StepFacts ==
  ASSUME ConnInv, ChainShape, Step
  PROVE  /\ Len(Queue) = 1 /\ Queue[1] \in AnEvent /\ Handle(Queue[1])
         /\ Queue' = <<>>
         /\ Rest = {} /\ Rest' = 1..Len(out') /\ out' \in Seq(OutputAction)
         /\ performed' = 0 /\ fuel \in Nat \ {0} /\ fuel' = fuel - 1
         /\ answered' = IF Queue[1].ev = "cryptoResult"
                        THEN <<Queue[1].call>> ELSE answered
         /\ UNCHANGED <<call, rt, wire, closed, received, owned>>
         /\ Written' = Written
         /\ InHand <=> SealAnswer(Queue[1])
         /\ CoreStep /\ CoreInv /\ CoreInv'
<1>1. ConnType /\ DriveType /\ CoreInv
  BY DEF ConnInv, ConnType
<1>2. CoreStep /\ CoreInv'
  BY <1>1, StepCore
<1>3. /\ Performed /\ fuel > 0 /\ Queue # <<>> /\ Handle(Head(Queue))
      /\ events' = Tail(Queue) /\ followUps' = <<>>
      /\ performed' = 0 /\ fuel' = fuel - 1
      /\ answered' = IF Head(Queue).ev = "cryptoResult"
                     THEN <<Head(Queue).call>> ELSE answered
      /\ UNCHANGED <<call, rt, wire, closed, received, owned>>
  BY DEF Step, Queue, wireVars, callerVars
<1>4. Queue \in Seq(AnEvent) /\ Len(Queue) <= 1
  BY <1>1, QueueInfo DEF ChainShape
<1>5. Len(Queue) = 1 /\ Head(Queue) = Queue[1] /\ Tail(Queue) = <<>>
      /\ Queue[1] \in AnEvent
  BY <1>3, <1>4, Single
<1>6. Queue' = <<>>
  BY <1>3, <1>5 DEF Queue
<1>7. out' \in Seq(OutputAction) /\ Rest' = 1..Len(out')
  BY <1>2, <1>3 DEF CoreInv, TypeOK, Rest
<1>8. Rest = {}
  BY <1>1, <1>3 DEF CoreInv, TypeOK, Rest, Performed
<1>9. fuel \in Nat \ {0}
  BY <1>1, <1>3 DEF DriveType
<1>10. InHand <=> SealAnswer(Queue[1])
  BY <1>5, <1>8 DEF InHand, SealAsked, SealAnswered, SealToWrite
<1>11. Written' = Written
  BY <1>3 DEF Written
<1> QED
  BY <1>1, <1>2, <1>3, <1>5, <1>6, <1>7, <1>8, <1>9, <1>10, <1>11

\* What one step leaves to carry out: at most one call or read, calls for
\* operations that are outstanding, and no record once the connection ended.
LEMMA StepLeaves ==
  ASSUME ConnInv, ChainShape, Step
  PROVE  /\ \A i, j \in 1..Len(out') :
              Raises(out'[i]) /\ Raises(out'[j]) => i = j
         /\ \A i \in 1..Len(out') :
              /\ out'[i].act = "callCrypto" => Outstands(out[i])'
              /\ Installing(out'[i]) => Early'
              /\ out'[i].act = "writeTransport" => Live'
<1>1. /\ Queue[1] \in AnEvent /\ Handle(Queue[1])
      /\ CoreStep /\ CoreInv
  BY StepFacts
<1>2. Absorb \/ \E ops \in SUBSET pendingOps : Concludes(ops)
  BY <1>1, CoreStepConcludes DEF CoreInv
<1>3. CASE Absorb
  BY <1>3 DEF Absorb
<1>4. CASE outbound' # outbound
  <2>1. \E id : AeadSealed(id)
    BY <1>1, <1>4, OnlySealsRetain
  <2>2. /\ Live' /\ Len(out') \in {1, 2}
        /\ \A i \in 1..Len(out') :
             out'[i].act \in {"writeTransport", "closeTransport"}
    BY <2>1 DEF AeadSealed, Outstanding, MoveTo, Live, Terminal,
       WriteTransport, CloseTransport
  <2> QED
    BY <2>2 DEF Raises, Installing
<1>5. ASSUME outbound' = outbound, NEW ops \in SUBSET pendingOps,
             Concludes(ops)
      PROVE  /\ \A i, j \in 1..Len(out') :
                  Raises(out'[i]) /\ Raises(out'[j]) => i = j
             /\ \A i \in 1..Len(out') :
                  /\ out'[i].act = "callCrypto" => Outstands(out[i])'
                  /\ Installing(out'[i]) => Early'
                  /\ out'[i].act = "writeTransport" => Live'
  <2>1. CASE Stops
    BY <2>1 DEF Stops, Raises, Installing, WriteAlert
  <2>2. CASE Keeps(ops)
    <3>1. Len(out') <= 1 /\ out' \in Seq(OutputAction)
      BY <1>5, <2>2, StepFacts DEF Keeps
    <3>2. \A i, j \in 1..Len(out') : i = j
      BY <3>1
    <3> QED
      BY <1>5, <2>2, <3>2 DEF Keeps, Raises, Installing
  <2>3. CASE Asks(ops)
    <3>1. PICK op \in CryptoOp, n \in 1..Len(out') :
            /\ \E epoch \in Epoch, dir \in Direction :
                 Allocate(ops, op.kind, epoch, dir)
            /\ out'[n] = CallCrypto(nextOpId, op)
            /\ \A i \in (1..Len(out')) \ {n} :
                 \/ out'[i].act = "writeHandshake"
                 \/ out'[i].act = "acceptPlaintextBytes"
            /\ op.kind = "installTrafficKeys" => hs' \in Flight
      BY <2>3 DEF Asks, FlightRecord
    <3>2. \E o \in pendingOps' : o.id = nextOpId /\ o.kind = op.kind
      <4>1. PICK epoch, dir : Allocate(ops, op.kind, epoch, dir)
        BY <3>1
      <4> DEFINE o == [id |-> nextOpId, kind |-> op.kind, epoch |-> epoch,
                       dir |-> dir]
      <4>2. o \in pendingOps' /\ o.id = nextOpId /\ o.kind = op.kind
        BY <4>1 DEF Allocate
      <4> QED
        BY <4>2
    <3>3. /\ out'[n].act = "callCrypto" /\ out'[n].id = nextOpId
          /\ out'[n].op = op
      BY <3>1 DEF CallCrypto
    <3>4. \A i \in 1..Len(out') :
            /\ Raises(out'[i]) => i = n
            /\ out'[i].act = "callCrypto" => i = n
            /\ out'[i].act # "writeTransport"
      BY <3>1, <3>3 DEF Raises
    <3>5. Outstands(out[n])'
      BY <3>2, <3>3 DEF Outstands
    <3>6. Installing(out'[n]) => Early'
      BY <3>1, <3>3
      DEF Installing, Early, Flight, Ending, TerminalPhase
    <3> QED
      BY <3>4, <3>5, <3>6, Zenon DEF Installing
  <2> QED
    BY <1>5, <2>1, <2>2, <2>3 DEF Concludes
<1> QED
  BY <1>2, <1>3, <1>4, <1>5

LEMMA EarlyWas ==
  ASSUME Moves, Early'
  PROVE  Early
<1>1. hs \notin Ending
  BY EndingStays DEF Early
<1>2. hs # "connected"
  BY DEF Moves, Stays, Forward, Ends, Early, Ending, TerminalPhase,
     FlightOrder
<1> QED
  BY <1>1, <1>2 DEF Early

LEMMA StepChain ==
  ASSUME ConnInv, ChainShape, EarlyShape, Step
  PROVE  ChainShape' /\ CallsShape' /\ EarlyShape'
<1>1. Queue' = <<>> /\ Rest' = 1..Len(out') /\ CoreStep /\ CoreInv
  BY StepFacts
<1>2. ChainShape'
  BY <1>1, StepLeaves DEF ChainShape
<1>3. CallsShape'
  BY <1>1, StepLeaves DEF CallsShape
<1>4. (Early => writeEpoch.seq = 0)'
  <2>1. WriteKeyMoves /\ Moves
    BY <1>1, CoreStepWriteKey, CoreStepMoves DEF CoreInv
  <2> QED
    BY <2>1, EarlyWas
    DEF EarlyShape, WriteKeyMoves, Early, Connected, InstallEpoch
<1>5. EarlyShape'
  BY <1>1, <1>4, StepLeaves DEF EarlyShape, SealToWrite
<1> QED
  BY <1>2, <1>3, <1>5

-----------------------------------------------------------------------------
LEMMA StillWritten ==
  ASSUME Written' = Written
  PROVE  /\ Places(AppRecords)' = Places(AppRecords)
         /\ Committed' = Committed
BY DEF Places, Committed, AppRecords

\* What the parts of the invariant say of the state behind a step.
LEMMA NothingQueued ==
  ASSUME Queue' = <<>>
  PROVE  AnswerShape' /\ ~SealAnswered'
BY DEF AnswerShape, SealAnswered

SealParts == AskShape /\ AnswerShape /\ WriteShape /\ SendShape /\ Ledger

LEMMA FitsLess ==
  ASSUME RuntimeType, NEW a \in Nat, NEW b \in Nat, a <= b, Fits(b)
  PROVE  Fits(a) /\ (rt' = rt => Fits(a)')
<1>1. Len(rt.outbound) \in Nat /\ MaxCiphertext \in Nat
  BY LimitsOfCallsAssumption DEF RuntimeType, Runtime
<1> QED
  BY <1>1 DEF Fits

LEMMA StepSend ==
  ASSUME ConnInv, ChainShape, SealParts, Step, MaxSteps >= 2,
         Queue[1].ev = "appSend", hs' \notin TerminalPhase
  PROVE  SealParts'
<1> DEFINE plain == Queue[1].plain
<1>1. /\ Len(Queue) = 1 /\ Queue[1] \in AnEvent /\ Handle(Queue[1])
      /\ Queue' = <<>> /\ Rest' = 1..Len(out')
      /\ fuel' = fuel - 1
      /\ UNCHANGED <<call, rt, owned>> /\ Written' = Written
      /\ ~InHand /\ TypeOK
  BY StepFacts DEF SealAnswer, CoreInv
<1>2. fuel = MaxSteps /\ call = "send"
  BY <1>1 DEF ChainShape
<1>3. plain \in Bytes /\ AppSend(plain)
  BY <1>1, EventFields DEF Handle, Absorb, coreVars, Terminal
<1>4. /\ \A k \in 1..Len(plain) : plain[k] = owned + k
      /\ Fits(1 + Len(plain)) /\ rt.acceptedBytes = 0
  BY <1>1 DEF SealParts, SendShape
<1> HIDE DEF plain
<1>5. PICK op : SendAsks(plain, op)
  BY <1>1, <1>3, SendOutcome
<1> DEFINE n == Len(op.inner.content)
<1>6. /\ Connected /\ hs' = hs /\ n \in 0..Len(plain)
      /\ op.kind = "aeadSeal" /\ op.epoch = "application"
      /\ op.inner.ctype = "applicationData"
      /\ out' = <<CallCrypto(nextOpId, op), AcceptPlaintext(n)>>
      /\ \A k \in 1..n : op.inner.content[k] = plain[k]
  BY <1>5 DEF SendAsks, SealsNumber
<1>7. op.seq + 1 = writeEpoch'.seq /\ writeEpoch'.seq - 1 = writeEpoch.seq
  BY <1>1, <1>5 DEF SendAsks, SealsNumber, AdvanceSeq, TypeOK, EpochState
<1>8. n \in Nat /\ Fits(1 + n)' /\ Fits(0)'
  <2>1. RuntimeType /\ Len(plain) \in Nat
    BY <1>3 DEF ConnInv, ConnType, Bytes
  <2>2. /\ n \in Nat /\ 1 + n \in Nat /\ 1 + Len(plain) \in Nat /\ 0 \in Nat
        /\ 1 + n <= 1 + Len(plain) /\ 0 <= 1 + Len(plain)
    BY <1>6, <2>1
  <2> HIDE DEF n
  <2> QED
    BY <1>1, <1>4, <2>1, <2>2, FitsLess
<1>9. SealsLast(op)' /\ AskedFor(op)'
  <2>1. \A k \in 1..n : op.inner.content[k] = owned + k
    BY <1>3, <1>4, <1>6 DEF Bytes
  <2>2. SealsData(op)'
    BY <1>1, <1>2, <1>6, <1>8, <2>1 DEF SealsData, Connected
  <2>3. AskedFor(op)'
    BY <1>1, <1>2, <1>6 DEF AskedFor
  <2> QED
    BY <1>6, <1>7, <2>2, <2>3 DEF SealsLast
<1>10. /\ out'[1].act = "callCrypto" /\ out'[1].op = op
       /\ out'[2].act = "acceptPlaintextBytes" /\ Len(out') = 2
       /\ Rest' = {1, 2}
  BY <1>1, <1>6 DEF CallCrypto, AcceptPlaintext
<1>11. SealAsked' /\ InHand'
  BY <1>6, <1>10 DEF InHand, SealAsked, SealCall
<1>12. AskShape' /\ WriteShape'
  <2>1. fuel' > 0
    BY <1>1, <1>2, LimitsOfCallsAssumption
  <2> QED
    BY <1>1, <1>4, <1>9, <1>10, <2>1 DEF AskShape, WriteShape, SealCall
<1>13. SendShape'
  BY <1>1, <1>2, <1>6, <1>8, <1>10, <1>11 DEF SendShape, SealCall, Connected
<1>14. Ledger'
  <2>1. ~Early /\ ~Early' /\ Lost' = Lost
    BY <1>1, <1>6 DEF Early, Lost, AppKey, Connected
  <2>2. Ledger /\ owned \in Nat
    BY DEF SealParts, ConnInv, ConnType, RuntimeType
  <2>3. CASE ~Lost
    <3>1. Cardinality(Places(AppRecords)) = writeEpoch.seq /\ Committed = owned
      BY <1>1, <1>2, <1>4, <2>2, <2>3 DEF Ledger
    <3> QED
      BY <1>1, <1>2, <1>4, <1>7, <1>11, <2>2, <3>1, StillWritten DEF Ledger
  <2> QED
    BY <2>1, <2>3 DEF Ledger
<1> QED
  BY <1>1, <1>12, <1>13, <1>14, NothingQueued DEF SealParts

LEMMA StepClose ==
  ASSUME ConnInv, ChainShape, SealParts, Step, MaxSteps >= 2,
         Queue[1].ev = "appClose", hs' \notin TerminalPhase
  PROVE  SealParts'
<1>1. /\ Len(Queue) = 1 /\ Queue[1] \in AnEvent /\ Handle(Queue[1])
      /\ Queue' = <<>> /\ Rest' = 1..Len(out')
      /\ fuel' = fuel - 1
      /\ UNCHANGED <<call, rt, closed, owned>> /\ Written' = Written
      /\ ~InHand /\ TypeOK
  BY StepFacts DEF SealAnswer, CoreInv
<1>2. fuel = MaxSteps /\ call = "close" /\ fuel' > 0
  BY <1>1, LimitsOfCallsAssumption DEF ChainShape
<1>3. AppClose(Queue[1].mode)
  BY <1>1 DEF Handle, Absorb, coreVars, Terminal
<1>4. Ledger /\ owned \in Nat /\ Lost' = Lost
  BY <1>1 DEF SealParts, ConnInv, ConnType, RuntimeType, Lost, AppKey
<1>5. ASSUME NEW op, CloseAsks(op)
      PROVE  SealParts'
  <2>1. /\ Connected /\ hs' = "closing" /\ closeState' = "sentCloseNotify"
        /\ op.kind = "aeadSeal" /\ op.epoch = "application"
        /\ op.inner = CloseNotify /\ out' = <<CallCrypto(nextOpId, op)>>
    BY <1>5 DEF CloseAsks, SealsNumber
  <2>2. /\ op.seq + 1 = writeEpoch'.seq
        /\ writeEpoch'.seq - 1 = writeEpoch.seq
        /\ writeEpoch'.epoch = writeEpoch.epoch
    BY <1>1, <1>5 DEF CloseAsks, SealsNumber, AdvanceSeq, TypeOK, EpochState
  <2>3. writeEpoch.epoch = "application" /\ ~closed
    BY <2>1
    DEF ConnInv, ConnType, CoreInv, FlightShape, EpochShape, FlightSent,
        Connected, SecretsShape, Ending, TerminalPhase
  <2>4. SealsLast(op)' /\ AskedFor(op)'
    BY <1>1, <1>2, <2>1, <2>2, <2>3 DEF SealsLast, SealsNotify, AskedFor
  <2>5. /\ out'[1].act = "callCrypto" /\ out'[1].op = op
        /\ Len(out') = 1 /\ Rest' = {1}
    BY <1>1, <2>1 DEF CallCrypto
  <2>6. InHand'
    BY <2>1, <2>5 DEF InHand, SealAsked, SealCall
  <2>7. AskShape' /\ WriteShape' /\ SendShape'
    BY <1>1, <1>2, <2>4, <2>5 DEF AskShape, WriteShape, SendShape, SealCall
  <2>8. Ledger'
    <3>1. ~Early /\ ~Early'
      BY <2>1 DEF Early, Connected, Ending
    <3>2. CASE ~Lost
      <4>1. Cardinality(Places(AppRecords)) = writeEpoch.seq
            /\ Committed = owned
        BY <1>1, <1>2, <1>4, <3>2 DEF Ledger
      <4> QED
        BY <1>1, <1>2, <1>4, <2>2, <2>6, <4>1, StillWritten DEF Ledger
    <3> QED
      BY <1>4, <3>1, <3>2 DEF Ledger
  <2> QED
    BY <1>1, <2>7, <2>8, NothingQueued DEF SealParts
<1>6. CASE CloseOnly
  <2>1. PICK mode : out' = <<CloseTransport(mode)>>
    BY <1>6 DEF CloseOnly
  <2>2. out'[1].act = "closeTransport" /\ Len(out') = 1 /\ Rest' = {1}
    BY <1>1, <2>1 DEF CloseTransport
  <2>3. ~InHand'
    BY <1>1, <2>2 DEF InHand, SealAsked, SealCall, SealAnswered, SealToWrite
  <2>4. AskShape' /\ WriteShape' /\ SendShape'
    BY <1>1, <1>2, <2>2 DEF AskShape, WriteShape, SendShape, SealCall
  <2>5. UNCHANGED writeEpoch /\ (Early' => Early)
    BY <1>6 DEF CloseOnly, Early, Ending
  <2>6. Ledger'
    BY <1>1, <1>2, <1>4, <2>3, <2>5, StillWritten DEF Ledger
  <2> QED
    BY <1>1, <2>4, <2>6, NothingQueued DEF SealParts
<1> QED
  BY <1>1, <1>3, <1>5, <1>6, CloseOutcome

LEMMA StepAnswer ==
  ASSUME ConnInv, ChainShape, CallsShape, SealParts, Step,
         SealAnswer(Queue[1]), hs' \notin TerminalPhase
  PROVE  SealParts'
<1>0. PICK op : op = Queue[1].call.op
  OBVIOUS
<1>1. /\ Len(Queue) = 1 /\ Queue[1] \in AnEvent /\ Handle(Queue[1])
      /\ Queue' = <<>> /\ Rest' = 1..Len(out')
      /\ answered' = IF Queue[1].ev = "cryptoResult"
                     THEN <<Queue[1].call>> ELSE answered
      /\ UNCHANGED <<call, rt, closed, owned>> /\ Written' = Written
      /\ InHand
  BY StepFacts
<1>2. Queue[1].ev = "cryptoResult" /\ 1 \in 1..Len(Queue)
  BY <1>1 DEF SealAnswer
<1>3. Outstands(Queue[1].call)
  BY <1>2 DEF CallsShape
<1>4. /\ Queue[1].ok /\ Live /\ UNCHANGED <<hs, closeState, writeEpoch>>
      /\ out'[1].act = "writeTransport"
      /\ IF closeState = "sentCloseNotify"
         THEN Len(out') = 2 /\ out'[2].act = "closeTransport"
         ELSE Len(out') = 1
  BY <1>1, <1>3, AnswerOutcome
<1>5. /\ performed >= 1 /\ SealsLast(op) /\ AskedFor(op) /\ AppKey
      /\ call = "send" =>
           rt.acceptedBytes =
             IF performed = 1 THEN 0 ELSE Len(op.inner.content)
  BY <1>0, <1>2, <1>4 DEF SealParts, AnswerShape
<1>6. answered'[1].op = op
  BY <1>0, <1>1, <1>2
<1>7. call = "send" => performed = 2 /\ closeState = "open"
  <2>1. call = "send" => Len(out) = 2 /\ Connected
    BY <1>5 DEF AskedFor, SealsLast, SealsData, SealsNotify
  <2>2. performed = Len(out)
    BY DEF Step, Performed
  <2>3. Connected => closeState = "open"
    BY DEF ConnInv, ConnType, CoreInv, CloseStateAgrees, Connected
  <2> QED
    BY <2>1, <2>2, <2>3
<1>8. call = "close" => closeState = "sentCloseNotify"
  BY <1>5 DEF SealsLast, SealsData, SealsNotify
<1>9. SealsLast(op)'
  BY <1>1, <1>4, <1>5
  DEF SealsLast, SealsData, SealsNotify, Connected, Fits
<1>10. /\ Rest' \in {{1}, {1, 2}} /\ 1 \in Rest'
       /\ \A i \in Rest' :
            \/ out'[i].act = "writeTransport" /\ i = 1
            \/ /\ out'[i].act = "closeTransport" /\ i = 2
               /\ closeState = "sentCloseNotify"
  <2>1. Len(out') = 1 \/ Len(out') = 2
    BY <1>4
  <2>2. Rest' = {1} \/ Rest' = {1, 2}
    <3>1. CASE Len(out') = 1
      BY <1>1, <3>1
    <3>2. CASE Len(out') = 2
      BY <1>1, <3>2
    <3> QED
      BY <2>1, <3>1, <3>2
  <2> QED
    BY <1>1, <1>4, <2>2
<1>11. AskShape' /\ WriteShape'
  <2>1. AppKey'
    BY <1>1, <1>5 DEF AppKey
  <2> QED
    BY <1>1, <1>4, <1>5, <1>6, <1>7, <1>8, <1>9, <1>10, <2>1
    DEF AskShape, WriteShape, SealCall
<1>12. SendShape'
  <2>1. SendShape /\ rt' = rt
    BY <1>1 DEF SealParts
  <2> QED
    BY <1>1, <1>7, <1>10, <2>1 DEF SendShape, Fits
<1>13. Ledger'
  <2>1. InHand'
    BY <1>10 DEF InHand, SealToWrite
  <2>2. Early' = Early /\ Lost' = Lost /\ Ledger
    BY <1>1, <1>4 DEF SealParts, Early, Lost, AppKey
  <2> QED
    BY <1>1, <1>4, <2>1, <2>2, StillWritten DEF Ledger
<1> QED
  BY <1>1, <1>11, <1>12, <1>13, NothingQueued DEF SealParts

\* Events that are not for send and close leave records and numbers alone.
LEMMA StepOther ==
  ASSUME ConnInv, ChainShape, EarlyShape, SealParts, Step,
         ~SealAnswer(Queue[1]), Queue[1].ev \notin {"appSend", "appClose"},
         hs' \notin TerminalPhase
  PROVE  SealParts'
<1>1. /\ Len(Queue) = 1 /\ Queue[1] \in AnEvent /\ Handle(Queue[1])
      /\ Queue' = <<>> /\ Rest' = 1..Len(out')
      /\ UNCHANGED <<call, rt, owned>> /\ Written' = Written
      /\ ~InHand /\ CoreInv /\ CoreStep
  BY StepFacts
<1>2. /\ \A i \in 1..Len(out') :
           /\ ~SealCall(out'[i])
           /\ out'[i].act \notin {"writeTransport", "acceptPlaintextBytes"}
      /\ UNCHANGED writeEpoch \/ (Early /\ writeEpoch'.seq = 0)
  BY <1>1, OtherOutcome
<1>3. ~InHand'
  BY <1>1, <1>2 DEF InHand, SealAsked, SealAnswered, SealToWrite
<1>4. call # "send"
  BY <1>1 DEF SealParts, SendShape
<1>5. AskShape' /\ WriteShape' /\ SendShape'
  BY <1>1, <1>2, <1>4 DEF AskShape, WriteShape, SendShape
<1>6. Ledger'
  <2>1. Early' => Early
    BY <1>1, EarlyWas, CoreStepMoves DEF CoreInv
  <2>2. Lost' = Lost /\ Ledger
    BY <1>1 DEF SealParts, Lost, AppKey
  <2>3. writeEpoch'.seq = writeEpoch.seq
    BY <1>2 DEF EarlyShape
  <2> QED
    BY <1>1, <1>3, <1>4, <2>1, <2>2, <2>3, StillWritten DEF Ledger
<1> QED
  BY <1>1, <1>5, <1>6, NothingQueued DEF SealParts

LEMMA StepSeal ==
  ASSUME ConnInv, ChainShape, CallsShape, EarlyShape, SealShape, Step,
         MaxSteps >= 2
  PROVE  SealShape'
<1>1. SUFFICES ASSUME hs' \notin TerminalPhase
               PROVE  SealParts'
  BY DEF SealShape, SealParts, Live, Terminal
<1>2. Live
  BY <1>1, StepFacts, OnlyAbsorbs DEF Live, Absorb, coreVars, Terminal
<1>3. SealParts
  BY <1>2 DEF SealShape, SealParts
<1> QED
  BY <1>1, <1>3, StepSend, StepClose, StepAnswer, StepOther

\* A step leaves nothing to write behind an alert.
LEMMA StepAlerts ==
  ASSUME ConnInv, ChainShape, CallsShape, SealShape, AlertsEnd, Step
  PROVE  AlertsEnd'
<1>1. /\ Len(Queue) = 1 /\ Queue[1] \in AnEvent /\ Handle(Queue[1])
      /\ Rest = {} /\ Rest' = 1..Len(out')
      /\ UNCHANGED rt /\ Written' = Written
      /\ CoreStep /\ CoreInv
  BY StepFacts
<1>2. Absorb \/ \E ops \in SUBSET pendingOps : Concludes(ops)
  BY <1>1, CoreStepConcludes DEF CoreInv
<1>3. Moves /\ WriteKeyMoves
  BY <1>1, CoreStepMoves, CoreStepWriteKey DEF CoreInv
<1>4. \A i \in Rest' : out'[i].act = "writeAlert" =>
        /\ hs' \in TerminalPhase
        /\ \A j \in Rest' \ {i} : out'[j].act \in Dropping
  <2>1. CASE Absorb
    BY <1>1, <2>1 DEF Absorb
  <2>2. ASSUME NEW ops \in SUBSET pendingOps, Concludes(ops),
               NEW i \in Rest', out'[i].act = "writeAlert"
        PROVE  /\ hs' \in TerminalPhase
               /\ \A j \in Rest' \ {i} : out'[j].act \in Dropping
    <3>1. ~Keeps(ops)
      BY <1>1, <2>2 DEF Keeps
    <3>2. ~Asks(ops)
      <4>1. \A id, op : CallCrypto(id, op).act # "writeAlert"
        BY DEF CallCrypto
      <4> QED
        BY <1>1, <2>2, <4>1 DEF Asks, FlightRecord
    <3>3. Stops
      BY <2>2, <3>1, <3>2 DEF Concludes
    <3> QED
      BY <1>1, <2>2, <3>3 DEF Stops, Dropping
  <2> QED
    BY <1>2, <2>1, <2>2
<1>5. ASSUME NEW i \in Places(AlertRec)
      PROVE  /\ i = Len(Written') /\ hs' \in Ending
             /\ \A j \in Rest' :
                  /\ out'[j].act \notin {"writeTransport", "writeHandshake"}
                  /\ out'[j].act = "writeAlert" =>
                       out'[j].epoch # "initial" /\ rt'.keys = {}
             /\ hs' \notin TerminalPhase =>
                  writeEpoch'.epoch # "initial" /\ rt'.keys = {}
  <2>1. /\ i = Len(Written) /\ hs \in Ending
        /\ Live => writeEpoch.epoch # "initial" /\ rt.keys = {}
    BY <1>1 DEF AlertsEnd, Live
  <2>2. hs' \in Ending
    BY <1>3, <2>1, EndingStays
  <2>3. CASE Terminal
    <3>1. Absorb
      BY <1>1, <2>3, OnlyAbsorbs
    <3> QED
      BY <1>1, <2>1, <2>3, <3>1 DEF Absorb, coreVars, Terminal
  <2>4. CASE Live
    <3>1. /\ hs = "closing" /\ rt.keys = {} /\ UNCHANGED writeEpoch
          /\ writeEpoch.epoch # "initial"
      BY <1>3, <2>1, <2>4
      DEF WriteKeyMoves, Ending, Live, Terminal, Connected
    <3>2. ~Absorb
      BY <2>4 DEF Absorb, Live
    <3>3. PICK ops \in SUBSET pendingOps : Concludes(ops)
      BY <1>2, <3>2
    <3>4. CASE Stops
      BY <1>1, <2>1, <2>2, <3>1, <3>4 DEF Stops, WriteAlert
    <3>5. CASE Keeps(ops)
      <4>1. hs' \notin TerminalPhase
        BY <3>5 DEF Keeps
      <4>2. outbound' = outbound
        <5>1. SUFFICES ASSUME outbound' # outbound
                       PROVE  FALSE
          OBVIOUS
        <5>2. SealAnswer(Queue[1]) /\ 1 \in 1..Len(Queue)
              /\ Queue[1].ev = "cryptoResult"
          BY <1>1, <5>1, OnlySealsRetain DEF SealAnswer
        <5>3. Outstands(Queue[1].call)
          BY <5>2 DEF CallsShape
        <5>4. Queue[1].ok
          BY <1>1, <4>1, <5>2, <5>3, AnswerOutcome
        <5>5. AppKey
          BY <2>4, <5>2, <5>4 DEF SealShape, AnswerShape
        <5> QED
          BY <3>1, <5>5 DEF AppKey
      <4> QED
        BY <1>1, <2>1, <2>2, <3>1, <3>5, <4>2 DEF Keeps
    <3>6. ~Asks(ops)
      BY <2>2, <3>1 DEF Asks, Connected
    <3> QED
      BY <3>3, <3>4, <3>5, <3>6 DEF Concludes
  <2> QED
    BY <2>3, <2>4 DEF Live
<1>6. Places(AlertRec)' = Places(AlertRec)
  BY <1>1 DEF Places, AlertRec
<1> QED
  BY <1>4, <1>5, <1>6 DEF AlertsEnd, Terminal

LEMMA StepNotify ==
  ASSUME ConnInv, ChainShape, CallsShape, EarlyShape, NotifyShape, Step
  PROVE  NotifyShape'
<1>1. /\ Len(Queue) = 1 /\ Queue[1] \in AnEvent /\ Handle(Queue[1])
      /\ Rest' = 1..Len(out') /\ UNCHANGED rt /\ Written' = Written
      /\ InHand <=> SealAnswer(Queue[1])
      /\ CoreInv /\ CoreInv'
  BY StepFacts
<1>2. SUFFICES ASSUME closeState' = "sentCloseNotify", writeEpoch'.seq > 0,
                      rt.lastError = "none"
               PROVE  InHand' \/ (Written # <<>>
                                   /\ Written[Len(Written)].rec = "alert")
  BY <1>1 DEF NotifyShape
<1>3. hs' = "closing" /\ hs' \notin TerminalPhase
  BY <1>1, <1>2 DEF CoreInv, CloseStateAgrees, TerminalPhase
<1>4. ASSUME UNCHANGED <<closeState, writeEpoch>>, ~InHand
      PROVE  Written # <<>> /\ Written[Len(Written)].rec = "alert"
  BY <1>2, <1>4 DEF NotifyShape
<1>5. CASE Queue[1].ev = "appSend"
  <2>1. AppSend(Queue[1].plain) /\ Queue[1].plain \in Bytes
    BY <1>1, <1>3, <1>5, EventFields
    DEF Handle, Absorb, coreVars, Terminal
  <2>2. \E op : SendAsks(Queue[1].plain, op)
    BY <1>1, <1>3, <2>1, SendOutcome DEF CoreInv
  <2> QED
    BY <1>3, <2>2 DEF SendAsks, Connected
<1>6. CASE Queue[1].ev = "appClose"
  <2>1. AppClose(Queue[1].mode)
    BY <1>1, <1>3, <1>6 DEF Handle, Absorb, coreVars, Terminal
  <2>2. (\E op : CloseAsks(op)) \/ CloseOnly
    BY <1>1, <1>3, <2>1, CloseOutcome DEF CoreInv
  <2>3. ASSUME NEW op, CloseAsks(op)
        PROVE  InHand'
    <3>1. out'[1].act = "callCrypto" /\ out'[1].op.kind = "aeadSeal"
          /\ 1 \in Rest'
      BY <1>1, <2>3 DEF CloseAsks, SealsNumber, CallCrypto
    <3> QED
      BY <3>1 DEF InHand, SealAsked, SealCall
  <2>4. CASE CloseOnly
    <3>1. UNCHANGED writeEpoch
      BY <2>4 DEF CloseOnly
    <3>2. CASE ~Connected /\ closeState = "open"
      <4>1. Early
        BY <1>1, <3>2
        DEF CoreInv, CloseStateAgrees, Early, Ending, TerminalPhase, Connected
      <4> QED
        BY <1>2, <3>1, <4>1 DEF EarlyShape
    <3>3. CASE UNCHANGED <<hs, closeState>>
      BY <1>1, <1>4, <1>6, <3>1, <3>3 DEF SealAnswer
    <3> QED
      BY <2>4, <3>2, <3>3 DEF CloseOnly
  <2> QED
    BY <2>2, <2>3, <2>4
<1>7. CASE SealAnswer(Queue[1])
  <2>1. Outstands(Queue[1].call)
    BY <1>1, <1>7 DEF CallsShape, SealAnswer
  <2>2. out'[1].act = "writeTransport" /\ Len(out') \in {1, 2}
    BY <1>1, <1>3, <1>7, <2>1, AnswerOutcome
  <2>3. 1 \in Rest'
    BY <1>1, <2>2
  <2> QED
    BY <2>2, <2>3 DEF InHand, SealToWrite
<1>8. CASE Queue[1].ev \notin {"appSend", "appClose"} /\ ~SealAnswer(Queue[1])
  <2>1. /\ UNCHANGED writeEpoch \/ (Early /\ writeEpoch'.seq = 0)
        /\ UNCHANGED closeState
    BY <1>1, <1>2, <1>3, <1>8, OtherOutcome
  <2> QED
    BY <1>1, <1>2, <1>4, <1>8, <2>1
<1> QED
  BY <1>5, <1>6, <1>7, <1>8

-----------------------------------------------------------------------------
(* An action of the interpreter.                                           *)

LEMMA UnitsAssoc ==
  \A a, b, c \in Seq(Unit) : (a \o b) \o c = a \o (b \o c)
BY ConcatAssociative

LEMMA SplitAt ==
  ASSUME NEW q \in Seq(Unit), NEW n \in 0..Len(q)
  PROVE  SubSeq(q, 1, n) \o SubSeq(q, n + 1, Len(q)) = q
<1>1. SubSeq(q, 1, n) \o SubSeq(q, n + 1, Len(q)) = SubSeq(q, 1, Len(q))
  <2>1. /\ 1 \in 1..(Len(q) + 1) /\ n \in (1 - 1)..Len(q)
        /\ Len(q) \in n..Len(q)
    OBVIOUS
  <2> QED
    BY <2>1, ConcatAdjacentSubSeq
<1>2. SubSeq(q, 1, Len(q)) = q
  OBVIOUS
<1> QED
  BY <1>1, <1>2

\* Draining moves units from the queue to the wire and changes none.
LEMMA DrainWritten ==
  ASSUME RuntimeType, NEW units \in Seq(Unit), Drain(rt.outbound \o units)
  PROVE  /\ Written' = Written \o units
         /\ Len(rt'.outbound) <= Len(rt.outbound) + Len(units)
         /\ rt'.keys = rt.keys /\ rt'.acceptedBytes = rt.acceptedBytes
         /\ rt.terminal => rt'.terminal
         /\ rt.lastError # "none" => rt'.lastError # "none"
         /\ closed' = closed /\ rt'.plaintextOut = rt.plaintextOut
<1> DEFINE queue == rt.outbound \o units
<1>1. /\ rt \in Runtime /\ wire \in Seq(Unit) /\ rt.outbound \in Seq(Unit)
      /\ rt.lastError \in LastError /\ rt.terminal \in BOOLEAN
  BY DEF RuntimeType, Runtime
<1>2. queue \in Seq(Unit) /\ Len(queue) = Len(rt.outbound) + Len(units)
  BY <1>1
<1>3. PICK n \in 0..Len(queue), broken \in BOOLEAN :
        /\ wire' = wire \o SubSeq(queue, 1, n)
        /\ rt' = [rt EXCEPT !.outbound = SubSeq(queue, n + 1, Len(queue)),
                            !.lastError = IF broken THEN "transport" ELSE @,
                            !.terminal = @ \/ broken]
        /\ UNCHANGED closed
  BY DEF Drain
<1>4. /\ rt'.outbound = SubSeq(queue, n + 1, Len(queue))
      /\ rt'.keys = rt.keys /\ rt'.acceptedBytes = rt.acceptedBytes
      /\ rt'.plaintextOut = rt.plaintextOut
      /\ rt.terminal => rt'.terminal
      /\ rt.lastError # "none" => rt'.lastError # "none"
  BY <1>1, <1>3 DEF Runtime
<1> HIDE DEF queue
<1>5. SubSeq(queue, 1, n) \o SubSeq(queue, n + 1, Len(queue)) = queue
  BY <1>2, SplitAt
<1>6. Written' = wire \o queue
  <2> DEFINE a == SubSeq(queue, 1, n)
             b == SubSeq(queue, n + 1, Len(queue))
  <2>1. a \in Seq(Unit) /\ b \in Seq(Unit)
    BY <1>2
  <2>2. a \o b = queue /\ Written' = (wire \o a) \o b
    BY <1>3, <1>4, <1>5 DEF Written
  <2> HIDE DEF a, b
  <2> QED
    BY <1>1, <2>1, <2>2, UnitsAssoc
<1>7. Written' = Written \o units
  BY <1>1, <1>6, UnitsAssoc DEF Written, queue
<1>8. Len(rt'.outbound) <= Len(queue)
  BY <1>2, <1>4
<1> QED
  BY <1>2, <1>3, <1>4, <1>7, <1>8

Raised(e) ==
  \/ /\ Current.act = "readTransport"
     /\ e.ev \in {"transportBytes", "transportEof"}
  \/ /\ Current.act = "callCrypto"
     /\ e.ev = "cryptoResult" /\ e.call = ProviderCall

LEMMA ExecQueue ==
  ASSUME ConnInv, ChainShape, Execute
  PROVE  \/ Queue' = Queue
         \/ /\ Raises(Current) /\ Queue = <<>>
            /\ \E e : Queue' = <<e>> /\ Raised(e)
<1>1. /\ Carried /\ ConnType /\ DriveType
  BY ExecuteCarried DEF ConnInv, ConnType
<1>2. /\ performed < Len(out) /\ events' = events
      /\ performed + 1 \in Rest /\ Current = out[performed + 1]
  BY <1>1, CurrentType DEF Carried, Current
<1>3. ASSUME followUps' = followUps
      PROVE  Queue' = Queue
  BY <1>2, <1>3 DEF Queue
<1>4. ASSUME NEW e, Raise(e), Raised(e)
      PROVE  Raises(Current) /\ Queue = <<>> /\ Queue' = <<e>>
  <2>1. Raises(Current) /\ Queue = <<>>
    BY <1>2, <1>4 DEF Raised, Raises, ChainShape
  <2>2. followUps = <<>> /\ events = <<>>
    BY <1>1, <2>1, EmptySeq DEF DriveType, Queue
  <2> QED
    BY <1>2, <1>4, <2>1, <2>2 DEF Raise, Queue
<1>5. followUps' = followUps \/ \E e : Raise(e) /\ Raised(e)
  <2> USE DEF Perform, Raised
  <2>1. CASE ReadBytes
    <3>1. PICK recs \in Chunks : Raise([ev |-> "transportBytes", recs |-> recs])
      BY <2>1 DEF ReadBytes
    <3> QED
      BY <2>1, <3>1 DEF ReadBytes
  <2>2. CASE ReadEnd
    BY <2>2 DEF ReadEnd, Event
  <2>3. CASE ProviderSucceeds
    <3>1. Raise([ev |-> "cryptoResult", call |-> ProviderCall, ok |-> TRUE])
          /\ Current.act = "callCrypto"
      BY <2>3 DEF ProviderSucceeds
    <3> QED
      BY <3>1
  <2>4. CASE ProviderFails
    <3>1. Raise([ev |-> "cryptoResult", call |-> ProviderCall, ok |-> FALSE])
          /\ Current.act = "callCrypto"
      BY <2>4 DEF ProviderFails
    <3> QED
      BY <3>1
  <2>5. CASE ReadNothing \/ WriteSealed \/ WriteFlight \/ WriteAlertRecord
             \/ ProviderMisanswers \/ Plaintext \/ Report \/ CloseConnection
    BY <2>5
    DEF ReadNothing, WriteSealed, WriteFlight, WriteAlertRecord,
        ProviderMisanswers, Plaintext, Report, CloseConnection
  <2> QED
    BY <2>1, <2>2, <2>3, <2>4, <2>5 DEF Execute
<1> QED
  BY <1>3, <1>4, <1>5

LEMMA ExecBase ==
  ASSUME ConnInv, ChainShape, Execute
  PROVE  /\ Current \in OutputAction /\ Current = out[performed + 1]
         /\ performed \in Nat /\ performed < Len(out) /\ Len(out) \in Nat
         /\ performed' = performed + 1 /\ performed + 1 \in Rest
         /\ Rest' = Rest \ {performed + 1}
         /\ UNCHANGED <<hs, closeState, out, writeEpoch, pendingOps>>
         /\ UNCHANGED <<call, fuel, answered, owned>>
         /\ Current.act \in Dropping => rt'.keys = {}
         /\ ~Installing(Current) => rt'.keys \in {{}, rt.keys}
         /\ ~Performed
         /\ rt \in Runtime /\ rt' \in Runtime
         /\ Current.act # "closeTransport" => closed' = closed
<1>1. Carried /\ ConnType /\ DriveType /\ TypeOK
  BY ExecuteCarried DEF ConnInv, ConnType, CoreInv
<1>2. UNCHANGED <<hs, closeState, out, writeEpoch, pendingOps, owned>>
  BY <1>1 DEF Carried, vars, coreVars, epochVars, callerVars
<1>3. performed \in Nat /\ Len(out) \in Nat
  BY <1>1 DEF DriveType, TypeOK
<1>4. performed < Len(out) /\ performed' = performed + 1
  BY <1>1 DEF Carried
<1>5. Rest' = Rest \ {performed + 1}
  BY <1>2, <1>3, <1>4 DEF Rest
<1> QED
  BY <1>1, <1>2, <1>3, <1>4, <1>5, CurrentType
  DEF Carried, Current, Performed, ConnType, RuntimeType

Adds(units) ==
  /\ units \in Seq(Unit) /\ Written' = Written \o units
  /\ Len(rt'.outbound) <= Len(rt.outbound) + Len(units)
  /\ rt'.keys = rt.keys

\* What an action writes.
Writes ==
  \/ UNCHANGED wire /\ rt'.outbound = rt.outbound
  \/ Current.act = "writeTransport" /\ Adds(SealedUnits(answered[1].op))
  \/ /\ Current.act = "writeHandshake"
     /\ \E msg \in ServerMessage, protected \in BOOLEAN :
          Adds(FlightUnit(msg, protected))
  \/ /\ Current.act = "writeAlert"
     /\ Current.epoch = "initial" \/ <<"write", Current.epoch>> \in rt.keys
     /\ Adds(RecordUnit("fatalAlert", Current.epoch, Current.seq))

\* What it does to the runtime otherwise.
Grows ==
  /\ rt.terminal => rt'.terminal
  /\ rt.lastError # "none" => rt'.lastError # "none"
  /\ Current.act # "acceptPlaintextBytes" =>
       rt'.acceptedBytes = rt.acceptedBytes

LEMMA TerminateGrows ==
  ASSUME rt \in Runtime, NEW error \in LastError, rt' = Terminate(rt, error)
  PROVE  Grows /\ rt'.outbound = rt.outbound /\ rt'.terminal /\ rt'.keys = {}
         /\ (error # "none" => rt'.lastError # "none")
BY DEF Terminate, Grows, Runtime

LEMMA DrainAdds ==
  ASSUME RuntimeType, NEW units \in Seq(Unit), Drain(rt.outbound \o units)
  PROVE  Adds(units) /\ Grows
BY DrainWritten DEF Adds, Grows

LEMMA WriteSealedAdds ==
  ASSUME ConnType, WriteSealed
  PROVE  Adds(SealedUnits(answered[1].op)) /\ Grows
         /\ Current.act = "writeTransport" /\ answered # <<>>
         /\ answered[1].op \in CryptoOp /\ answered[1].op.kind = "aeadSeal"
<1>1. performed < Len(out) /\ Current.act = "writeTransport"
      /\ Drain(rt.outbound \o SealedUnits(answered[1].op))
  BY DEF WriteSealed, Perform
<1>2. answered # <<>> /\ answered[1].op.kind = "aeadSeal"
  BY <1>1, CurrentType DEF ConnType, WritesAnswered, Current
<1>3. answered[1] \in Request
  BY <1>2 DEF ConnType, DriveType
<1>4. answered[1].op \in CryptoOp
  BY <1>3 DEF Request
<1>5. SealedUnits(answered[1].op) \in Seq(Unit)
  BY <1>2, <1>4, SealedUnitsType
<1> QED
  BY <1>1, <1>2, <1>4, <1>5, DrainAdds DEF ConnType

LEMMA ExecWrites ==
  ASSUME ConnInv, Execute
  PROVE  Writes /\ Grows
<1> USE DEF Perform, wireVars
<1>1. ConnType /\ RuntimeType /\ rt \in Runtime
  BY DEF ConnInv, ConnType, RuntimeType
<1>2. CASE ReadBytes \/ ReadNothing \/ ReadEnd \/ ProviderFails
  BY <1>1, <1>2
  DEF ReadBytes, ReadNothing, ReadEnd, ProviderFails, Writes, Grows, Runtime
<1>3. CASE WriteSealed
  BY <1>1, <1>3, WriteSealedAdds DEF Writes
<1>4. CASE WriteFlight
  <2> DEFINE protected == Current.epoch = "handshake"
                           /\ <<"write", "handshake">> \in rt.keys
  <2>1. performed < Len(out) /\ Current.act = "writeHandshake"
    BY <1>4 DEF WriteFlight
  <2>2. protected \in BOOLEAN /\ Current.msg \in ServerMessage
    BY <1>1, <2>1, CurrentType, ActionFields
  <2>3. \/ rt' = Terminate(rt, "other") /\ UNCHANGED wireVars
        \/ Drain(rt.outbound \o FlightUnit(Current.msg, protected))
    BY <1>4 DEF WriteFlight
  <2> HIDE DEF protected
  <2>4. FlightUnit(Current.msg, protected) \in Seq(Unit)
    BY <2>2 DEF FlightUnit, Unit
  <2>5. CASE rt' = Terminate(rt, "other") /\ UNCHANGED wireVars
    BY <1>1, <2>5, TerminateGrows DEF Writes
  <2>6. CASE Drain(rt.outbound \o FlightUnit(Current.msg, protected))
    BY <1>1, <2>1, <2>2, <2>4, <2>6, DrainAdds DEF Writes
  <2> QED
    BY <2>3, <2>5, <2>6
<1>5. CASE WriteAlertRecord
  <2>1. performed < Len(out) /\ Current.act = "writeAlert"
    BY <1>5 DEF WriteAlertRecord
  <2>2. Current.epoch \in Epoch /\ Current.seq \in 0..MaxSeq
    BY <1>1, <2>1, CurrentType, ActionFields
  <2>3. RecordUnit("fatalAlert", Current.epoch, Current.seq) \in Seq(Unit)
    BY <2>2 DEF RecordUnit, Unit
  <2>4. CASE UNCHANGED <<rt, wireVars>>
    BY <2>4 DEF Writes, Grows
  <2>5. CASE /\ Current.epoch = "initial"
                \/ <<"write", Current.epoch>> \in rt.keys
             /\ Drain(rt.outbound
                        \o RecordUnit("fatalAlert", Current.epoch, Current.seq))
    BY <1>1, <2>1, <2>3, <2>5, DrainAdds DEF Writes
  <2> QED
    BY <1>5, <2>4, <2>5 DEF WriteAlertRecord
<1>6. CASE ProviderSucceeds
  <2> DEFINE keys == rt.keys \cup Installs(Current.op)
  <2>1. rt' = [rt EXCEPT !.keys = keys] /\ UNCHANGED wire
    BY <1>6 DEF ProviderSucceeds
  <2> HIDE DEF keys
  <2> QED
    BY <1>1, <2>1 DEF Writes, Grows, Runtime
<1>7. CASE ProviderMisanswers
  BY <1>1, <1>7, TerminateGrows DEF ProviderMisanswers, Writes
<1>8. CASE Plaintext
  <2>1. CASE /\ Current.act = "emitPlaintext"
             /\ rt' = [rt EXCEPT !.plaintextOut = <<Current.content>>]
    BY <1>1, <1>8, <2>1 DEF Plaintext, Writes, Grows, Runtime
  <2>2. CASE /\ Current.act = "acceptPlaintextBytes"
             /\ rt' = [rt EXCEPT !.acceptedBytes = @ + Current.count]
    <3> DEFINE sum == rt.acceptedBytes + Current.count
    <3>1. rt' = [rt EXCEPT !.acceptedBytes = sum] /\ UNCHANGED wire
      BY <1>8, <2>2 DEF Plaintext
    <3> HIDE DEF sum
    <3> QED
      BY <1>1, <2>2, <3>1 DEF Writes, Grows, Runtime
  <2> QED
    BY <1>8, <2>1, <2>2 DEF Plaintext
<1>9. CASE Report \/ CloseConnection
  <2>1. UNCHANGED wire
        /\ \/ rt' = rt
           \/ rt' = Terminate(rt, "other") \/ rt' = Terminate(rt, "none")
    BY <1>9 DEF Report, CloseConnection
  <2>2. CASE rt' = rt
    BY <2>1, <2>2 DEF Writes, Grows
  <2>3. CASE rt' = Terminate(rt, "other") \/ rt' = Terminate(rt, "none")
    BY <1>1, <2>1, <2>3, TerminateGrows DEF Writes
  <2> QED
    BY <2>1, <2>2, <2>3
<1> QED
  BY <1>2, <1>3, <1>4, <1>5, <1>6, <1>7, <1>8, <1>9 DEF Execute

\* Secrets lost after the handshake stay lost.
LEMMA LostStays ==
  ASSUME ConnInv, ChainShape, EarlyShape, Execute
  PROVE  /\ Early' = Early
         /\ ~Early => (Lost => Lost') /\ (AppKey' => AppKey)
<1>1. UNCHANGED hs /\ performed + 1 \in Rest /\ Current = out[performed + 1]
      /\ (~Installing(Current) => rt'.keys \in {{}, rt.keys})
  BY ExecBase
<1>2. rt.terminal => rt'.terminal
  BY ExecWrites DEF Grows
<1>3. ~Early => ~Installing(Current)
  BY <1>1 DEF EarlyShape
<1>4. ~Early => (AppKey' => AppKey)
  BY <1>1, <1>3 DEF AppKey
<1>5. Early' = Early
  BY <1>1 DEF Early
<1> QED
  BY <1>2, <1>4, <1>5 DEF Lost

LEMMA ExecChain ==
  ASSUME ConnInv, ChainShape, CallsShape, EarlyShape, Execute
  PROVE  ChainShape' /\ CallsShape' /\ EarlyShape'
<1>1. /\ Current = out[performed + 1] /\ performed + 1 \in Rest
      /\ Rest' = Rest \ {performed + 1}
      /\ UNCHANGED <<hs, out, writeEpoch, pendingOps>> /\ ~Performed
  BY ExecBase
<1>2. \/ Queue' = Queue
      \/ /\ Raises(Current) /\ Queue = <<>>
         /\ \E e : Queue' = <<e>> /\ Raised(e)
  BY ExecQueue
<1>3. EarlyShape'
  BY <1>1 DEF EarlyShape, Early, SealToWrite, Live, Terminal
<1>4. ASSUME Queue' = Queue
      PROVE  ChainShape' /\ CallsShape'
  <2>1. ChainShape'
    BY <1>1, <1>4 DEF ChainShape
  <2>2. \A c : Outstands(c) => \E o \in pendingOps' : o.id = c.id
                                                   /\ o.kind = c.op.kind
    BY <1>1 DEF Outstands
  <2>3. CallsShape'
    BY <1>1, <1>4, <2>2 DEF CallsShape, Outstands
  <2> QED
    BY <2>1, <2>3
<1>5. ASSUME NEW e, Raises(Current), Queue = <<>>, Queue' = <<e>>, Raised(e)
      PROVE  ChainShape' /\ CallsShape'
  <2>1. Len(Queue') = 1 /\ Queue'[1] = e
    BY <1>5
  <2>2. e.ev \notin {"appSend", "appClose"}
    BY <1>5 DEF Raised
  <2>3. \A i \in Rest' : ~Raises(out'[i])
    BY <1>1, <1>5 DEF ChainShape
  <2>4. e.ev = "cryptoResult" => Outstands(e.call)
    <3>1. e.ev = "cryptoResult" =>
            e.call = ProviderCall /\ Current.act = "callCrypto"
      BY <1>5 DEF Raised
    <3>2. Current.act = "callCrypto" => Outstands(Current)
      BY <1>1 DEF CallsShape
    <3> QED
      BY <3>1, <3>2 DEF Outstands, ProviderCall
  <2> QED
    BY <1>1, <2>1, <2>2, <2>3, <2>4 DEF ChainShape, CallsShape, Outstands
<1> QED
  BY <1>2, <1>3, <1>4, <1>5

-----------------------------------------------------------------------------
\* Units of other types leave the places of a type alone.
LEMMA PlacesKept ==
  ASSUME RuntimeType, NEW units, Adds(units), NEW recs,
         \A i \in 1..Len(units) : units[i].rec \notin recs
  PROVE  /\ Places(recs)' = Places(recs)
         /\ \A i \in Places(recs) :
              Written'[i] = Written[i] /\ Before(recs, i)' = Before(recs, i)
<1> PICK a : a = Len(Written) + 1
  OBVIOUS
<1> PICK b : b = Len(Written)
  OBVIOUS
<1>1. units \in Seq(Unit) /\ Written' = Written \o units
  BY DEF Adds
<1>2. Len(Written) \in Nat /\ Len(units) \in Nat
  BY <1>1, WrittenType
<1>3. /\ a \in Nat /\ b \in Nat /\ b < a /\ a <= b + 1
      /\ b <= Len(Written) + Len(units) /\ a..b = {}
      /\ Len(Written) < a
  BY <1>2
<1>4. Spans(units, recs, a, b)
  BY <1>1, <1>3 DEF Spans
<1>5. AddedAt(units, recs, a, b)
  BY <1>1, <1>4, PlacesAdded
<1> QED
  BY <1>3, <1>5 DEF AddedAt

LEMMA OtherWrites ==
  ASSUME ConnInv, Execute, Current.act # "writeTransport",
         NEW recs, "flight" \notin recs, "fatalAlert" \notin recs
  PROVE  /\ Places(recs)' = Places(recs)
         /\ \A i \in Places(recs) :
              Written'[i] = Written[i] /\ Before(recs, i)' = Before(recs, i)
<1>1. Writes /\ RuntimeType
  BY ExecWrites DEF ConnInv, ConnType
<1>2. CASE UNCHANGED wire /\ rt'.outbound = rt.outbound
  <2>1. Written' = Written
    BY <1>2 DEF Written
  <2> QED
    BY <2>1 DEF Places, Before
<1>3. ASSUME NEW msg, NEW protected, Adds(FlightUnit(msg, protected))
      PROVE  /\ Places(recs)' = Places(recs)
             /\ \A i \in Places(recs) :
                  Written'[i] = Written[i] /\ Before(recs, i)' = Before(recs, i)
  <2>1. \A i \in 1..Len(FlightUnit(msg, protected)) :
          FlightUnit(msg, protected)[i].rec \notin recs
    BY DEF FlightUnit
  <2> QED
    BY <1>1, <1>3, <2>1, PlacesKept
<1>4. ASSUME NEW epoch, NEW seq, Adds(RecordUnit("fatalAlert", epoch, seq))
      PROVE  /\ Places(recs)' = Places(recs)
             /\ \A i \in Places(recs) :
                  Written'[i] = Written[i] /\ Before(recs, i)' = Before(recs, i)
  <2>1. \A i \in 1..Len(RecordUnit("fatalAlert", epoch, seq)) :
          RecordUnit("fatalAlert", epoch, seq)[i].rec \notin recs
    BY DEF RecordUnit
  <2> QED
    BY <1>1, <1>4, <2>1, PlacesKept
<1> QED
  BY <1>1, <1>2, <1>3, <1>4 DEF Writes

LEMMA OthersKept ==
  ASSUME ConnInv, Execute, Current.act # "writeTransport"
  PROVE  /\ Cardinality(Places(AppRecords))' = Cardinality(Places(AppRecords))
         /\ Committed' = Committed
         /\ DataNumbered => DataNumbered'
         /\ ApplicationRecords => ApplicationRecords'
<1>1. "flight" \notin AppRecords /\ "fatalAlert" \notin AppRecords
  BY DEF AppRecords
<1>2. /\ Places(AppRecords)' = Places(AppRecords)
      /\ \A i \in Places(AppRecords) :
           /\ Written'[i] = Written[i]
           /\ Before(AppRecords, i)' = Before(AppRecords, i)
  BY <1>1, OtherWrites
<1>3. /\ Places({"data"})' = Places({"data"})
      /\ \A i \in Places({"data"}) :
           /\ Written'[i] = Written[i]
           /\ Before({"data"}, i)' = Before({"data"}, i)
  BY OtherWrites
<1>4. DataNumbered => DataNumbered'
  BY <1>3 DEF DataNumbered
<1>5. ApplicationRecords => ApplicationRecords'
  BY <1>2 DEF ApplicationRecords
<1> QED
  BY <1>2, <1>3, <1>4, <1>5 DEF Committed

\* The outcomes of a call, and none of an action that neither asks for, accepts
\* nor writes a seal.
LEMMA NeutralIdle ==
  ASSUME ConnInv, ChainShape, SealParts, Execute, ~SealCall(Current),
         Current.act \notin {"acceptPlaintextBytes", "writeTransport"}
  PROVE  ~InHand /\ ~InHand' /\ call # "send"
<1>1. /\ Current = out[performed + 1] /\ performed + 1 \in Rest
      /\ performed \in Nat /\ performed < Len(out) /\ Len(out) \in Nat
      /\ Rest' = Rest \ {performed + 1} /\ UNCHANGED out
  BY ExecBase
<1>2. \A i \in Rest : i \in Nat /\ i > performed
  BY <1>1 DEF Rest
<1>3. ~SealAsked
  BY <1>1, <1>2 DEF SealAsked, SealParts, AskShape
<1>4. ~SealToWrite
  BY <1>1, <1>2 DEF SealToWrite, SealParts, WriteShape
<1>5. ~SealAnswered
  <2>1. SUFFICES ASSUME NEW i \in 1..Len(Queue), SealAnswer(Queue[i])
                 PROVE  FALSE
    BY DEF SealAnswered
  <2>2. PICK op : op = Queue[i].call.op
    OBVIOUS
  <2>3. performed >= 1 /\ SealsLast(op) /\ AskedFor(op)
    BY <2>1, <2>2 DEF SealParts, AnswerShape
  <2>4. CASE call = "send"
    <3>1. Len(out) = 2 /\ out[2].act = "acceptPlaintextBytes"
      BY <2>3, <2>4 DEF AskedFor, AcceptPlaintext
    <3>2. performed = 1
      BY <1>1, <2>3, <3>1
    <3> QED
      BY <1>1, <3>1, <3>2
  <2>5. CASE call = "close"
    <3>1. Len(out) = 1
      BY <2>3, <2>5 DEF AskedFor
    <3> QED
      BY <1>1, <2>3, <3>1
  <2> QED
    BY <2>3, <2>4, <2>5 DEF SealsLast, SealsData, SealsNotify
<1>6. ~InHand'
  <2>1. ~SealAsked' /\ ~SealToWrite'
    BY <1>1, <1>3, <1>4 DEF SealAsked, SealToWrite
  <2>2. \/ Queue' = Queue
        \/ \E e : Queue' = <<e>> /\ Raised(e)
    BY ExecQueue
  <2>3. ASSUME NEW e, Queue' = <<e>>, Raised(e)
        PROVE  ~SealAnswered'
    <3>1. ~SealAnswer(e)
      BY <2>3 DEF SealAnswer, Raised, SealCall, ProviderCall
    <3> QED
      BY <2>3, <3>1 DEF SealAnswered
  <2>4. Queue' = Queue => ~SealAnswered'
    BY <1>5 DEF SealAnswered
  <2> QED
    BY <2>1, <2>2, <2>3, <2>4 DEF InHand
<1>7. call # "send"
  BY <1>1 DEF SealParts, SendShape
<1> QED
  BY <1>3, <1>4, <1>5, <1>6, <1>7 DEF InHand

LEMMA NeutralSeal ==
  ASSUME ConnInv, ChainShape, EarlyShape, SealParts, Execute,
         ~SealCall(Current),
         Current.act \notin {"acceptPlaintextBytes", "writeTransport"}
  PROVE  SealParts'
<1>1. ~InHand /\ ~InHand' /\ call # "send"
  BY NeutralIdle
<1>2. /\ Rest' = Rest \ {performed + 1} /\ ~Performed
      /\ UNCHANGED <<hs, out, writeEpoch, call, owned>>
  BY ExecBase
<1>3. AskShape' /\ AnswerShape' /\ WriteShape'
  BY <1>1
  DEF InHand, SealAsked, SealAnswered, SealToWrite, AskShape, AnswerShape,
      WriteShape
<1>4. SendShape'
  <2>1. \A i \in 1..Len(Queue') : Queue'[i].ev # "appSend"
    <3>1. \/ Queue' = Queue
          \/ \E e : Queue' = <<e>> /\ Raised(e)
      BY ExecQueue
    <3>2. ASSUME NEW e, Queue' = <<e>>, Raised(e)
          PROVE  \A i \in 1..Len(Queue') : Queue'[i].ev # "appSend"
      BY <3>2 DEF Raised
    <3>3. CASE Queue' = Queue
      BY <1>2, <3>3 DEF ChainShape
    <3> QED
      BY <3>1, <3>2, <3>3
  <2>2. \A i \in Rest' : out'[i].act # "acceptPlaintextBytes"
    BY <1>1, <1>2 DEF SealParts, SendShape
  <2> QED
    BY <1>1, <1>2, <2>1, <2>2 DEF SendShape
<1>5. Ledger'
  <2>1. Early' = Early /\ (~Early => (Lost => Lost'))
    BY LostStays
  <2>2. /\ Cardinality(Places(AppRecords))' = Cardinality(Places(AppRecords))
        /\ Committed' = Committed
    BY OthersKept
  <2> QED
    BY <1>1, <1>2, <2>1, <2>2 DEF SealParts, Ledger
<1> QED
  BY <1>3, <1>4, <1>5 DEF SealParts

-----------------------------------------------------------------------------
LEMMA SealCallOutcome ==
  ASSUME ConnInv, ChainShape, Execute, SealCall(Current),
         Current.op.epoch = "application"
  PROVE  /\ Queue = <<>> /\ Written' = Written
         /\ rt'.outbound = rt.outbound /\ rt'.acceptedBytes = rt.acceptedBytes
         /\ \/ Queue' = <<>> /\ Lost' /\ rt'.lastError # "none"
            \/ \E e : /\ Queue' = <<e>> /\ SealAnswer(e)
                      /\ e.call.op = Current.op /\ (e.ok => AppKey')
<1>1. /\ Current.act = "callCrypto" /\ Current.op.kind = "aeadSeal"
      /\ Raises(Current)
  BY DEF SealCall, Raises
<1>2. Current = out[performed + 1] /\ performed + 1 \in Rest
      /\ rt \in Runtime
  BY ExecBase
<1>3. Queue = <<>> /\ followUps = <<>> /\ events = <<>>
  <2>1. Queue = <<>>
    BY <1>1, <1>2 DEF ChainShape
  <2>2. followUps \in Seq(AnEvent) /\ events \in Seq(AnEvent)
    BY DEF ConnInv, ConnType, DriveType
  <2> QED
    BY <2>1, <2>2, EmptySeq DEF Queue
<1>4. /\ UNCHANGED wire /\ rt'.outbound = rt.outbound
      /\ rt'.acceptedBytes = rt.acceptedBytes
  BY <1>1, ExecWrites DEF Writes, Grows
<1>5. ProviderSucceeds \/ ProviderFails \/ ProviderMisanswers
  BY <1>1
  DEF Execute, Perform, ReadBytes, ReadNothing, ReadEnd, WriteSealed,
      WriteFlight, WriteAlertRecord, Plaintext, Report, CloseConnection
<1>6. UNCHANGED events
  BY <1>5
  DEF ProviderSucceeds, ProviderFails, ProviderMisanswers, Perform
<1>7. ASSUME NEW ok, followUps' = Append(followUps, [ev |-> "cryptoResult",
                                    call |-> ProviderCall, ok |-> ok]),
             ok => AppKey'
      PROVE  \E e : /\ Queue' = <<e>> /\ SealAnswer(e)
                    /\ e.call.op = Current.op /\ (e.ok => AppKey')
  <2> DEFINE e == [ev |-> "cryptoResult", call |-> ProviderCall, ok |-> ok]
  <2>1. Queue' = <<e>>
    BY <1>3, <1>6, <1>7 DEF Queue
  <2>2. SealAnswer(e) /\ e.call.op = Current.op /\ e.ok = ok
    BY <1>1 DEF SealAnswer, ProviderCall
  <2> HIDE DEF e
  <2> QED
    BY <1>7, <2>1, <2>2
<1>8. CASE ProviderSucceeds
  <2> DEFINE keys == rt.keys \cup Installs(Current.op)
  <2>1. rt' = [rt EXCEPT !.keys = keys] /\ Resolves(Current.op) \subseteq keys
    BY <1>8 DEF ProviderSucceeds
  <2>2. Resolves(Current.op) = {<<"write", Current.op.epoch>>}
    BY <1>1 DEF Resolves
  <2> HIDE DEF keys
  <2>3. AppKey'
    BY <1>2, <2>1, <2>2 DEF AppKey, Runtime
  <2>4. followUps' = Append(followUps, [ev |-> "cryptoResult",
                              call |-> ProviderCall, ok |-> TRUE])
    BY <1>8 DEF ProviderSucceeds, Raise
  <2> QED
    BY <1>3, <1>4, <1>7, <2>3, <2>4 DEF Written
<1>9. CASE ProviderFails
  <2>1. followUps' = Append(followUps, [ev |-> "cryptoResult",
                              call |-> ProviderCall, ok |-> FALSE])
    BY <1>9 DEF ProviderFails, Raise
  <2> QED
    BY <1>3, <1>4, <1>7, <2>1 DEF Written
<1>10. CASE ProviderMisanswers
  <2>1. /\ rt'.terminal /\ rt'.keys = {} /\ rt'.lastError # "none"
        /\ UNCHANGED followUps
    BY <1>2, <1>10, TerminateGrows DEF ProviderMisanswers
  <2> QED
    BY <1>3, <1>4, <1>6, <2>1 DEF Written, Queue, Lost, AppKey
<1> QED
  BY <1>5, <1>8, <1>9, <1>10

LEMMA FitsKept ==
  ASSUME rt'.outbound = rt.outbound
  PROVE  \A n : Fits(n) => Fits(n)'
BY DEF Fits

LEMMA CallSeal ==
  ASSUME ConnInv, ChainShape, EarlyShape, SealParts, Execute,
         SealCall(Current)
  PROVE  SealParts'
<1> PICK op : op = Current.op
  OBVIOUS
<1>1. /\ Current = out[performed + 1] /\ performed + 1 \in Rest
      /\ performed \in Nat /\ performed' = performed + 1
      /\ Rest' = Rest \ {performed + 1} /\ ~Performed
      /\ UNCHANGED <<hs, closeState, out, writeEpoch, call, fuel, owned>>
      /\ closed' = closed
  BY ExecBase DEF SealCall
<1>2. /\ performed = 0 /\ fuel > 0 /\ SealsLast(op) /\ AskedFor(op)
      /\ call = "send" => rt.acceptedBytes = 0
  BY <1>1 DEF SealParts, AskShape
<1>3. /\ Queue = <<>> /\ Written' = Written
      /\ rt'.outbound = rt.outbound /\ rt'.acceptedBytes = rt.acceptedBytes
      /\ \/ Queue' = <<>> /\ Lost'
         \/ \E e : /\ Queue' = <<e>> /\ SealAnswer(e)
                   /\ e.call.op = op /\ (e.ok => AppKey')
  BY <1>2, SealCallOutcome DEF SealsLast
<1>4. SealsLast(op)' /\ AskedFor(op)'
  BY <1>1, <1>2, <1>3, FitsKept
  DEF SealsLast, SealsData, SealsNotify, AskedFor, Connected
<1>5. ~SealAsked' /\ ~SealToWrite'
  BY <1>1, <1>2
  DEF SealAsked, SealToWrite, SealParts, AskShape, WriteShape
<1>6. AskShape' /\ WriteShape'
  BY <1>5 DEF AskShape, WriteShape, SealAsked, SealToWrite
<1>7. SealAsked /\ InHand /\ ~Early
  BY <1>1, <1>2
  DEF SealAsked, InHand, SealsLast, SealsData, SealsNotify, Early, Connected,
      Ending
<1>8. Early' = Early /\ (Lost => Lost')
  BY <1>7, LostStays
<1>9. CASE Queue' = <<>> /\ Lost'
  <2>1. AnswerShape'
    BY <1>9, NothingQueued
  <2>2. SendShape'
    BY <1>1, <1>3, <1>9, FitsKept DEF SendShape, SealParts, Connected
  <2>3. Ledger'
    BY <1>7, <1>8, <1>9 DEF Ledger
  <2> QED
    BY <1>6, <2>1, <2>2, <2>3 DEF SealParts
<1>10. ASSUME NEW e, Queue' = <<e>>, SealAnswer(e), e.call.op = op,
              e.ok => AppKey'
       PROVE  SealParts'
  <2>1. Len(Queue') = 1 /\ Queue'[1] = e
    BY <1>10
  <2>2. SealAnswered' /\ InHand'
    BY <1>10, <2>1 DEF SealAnswered, InHand
  <2>3. AnswerShape'
    BY <1>1, <1>2, <1>3, <1>4, <1>10, <2>1 DEF AnswerShape
  <2>4. e.ev # "appSend"
    BY <1>10 DEF SealAnswer
  <2>5. SendShape'
    BY <1>1, <1>3, <1>10, <2>1, <2>2, <2>4, FitsKept
    DEF SendShape, SealParts, Connected
  <2>6. Ledger'
    <3>1. Ledger
      BY DEF SealParts
    <3> QED
      BY <1>1, <1>3, <1>7, <1>8, <2>2, <3>1, StillWritten DEF Ledger
  <2> QED
    BY <1>6, <2>3, <2>5, <2>6 DEF SealParts
<1> QED
  BY <1>3, <1>9, <1>10

LEMMA AcceptSeal ==
  ASSUME ConnInv, ChainShape, EarlyShape, SealParts, Execute,
         Current.act = "acceptPlaintextBytes"
  PROVE  SealParts'
<1>1. /\ Current = out[performed + 1] /\ performed + 1 \in Rest
      /\ performed \in Nat /\ performed < Len(out) /\ Len(out) \in Nat
      /\ performed' = performed + 1
      /\ Rest' = Rest \ {performed + 1} /\ ~Performed
      /\ UNCHANGED <<hs, closeState, out, writeEpoch, call, fuel, owned>>
      /\ closed' = closed /\ rt \in Runtime
  BY ExecBase
<1>2. \A i \in Rest : i \in Nat /\ i > performed
  BY <1>1 DEF Rest
<1>3. Connected /\ call = "send" /\ (InHand \/ Lost) /\ ~Early
  BY <1>1 DEF SealParts, SendShape, Early, Connected
<1>4. /\ rt' = [rt EXCEPT !.acceptedBytes = rt.acceptedBytes + Current.count]
      /\ UNCHANGED <<followUps, events, wire>>
  BY DEF Execute, Perform, ReadBytes, ReadNothing, ReadEnd, WriteSealed,
         WriteFlight, WriteAlertRecord, Plaintext, Report, CloseConnection,
         ProviderSucceeds, ProviderFails, ProviderMisanswers, wireVars
<1>5. /\ rt'.outbound = rt.outbound /\ rt'.keys = rt.keys
      /\ rt'.terminal = rt.terminal
      /\ rt'.acceptedBytes = rt.acceptedBytes + Current.count
  <2> DEFINE sum == rt.acceptedBytes + Current.count
  <2>1. rt' = [rt EXCEPT !.acceptedBytes = sum]
    BY <1>4
  <2> HIDE DEF sum
  <2>2. rt'.acceptedBytes = sum
    BY <1>1, <2>1 DEF Runtime
  <2> QED
    BY <1>1, <2>1, <2>2 DEF Runtime, sum
<1>6. Queue' = Queue /\ Written' = Written /\ Lost' = Lost /\ AppKey' = AppKey
  BY <1>4, <1>5 DEF Queue, Written, Lost, AppKey
<1>7. ~SealAsked /\ ~SealToWrite
  <2>1. \A i \in Rest : i = 1 => out[i] = Current
    BY <1>1, <1>2
  <2> QED
    BY <2>1
    DEF SealAsked, SealToWrite, SealParts, AskShape, WriteShape, SealCall
<1>8. ~SealAsked' /\ ~SealToWrite'
  BY <1>1, <1>7 DEF SealAsked, SealToWrite
<1>9. InHand' = InHand
  BY <1>6, <1>7, <1>8 DEF InHand, SealAnswered
<1>10. AskShape' /\ WriteShape'
  BY <1>8 DEF AskShape, WriteShape, SealAsked, SealToWrite
<1>11. AnswerShape'
  <2>1. SUFFICES ASSUME NEW i \in 1..Len(Queue), SealAnswer(Queue[i]),
                        NEW op, op = Queue[i].call.op
                 PROVE  /\ SealsLast(op)' /\ AskedFor(op)'
                        /\ fuel > 0 /\ performed' = 2
                        /\ Queue[i].ok => AppKey
                        /\ rt'.acceptedBytes = Len(op.inner.content)
    BY <1>1, <1>6 DEF AnswerShape
  <2>2. /\ performed >= 1 /\ fuel > 0 /\ SealsLast(op) /\ AskedFor(op)
        /\ Queue[i].ok => AppKey
        /\ rt.acceptedBytes =
             IF performed = 1 THEN 0 ELSE Len(op.inner.content)
    BY <1>3, <2>1 DEF SealParts, AnswerShape
  <2>3. Len(out) = 2 /\ out[2] = AcceptPlaintext(Len(op.inner.content))
    BY <1>3, <2>2 DEF AskedFor
  <2>4. performed = 1
    BY <1>1, <2>2, <2>3
  <2>5. Current.count = Len(op.inner.content)
    BY <1>1, <2>3, <2>4 DEF AcceptPlaintext
  <2>6. SealsLast(op)' /\ AskedFor(op)'
    BY <1>1, <1>5, <2>2, FitsKept
    DEF SealsLast, SealsData, SealsNotify, AskedFor, Connected
  <2>7. op.inner.content \in Bytes
    <3>1. op.inner.ctype = "applicationData"
      BY <1>3, <2>2 DEF SealsLast, SealsData, SealsNotify
    <3>2. Queue[i] \in AnEvent /\ Queue[i].ev = "cryptoResult"
      BY <2>1, QueueInfo DEF ConnInv, ConnType, SealAnswer
    <3>3. op \in CryptoOp /\ op.kind = "aeadSeal"
      BY <2>1, <3>2, EventFields DEF Request, SealAnswer
    <3>4. op.inner \in Inner
      BY <3>3 DEF CryptoOp
    <3> QED
      BY <3>1, <3>4 DEF Inner
  <2>8. Len(op.inner.content) \in Nat
    BY <2>7 DEF Bytes
  <2> QED
    BY <1>1, <1>5, <2>2, <2>4, <2>5, <2>6, <2>8
<1>12. SendShape'
  <2>1. \A i \in 1..Len(Queue) : Queue[i].ev # "appSend"
    BY <1>1 DEF ChainShape
  <2> QED
    BY <1>1, <1>3, <1>5, <1>6, <1>9, <2>1, FitsKept
    DEF SendShape, SealParts, Connected
<1>13. Ledger'
  <2>1. Early' = Early
    BY <1>1 DEF Early
  <2>2. Ledger
    BY DEF SealParts
  <2> QED
    BY <1>1, <1>3, <1>6, <1>9, <2>1, <2>2, StillWritten DEF Ledger
<1> QED
  BY <1>10, <1>11, <1>12, <1>13 DEF SealParts

-----------------------------------------------------------------------------
\* The units of a sealed record: its header, and the plaintext unit by unit.
LEMMA SealedContent ==
  ASSUME NEW op \in CryptoOp, op.kind = "aeadSeal"
  PROVE  /\ op.inner.ctype = "applicationData" =>
              /\ Len(SealedUnits(op)) = 1 + Len(op.inner.content)
              /\ Len(op.inner.content) \in Nat
              /\ \A i \in 1..Len(op.inner.content) :
                   SealedUnits(op)[1 + i]
                     = [rec |-> "data", unit |-> op.inner.content[i]]
         /\ op.inner = CloseNotify => Len(SealedUnits(op)) = 1
         /\ SealedUnits(op)[1]
              = [rec |-> op.inner.ctype, epoch |-> op.epoch, seq |-> op.seq]
<1> DEFINE head == [rec |-> op.inner.ctype, epoch |-> op.epoch,
                    seq |-> op.seq]
           data == [i \in 1..Len(op.inner.content) |->
                      [rec |-> "data", unit |-> op.inner.content[i]]]
<1>1. CASE op.inner.ctype = "applicationData"
  <2>1. SealedUnits(op) = <<head>> \o data
    BY <1>1, Zenon DEF SealedUnits, RecordUnit
  <2>2. op.inner.content \in Bytes
    BY <1>1 DEF CryptoOp, Inner
  <2>3. Len(op.inner.content) \in Nat
    BY <2>2 DEF Bytes
  <2>4. /\ data \in Seq({[rec |-> "data", unit |-> op.inner.content[i]] :
                           i \in 1..Len(op.inner.content)})
        /\ Len(data) = Len(op.inner.content)
    BY <2>3
  <2>5. \A i \in 1..Len(op.inner.content) :
          data[i] = [rec |-> "data", unit |-> op.inner.content[i]]
    OBVIOUS
  <2>6. CloseNotify.ctype = "alert"
    BY DEF CloseNotify
  <2> HIDE DEF head, data
  <2>7. /\ (<<head>> \o data)[1] = head
        /\ Len(<<head>> \o data) = 1 + Len(data)
        /\ \A i \in 1..Len(data) : (<<head>> \o data)[1 + i] = data[i]
    BY <2>4
  <2> QED
    <3>1. op.inner # CloseNotify
      BY <1>1, <2>6
    <3>2. SealedUnits(op)[1] = head /\ Len(SealedUnits(op)) = 1 + Len(data)
      BY <2>1, <2>7
    <3>3. \A i \in 1..Len(op.inner.content) :
            SealedUnits(op)[1 + i]
              = [rec |-> "data", unit |-> op.inner.content[i]]
      BY <2>1, <2>4, <2>5, <2>7, Zenon
    <3> QED
      BY <2>3, <2>4, <3>1, <3>2, <3>3, Zenon DEF head
<1>2. CASE op.inner.ctype # "applicationData"
  <2>1. SealedUnits(op) = <<head>> \o <<>>
    BY <1>2, Zenon DEF SealedUnits, RecordUnit
  <2> HIDE DEF head
  <2>2. Len(SealedUnits(op)) = 1 /\ SealedUnits(op)[1] = head
    BY <2>1
  <2> QED
    BY <1>2, <2>2 DEF head
<1> QED
  BY <1>1, <1>2

\* Where the record and its plaintext come to lie.
LEMMA SealedPlaces ==
  ASSUME RuntimeType, NEW op \in CryptoOp, op.kind = "aeadSeal",
         Adds(SealedUnits(op)), NEW n \in Nat,
         \/ /\ op.inner.ctype = "applicationData"
            /\ n = Len(op.inner.content)
         \/ op.inner = CloseNotify /\ n = 0
  PROVE  /\ Cardinality(Places(AppRecords)) \in Nat
         /\ Cardinality(Places(AppRecords)')
              = Cardinality(Places(AppRecords)) + 1
         /\ \A i \in Places(AppRecords) :
              /\ Written'[i] = Written[i]
              /\ Before(AppRecords, i)' = Before(AppRecords, i)
         /\ \A i \in Places(AppRecords)' \ Places(AppRecords) :
              /\ Written'[i].seq = op.seq
              /\ Before(AppRecords, i)' = Cardinality(Places(AppRecords))
         /\ Committed \in Nat /\ Committed' = Committed + n
         /\ \A i \in Places({"data"}) :
              /\ Written'[i] = Written[i]
              /\ Before({"data"}, i)' = Before({"data"}, i)
         /\ \A i \in Places({"data"})' \ Places({"data"}) :
              \E k \in 1..n :
                /\ Written'[i].unit = op.inner.content[k]
                /\ Before({"data"}, i)' = Committed + (k - 1)
         /\ Len(SealedUnits(op)) = 1 + n
<1> PICK units : units = SealedUnits(op)
  OBVIOUS
<1> PICK L : L = Len(Written)
  OBVIOUS
<1> PICK a : a = L + 1
  OBVIOUS
<1> PICK c : c = L + 2
  OBVIOUS
<1> PICK d : d = L + 1 + n
  OBVIOUS
<1>1. units \in Seq(Unit) /\ Written' = Written \o units /\ L \in Nat
  BY WrittenType DEF Adds
<1>2. /\ Len(units) = 1 + n
      /\ units[1].rec = op.inner.ctype /\ units[1].seq = op.seq
      /\ \A i \in 1..n : /\ units[1 + i].rec = "data"
                         /\ units[1 + i].unit = op.inner.content[i]
  <2>1. units[1] = [rec |-> op.inner.ctype, epoch |-> op.epoch,
                    seq |-> op.seq]
    BY SealedContent
  <2>2. CASE op.inner.ctype = "applicationData" /\ n = Len(op.inner.content)
    <3>1. /\ Len(units) = 1 + n
          /\ \A i \in 1..n : units[1 + i] = [rec |-> "data",
                                             unit |-> op.inner.content[i]]
      BY <2>2, SealedContent
    <3>2. units[1].rec = op.inner.ctype /\ units[1].seq = op.seq
      BY <2>1
    <3>3. \A i \in 1..n : /\ units[1 + i].rec = "data"
                         /\ units[1 + i].unit = op.inner.content[i]
      <4>1. \A x : [rec |-> "data", unit |-> x].rec = "data"
                    /\ [rec |-> "data", unit |-> x].unit = x
        OBVIOUS
      <4> QED
        BY <3>1, <4>1, Zenon
    <3> QED
      BY <3>1, <3>2, <3>3
  <2>3. CASE op.inner = CloseNotify /\ n = 0
    BY <2>1, <2>3, SealedContent
  <2> QED
    BY <2>2, <2>3
<1>3. units[1].rec \in AppRecords /\ units[1].rec # "data"
  BY <1>2 DEF AppRecords, CloseNotify
<1>4. \A i \in 1..Len(units) :
        \/ i = 1
        \/ /\ i > 1 /\ i - 1 \in 1..n /\ units[i].rec = "data"
           /\ units[i].unit = op.inner.content[i - 1]
  <2>1. \A i \in 1..(1 + n) : i = 1 \/ (i > 1 /\ i - 1 \in 1..n
                                         /\ 1 + (i - 1) = i)
    OBVIOUS
  <2> QED
    BY <1>2, <2>1
<1>5. "data" \notin AppRecords
  BY DEF AppRecords
<1>6. Spans(units, AppRecords, a, a)
  <2>1. \A i \in 1..Len(units) :
          units[i].rec \in AppRecords <=> L + i \in a..a
    <3>1. \A i \in 1..Len(units) : L + i \in a..a <=> i = 1
      BY <1>1
    <3> QED
      BY <1>3, <1>4, <1>5, <3>1
  <2> QED
    BY <1>1, <1>2, <2>1 DEF Spans
<1>7. Spans(units, {"data"}, c, d)
  <2>1. \A i \in 1..Len(units) :
          units[i].rec \in {"data"} <=> L + i \in c..d
    <3>1. \A i \in 1..Len(units) : L + i \in c..d <=> i # 1
      BY <1>1, <1>2
    <3> QED
      BY <1>3, <1>4, <3>1
  <2> QED
    BY <1>1, <1>2, <2>1 DEF Spans
<1>8. AddedAt(units, AppRecords, a, a)
  BY <1>1, <1>6, PlacesAdded
<1>9. AddedAt(units, {"data"}, c, d)
  BY <1>1, <1>7, PlacesAdded
<1>10. /\ Places(AppRecords)' = Places(AppRecords) \cup (a..a)
       /\ Cardinality(Places(AppRecords)) \in Nat
       /\ Cardinality(Places(AppRecords)')
            = Cardinality(Places(AppRecords)) + 1
  <2>1. a + 1 - a = 1
    BY <1>1
  <2> QED
    BY <1>8, <2>1 DEF AddedAt
<1>11. \A i \in Places(AppRecords) :
         /\ Written'[i] = Written[i]
         /\ Before(AppRecords, i)' = Before(AppRecords, i)
  BY <1>8 DEF AddedAt
<1>12. \A i \in Places({"data"}) :
         /\ Written'[i] = Written[i]
         /\ Before({"data"}, i)' = Before({"data"}, i)
  BY <1>9 DEF AddedAt
<1>13. \A i \in c..d :
         /\ Written'[i] = units[i - L]
         /\ Before({"data"}, i)'
              = Cardinality(Places({"data"})) + (i - c)
  BY <1>9 DEF AddedAt
<1>14. \A i \in Places(AppRecords)' \ Places(AppRecords) :
         /\ Written'[i].seq = op.seq
         /\ Before(AppRecords, i)' = Cardinality(Places(AppRecords))
  <2>1. a - L = 1 /\ a - a = 0 /\ a \in a..a
    BY <1>1
  <2>2. \A i \in a..a : i = a
    BY <1>1
  <2>3. 1 \in 1..Len(units)
    BY <1>2
  <2>4. Written'[a] = units[1] /\ Before(AppRecords, a)'
                                   = Cardinality(Places(AppRecords)) + 0
    BY <1>8, <2>1 DEF AddedAt
  <2>5. units[1].seq = op.seq
    BY <1>2
  <2> QED
    BY <1>10, <2>2, <2>4, <2>5
<1>15. \A i \in Places({"data"})' \ Places({"data"}) :
         \E k \in 1..n :
           /\ Written'[i].unit = op.inner.content[k]
           /\ Before({"data"}, i)' = Committed + (k - 1)
  <2>1. ASSUME NEW i \in c..d
        PROVE  \E k \in 1..n :
                 /\ Written'[i].unit = op.inner.content[k]
                 /\ Before({"data"}, i)' = Committed + (k - 1)
    <3>1. /\ i - L \in 1..Len(units) /\ i - L > 1
          /\ i - L - 1 \in 1..n /\ i - L - 1 - 1 = i - c
      BY <1>1, <1>2
    <3>2. Written'[i].unit = op.inner.content[i - L - 1]
      BY SMTT(30), <1>4, <1>13, <3>1
    <3>3. Before({"data"}, i)' = Committed + (i - L - 1 - 1)
      BY <1>13, <3>1 DEF Committed
    <3> QED
      BY <3>1, <3>2, <3>3
  <2>2. Places({"data"})' = Places({"data"}) \cup (c..d)
    BY <1>9 DEF AddedAt
  <2> QED
    BY <2>1, <2>2
<1>16. Committed \in Nat /\ Committed' = Committed + n
  <2>1. d + 1 - c = n
    BY <1>1
  <2> QED
    BY <1>9, <2>1 DEF Committed, AddedAt
<1> QED
  BY <1>2, <1>10, <1>11, <1>12, <1>14, <1>15, <1>16

LEMMA WriteSeal ==
  ASSUME ConnInv, ChainShape, EarlyShape, SealParts, Execute,
         Current.act = "writeTransport"
  PROVE  /\ SealParts'
         /\ DataNumbered => DataNumbered'
         /\ ApplicationRecords => ApplicationRecords'
<1> PICK op : op = answered[1].op
  OBVIOUS
<1>1. /\ Current = out[performed + 1] /\ performed + 1 \in Rest
      /\ performed \in Nat /\ performed < Len(out) /\ Len(out) \in Nat
      /\ performed' = performed + 1
      /\ Rest' = Rest \ {performed + 1} /\ ~Performed
      /\ UNCHANGED <<hs, closeState, out, writeEpoch, call, fuel, owned>>
      /\ closed' = closed /\ rt \in Runtime
  BY ExecBase
<1>2. WriteSealed
  BY DEF Execute, Perform, ReadBytes, ReadNothing, ReadEnd,
         WriteFlight, WriteAlertRecord, Plaintext, Report, CloseConnection,
         ProviderSucceeds, ProviderFails, ProviderMisanswers
<1>3. ConnType /\ RuntimeType
  BY DEF ConnInv, ConnType
<1>4. /\ Adds(SealedUnits(op)) /\ Grows /\ op \in CryptoOp
      /\ op.kind = "aeadSeal"
  BY <1>2, <1>3, WriteSealedAdds
<1>5. /\ performed = 0 /\ Queue = <<>> /\ AppKey /\ SealsLast(op)
      /\ call = "send" => /\ Len(out) = 1
                          /\ rt.acceptedBytes = Len(op.inner.content)
      /\ call = "close" => Len(out) = 2 /\ out[2].act = "closeTransport"
  BY <1>1 DEF SealParts, WriteShape
<1>6. PICK n : /\ n \in Nat
               /\ \/ /\ op.inner.ctype = "applicationData" /\ call = "send"
                     /\ n = Len(op.inner.content) /\ SealsData(op)
                  \/ op.inner = CloseNotify /\ n = 0 /\ call = "close"
  <2>1. CASE SealsData(op)
    <3>1. /\ Len(op.inner.content) \in Nat /\ call = "send"
          /\ op.inner.ctype = "applicationData"
      BY <1>4, <2>1, SealedContent DEF SealsData
    <3> QED
      BY <2>1, <3>1
  <2>2. CASE SealsNotify(op)
    BY <2>2 DEF SealsNotify
  <2> QED
    BY <1>5, <2>1, <2>2 DEF SealsLast
<1>7. /\ Cardinality(Places(AppRecords)) \in Nat
      /\ Cardinality(Places(AppRecords)')
           = Cardinality(Places(AppRecords)) + 1
      /\ Committed \in Nat /\ Committed' = Committed + n
      /\ Len(SealedUnits(op)) = 1 + n
  BY <1>3, <1>4, <1>6, SealedPlaces
<1>8. InHand /\ ~Lost /\ ~Early /\ AppKey'
  <2>1. InHand
    BY <1>1 DEF InHand, SealToWrite
  <2>2. ~Lost
    BY <1>5 DEF Lost
  <2>3. ~Early
    BY <1>5
    DEF SealsLast, SealsData, SealsNotify, Early, Connected, Ending
  <2>4. AppKey'
    BY <1>4, <1>5 DEF Adds, AppKey
  <2> QED
    BY <2>1, <2>2, <2>3, <2>4
<1>9. /\ Cardinality(Places(AppRecords)) = writeEpoch.seq - 1
      /\ Committed = owned /\ op.seq = Cardinality(Places(AppRecords))
  <2>1. Ledger /\ owned \in Nat
    BY <1>3 DEF SealParts, RuntimeType
  <2>2. op.seq + 1 = writeEpoch.seq /\ op.seq \in Nat
    BY <1>4, <1>5 DEF SealsLast, CryptoOp
  <2> QED
    BY <1>8, <2>1, <2>2 DEF Ledger
<1>10. Queue' = <<>>
  <2>1. ~Raises(Current)
    BY DEF Raises
  <2> QED
    BY <1>5, <2>1, ExecQueue
<1>11. ~SealAsked' /\ ~SealToWrite' /\ ~SealAnswered' /\ ~InHand'
  <2>1. ~SealAsked' /\ ~SealToWrite'
    BY <1>1, <1>5
    DEF SealAsked, SealToWrite, SealParts, AskShape, WriteShape
  <2> QED
    BY <1>10, <2>1, NothingQueued DEF InHand
<1>12. AskShape' /\ WriteShape' /\ AnswerShape'
  BY <1>10, <1>11, NothingQueued
  DEF AskShape, WriteShape, SealAsked, SealToWrite
<1>13. SendShape'
  <2>1. CASE call = "send"
    <3>1. Rest' = {}
      <4>1. performed' = 1 /\ Len(out') = 1
        BY <1>1, <1>5, <2>1
      <4> QED
        BY <4>1 DEF Rest
    <3>2. Fits(0)'
      <4>1. /\ Len(rt'.outbound) <= Len(rt.outbound) + (1 + n)
            /\ Len(rt.outbound) + (1 + n) <= MaxCiphertext
        BY <1>4, <1>6, <1>7, <2>1 DEF Adds, SealsData, Fits
      <4>2. Len(rt.outbound) \in Nat /\ Len(rt'.outbound) \in Nat
        BY ExecBase DEF Runtime
      <4> QED
        <5>1. Len(rt'.outbound) + 0 <= MaxCiphertext
          <6>1. \A x, y \in Nat :
                  x <= y + (1 + n) /\ y + (1 + n) <= MaxCiphertext =>
                    x + 0 <= MaxCiphertext
            BY <1>6, LimitsOfCallsAssumption
          <6> QED
            BY <4>1, <4>2, <6>1
        <5> QED
          BY <5>1 DEF Fits
    <3> QED
      BY <1>10, <3>1, <3>2 DEF SendShape
  <2>2. CASE call # "send"
    <3>1. call = "close" /\ Len(out) = 2 /\ out[2].act = "closeTransport"
      BY <1>5, <1>6, <2>2
    <3>2. \A i \in Rest' : i = 2
      BY <1>1, <1>5, <3>1 DEF Rest
    <3> QED
      BY <1>1, <1>10, <2>2, <3>1, <3>2 DEF SendShape
  <2> QED
    BY <2>1, <2>2
<1>14. Ledger'
  <2>1. (call = "send" => n = rt'.acceptedBytes) /\ (call # "send" => n = 0)
    BY <1>4, <1>5, <1>6 DEF Grows
  <2>2. writeEpoch.seq \in Nat
    BY DEF ConnInv, ConnType, CoreInv, TypeOK, EpochState
  <2> QED
    BY <1>1, <1>7, <1>9, <1>11, <2>1, <2>2 DEF Ledger
<1>15. ASSUME DataNumbered
       PROVE  DataNumbered'
  <2>1. \A i \in Places({"data"}) :
          /\ Written'[i] = Written[i]
          /\ Before({"data"}, i)' = Before({"data"}, i)
    BY <1>3, <1>4, <1>6, SealedPlaces
  <2>2. \A i \in Places({"data"})' \ Places({"data"}) :
          \E k \in 1..n :
            /\ Written'[i].unit = op.inner.content[k]
            /\ Before({"data"}, i)' = Committed + (k - 1)
    BY <1>3, <1>4, <1>6, SealedPlaces
  <2>3. \A k \in 1..n : op.inner.content[k] = owned + k
    BY <1>6 DEF SealsData
  <2>4. \A i \in Places({"data"})' \ Places({"data"}) :
          Written'[i].unit = Before({"data"}, i)' + 1
    <3>1. owned \in Nat
      BY <1>3 DEF RuntimeType
    <3> QED
      BY <1>6, <1>9, <2>2, <2>3, <3>1
  <2>5. \A i \in Places({"data"}) :
          Written'[i].unit = Before({"data"}, i)' + 1
    BY <1>15, <2>1 DEF DataNumbered
  <2> QED
    BY <2>4, <2>5 DEF DataNumbered
<1>16. ASSUME ApplicationRecords
       PROVE  ApplicationRecords'
  <2>1. \A i \in Places(AppRecords) :
          /\ Written'[i] = Written[i]
          /\ Before(AppRecords, i)' = Before(AppRecords, i)
    BY <1>3, <1>4, <1>6, SealedPlaces
  <2>2. \A i \in Places(AppRecords)' \ Places(AppRecords) :
          /\ Written'[i].seq = op.seq
          /\ Before(AppRecords, i)' = Cardinality(Places(AppRecords))
    BY <1>3, <1>4, <1>6, SealedPlaces
  <2>3. \A i \in Places(AppRecords) :
          Written'[i].seq = Before(AppRecords, i)'
    BY <1>16, <2>1 DEF ApplicationRecords
  <2> QED
    BY <1>9, <2>2, <2>3 DEF ApplicationRecords
<1> QED
  BY <1>12, <1>13, <1>14, <1>15, <1>16 DEF SealParts

LEMMA ExecSeal ==
  ASSUME ConnInv, ChainShape, EarlyShape, SealShape, Execute
  PROVE  /\ SealShape'
         /\ DataNumbered => DataNumbered'
         /\ ApplicationRecords => ApplicationRecords'
<1>1. SealShape <=> (Live => SealParts)
  BY DEF SealShape, SealParts
<1>2. SealShape' <=> (Live' => SealParts')
  BY DEF SealShape, SealParts
<1>3. Live' = Live
  BY ExecBase DEF Live, Terminal
<1>4. Current.act = "writeTransport" => Live
  BY ExecBase DEF EarlyShape, SealToWrite
<1>5. Live => SealParts'
  BY <1>1, NeutralSeal, CallSeal, AcceptSeal, WriteSeal
<1>6. /\ DataNumbered => DataNumbered'
      /\ ApplicationRecords => ApplicationRecords'
  <2>1. CASE Current.act = "writeTransport"
    BY <1>1, <1>4, <2>1, WriteSeal
  <2>2. CASE Current.act # "writeTransport"
    BY <2>2, OthersKept
  <2> QED
    BY <2>1, <2>2
<1> QED
  BY <1>2, <1>3, <1>5, <1>6

-----------------------------------------------------------------------------
\* The first records of their types are among the units just added.
LEMMA FirstPlaces ==
  ASSUME RuntimeType, NEW units, Adds(units), NEW recs, Places(recs) = {}
  PROVE  /\ Len(Written') = Len(Written) + Len(units)
         /\ \A i \in Places(recs)' :
              /\ i \in Nat /\ i - Len(Written) \in 1..Len(units)
              /\ units[i - Len(Written)].rec \in recs
<1>1. /\ units \in Seq(Unit) /\ Written' = Written \o units
      /\ Written \in Seq(Unit) /\ Len(Written) \in Nat
  BY WrittenType DEF Adds
<1>2. /\ Len(Written') = Len(Written) + Len(units)
      /\ \A i \in 1..Len(Written) : Written'[i] = Written[i]
      /\ \A i \in (Len(Written) + 1)..(Len(Written) + Len(units)) :
           Written'[i] = units[i - Len(Written)]
  BY <1>1
<1>3. ASSUME NEW i \in Places(recs)'
      PROVE  /\ i \in Nat /\ i - Len(Written) \in 1..Len(units)
             /\ units[i - Len(Written)].rec \in recs
  <2>1. i \in 1..Len(Written') /\ Written'[i].rec \in recs
    BY <1>3 DEF Places
  <2>2. i \notin 1..Len(Written)
    BY <1>2, <2>1 DEF Places
  <2> QED
    BY <1>1, <1>2, <2>1, <2>2
<1> QED
  BY <1>2, <1>3

LEMMA SealedTypes ==
  ASSUME NEW op \in CryptoOp, op.kind = "aeadSeal"
  PROVE  /\ op.inner = CloseNotify =>
              /\ Len(SealedUnits(op)) = 1
              /\ SealedUnits(op)[1].rec = "alert"
         /\ op.inner.ctype = "applicationData" =>
              \A k \in 1..Len(SealedUnits(op)) :
                SealedUnits(op)[k].rec \in {"applicationData", "data"}
<1>1. SealedUnits(op)[1].rec = op.inner.ctype
  <2>1. SealedUnits(op)[1]
          = [rec |-> op.inner.ctype, epoch |-> op.epoch, seq |-> op.seq]
    BY SealedContent
  <2> QED
    BY <2>1
<1>2. ASSUME op.inner = CloseNotify
      PROVE  Len(SealedUnits(op)) = 1 /\ SealedUnits(op)[1].rec = "alert"
  <2>1. Len(SealedUnits(op)) = 1
    BY <1>2, SealedContent
  <2>2. op.inner.ctype = "alert"
    BY <1>2 DEF CloseNotify
  <2> QED
    BY <1>1, <2>1, <2>2
<1>3. ASSUME op.inner.ctype = "applicationData"
      PROVE  \A k \in 1..Len(SealedUnits(op)) :
               SealedUnits(op)[k].rec \in {"applicationData", "data"}
  <2> PICK n : n = Len(op.inner.content)
    OBVIOUS
  <2>1. n \in Nat /\ Len(SealedUnits(op)) = 1 + n
    BY <1>3, SealedContent
  <2>2. \A k \in 1..n : SealedUnits(op)[1 + k]
                         = [rec |-> "data", unit |-> op.inner.content[k]]
    BY <1>3, SealedContent
  <2>3. \A k \in 1..n : SealedUnits(op)[1 + k].rec = "data"
    <3>1. \A x : [rec |-> "data", unit |-> x].rec = "data"
      OBVIOUS
    <3> QED
      BY <2>2, <3>1, Zenon
  <2>4. \A k \in 1..(1 + n) : k = 1 \/ (k - 1 \in 1..n /\ 1 + (k - 1) = k)
    BY <2>1
  <2>5. \A k \in 1..(1 + n) :
          SealedUnits(op)[k].rec \in {"applicationData", "data"}
    <3>1. \A k : k - 1 \in 1..n /\ 1 + (k - 1) = k =>
                 SealedUnits(op)[k].rec = "data"
      BY <2>3, Zenon
    <3> QED
      BY <1>1, <1>3, <2>4, <3>1, Zenon
  <2> QED
    BY <2>1, <2>5
<1> QED
  BY <1>2, <1>3

LEMMA ExecAlerts ==
  ASSUME ConnInv, ChainShape, EarlyShape, SealShape, AlertsEnd, Execute
  PROVE  AlertsEnd'
<1>1. /\ Current = out[performed + 1] /\ performed + 1 \in Rest
      /\ performed \in Nat /\ performed < Len(out) /\ Len(out) \in Nat
      /\ performed' = performed + 1
      /\ Rest' = Rest \ {performed + 1}
      /\ UNCHANGED <<hs, out, writeEpoch>>
      /\ Current.act \in Dropping => rt'.keys = {}
      /\ ~Installing(Current) => rt'.keys \in {{}, rt.keys}
  BY ExecBase
<1>2. Writes /\ RuntimeType /\ SecretsShape
  BY ExecWrites DEF ConnInv, ConnType
<1>3. Terminal' = Terminal /\ (Terminal => hs \in Ending)
  BY <1>1 DEF Terminal, Ending
<1>4. \A i \in Rest' : out'[i].act = "writeAlert" =>
        hs' \in TerminalPhase /\ \A j \in Rest' \ {i} : out'[j].act \in Dropping
  BY <1>1 DEF AlertsEnd, Terminal
<1> DEFINE After(i) ==
      /\ i = Len(Written') /\ hs \in Ending
      /\ \A j \in Rest' :
           /\ out[j].act \notin {"writeTransport", "writeHandshake"}
           /\ out[j].act = "writeAlert" =>
                out[j].epoch # "initial" /\ rt'.keys = {}
      /\ Terminal \/ /\ writeEpoch.epoch # "initial"
                     /\ \/ rt'.keys = {}
                        \/ /\ Rest' # {}
                           /\ \A j \in Rest' : out[j].act = "closeTransport"
<1>5. SUFFICES ASSUME NEW i \in Places(AlertRec)'
               PROVE  After(i)
  BY <1>1, <1>4 DEF AlertsEnd, Terminal
<1>6. CASE UNCHANGED wire /\ rt'.outbound = rt.outbound
  <2>1. Written' = Written /\ i \in Places(AlertRec)
    BY <1>5, <1>6 DEF Written, Places
  <2>2. /\ i = Len(Written) /\ hs \in Ending
        /\ \A j \in Rest :
             /\ out[j].act \notin {"writeTransport", "writeHandshake"}
             /\ out[j].act = "writeAlert" =>
                  out[j].epoch # "initial" /\ rt.keys = {}
        /\ Terminal \/ /\ writeEpoch.epoch # "initial"
                       /\ \/ rt.keys = {}
                          \/ /\ Rest # {}
                             /\ \A j \in Rest : out[j].act = "closeTransport"
    BY <2>1 DEF AlertsEnd
  <2>3. rt.keys = {} => rt'.keys = {}
    BY <1>1, <1>2, <2>2 DEF SecretsShape
  <2>4. (\A j \in Rest : out[j].act = "closeTransport") => rt'.keys = {}
    BY <1>1 DEF Dropping
  <2> QED
    BY <1>1, <2>1, <2>2, <2>3, <2>4
<1>8. ASSUME Current.act = "writeTransport", Adds(SealedUnits(answered[1].op))
      PROVE  After(i)
  <2> PICK op : op = answered[1].op
    OBVIOUS
  <2>1. Places(AlertRec) = {}
    BY <1>1, <1>8 DEF AlertsEnd
  <2>2. Live
    BY <1>1, <1>8 DEF EarlyShape, SealToWrite
  <2>3. /\ performed = 0 /\ SealsLast(op)
        /\ call = "close" => Len(out) = 2 /\ out[2].act = "closeTransport"
    BY <1>1, <1>8, <2>2 DEF SealShape, WriteShape
  <2>4. op \in CryptoOp /\ op.kind = "aeadSeal"
    <3>1. WriteSealed
      BY <1>8 DEF Execute, Perform, ReadBytes, ReadNothing, ReadEnd,
         WriteFlight, WriteAlertRecord, Plaintext, Report, CloseConnection,
         ProviderSucceeds, ProviderFails, ProviderMisanswers
    <3> QED
      BY <3>1, WriteSealedAdds DEF ConnInv
  <2>5. /\ Len(Written') = Len(Written) + Len(SealedUnits(op))
        /\ i - Len(Written) \in 1..Len(SealedUnits(op))
        /\ SealedUnits(op)[i - Len(Written)].rec \in AlertRec
        /\ i \in Nat /\ Len(Written) \in Nat
    BY <1>2, <1>5, <1>8, <2>1, FirstPlaces, WrittenType
  <2>6. CASE SealsData(op)
    BY <2>4, <2>5, <2>6, SealedTypes DEF SealsData, AlertRec
  <2>7. CASE SealsNotify(op)
    <3>1. Len(SealedUnits(op)) = 1
      BY <2>4, <2>7, SealedTypes DEF SealsNotify
    <3>2. i = Len(Written')
      BY <2>5, <3>1
    <3>3. /\ call = "close" /\ hs = "closing"
          /\ writeEpoch.epoch = "application"
      BY <2>7 DEF SealsNotify
    <3>4. Rest' = {2} /\ out[2].act = "closeTransport"
      <4>1. performed = 0 /\ Len(out) = 2 /\ performed + 1 = 1
        BY <2>3, <3>3
      <4>2. Rest = 1..2
        BY <4>1 DEF Rest
      <4>3. (1..2) \ {1} = {2}
        OBVIOUS
      <4> QED
        BY <1>1, <2>3, <3>3, <4>1, <4>2, <4>3
    <3> QED
      BY <3>2, <3>3, <3>4 DEF Ending
  <2> QED
    BY <2>3, <2>6, <2>7 DEF SealsLast
<1>9. ASSUME Current.act = "writeHandshake", NEW msg, NEW protected,
             Adds(FlightUnit(msg, protected))
      PROVE  After(i)
  <2>1. Places(AlertRec) = {}
    BY <1>1, <1>9 DEF AlertsEnd
  <2>2. /\ i - Len(Written) \in 1..Len(FlightUnit(msg, protected))
        /\ FlightUnit(msg, protected)[i - Len(Written)].rec \in AlertRec
    BY <1>2, <1>5, <1>9, <2>1, FirstPlaces
  <2> QED
    BY <2>2 DEF FlightUnit, AlertRec
<1>10. ASSUME Current.act = "writeAlert",
              \/ Current.epoch = "initial"
              \/ <<"write", Current.epoch>> \in rt.keys,
              Adds(RecordUnit("fatalAlert", Current.epoch, Current.seq))
       PROVE  After(i)
  <2>1. Places(AlertRec) = {}
    BY <1>1, <1>10 DEF AlertsEnd
  <2>2. /\ Len(Written') = Len(Written) + 1
        /\ i - Len(Written) \in 1..1 /\ i \in Nat /\ Len(Written) \in Nat
    <3>1. Len(RecordUnit("fatalAlert", Current.epoch, Current.seq)) = 1
      BY DEF RecordUnit
    <3> QED
      BY <1>2, <1>5, <1>10, <2>1, <3>1, FirstPlaces, WrittenType
  <2>3. Terminal /\ \A j \in Rest' : out[j].act \in Dropping
    BY <1>1, <1>10 DEF AlertsEnd
  <2>4. i = Len(Written')
    BY <2>2
  <2>5. \A j \in Rest' : out[j].act \notin {"writeTransport",
                              "writeHandshake", "writeAlert"}
    BY <2>3 DEF Dropping
  <2> QED
    BY <1>3, <2>3, <2>4, <2>5
<1> QED
  BY <1>2, <1>6, <1>8, <1>9, <1>10 DEF Writes

LEMMA ExecNotify ==
  ASSUME ConnInv, ChainShape, EarlyShape, SealShape, AlertsEnd, NotifyShape,
         Execute
  PROVE  NotifyShape'
<1>1. /\ Current = out[performed + 1] /\ performed + 1 \in Rest
      /\ UNCHANGED <<hs, closeState, writeEpoch>>
  BY ExecBase
<1>2. Writes /\ Grows /\ RuntimeType /\ CoreInv
  BY ExecWrites DEF ConnInv, ConnType
<1>3. SUFFICES ASSUME closeState = "sentCloseNotify", writeEpoch.seq > 0,
                      rt'.lastError = "none"
               PROVE  InHand' \/ (Written' # <<>>
                                   /\ Written'[Len(Written')].rec = "alert")
  BY <1>1 DEF NotifyShape
<1>4. hs = "closing" /\ Live /\ ~Connected
  BY <1>2, <1>3
  DEF CoreInv, CloseStateAgrees, Live, Terminal, TerminalPhase, Connected
<1>5. CASE Written # <<>> /\ Written[Len(Written)].rec = "alert"
  <2>1. Len(Written) \in Places(AlertRec)
    <3>1. Len(Written) \in Nat \ {0}
      BY <1>2, <1>5, WrittenType, EmptySeq
    <3> QED
      BY <1>5, <3>1 DEF Places, AlertRec
  <2>2. /\ Current.act \notin {"writeTransport", "writeHandshake"}
        /\ Current.act = "writeAlert" =>
             Current.epoch # "initial" /\ rt.keys = {}
    BY <1>1, <2>1 DEF AlertsEnd
  <2>3. Written' = Written
    BY <1>2, <2>2 DEF Writes, Written
  <2> QED
    BY <1>5, <2>3
<1>6. CASE InHand
  <2>1. SealParts
    BY <1>4 DEF SealShape, SealParts
  <2>2. CASE SealCall(Current)
    <3>1. SealsLast(Current.op)
      BY <1>1, <2>1, <2>2 DEF SealParts, AskShape
    <3>2. \E e : Queue' = <<e>> /\ SealAnswer(e)
      BY <1>3, <2>2, <3>1, SealCallOutcome DEF SealsLast
    <3>3. SealAnswered'
      BY <3>2 DEF SealAnswered
    <3> QED
      BY <3>3 DEF InHand
  <2>3. CASE Current.act = "acceptPlaintextBytes"
    BY <1>1, <1>4, <2>1, <2>3 DEF SealParts, SendShape
  <2>4. CASE Current.act = "writeTransport"
    <3> PICK op : op = answered[1].op
      OBVIOUS
    <3>1. SealsNotify(op)
      BY <1>1, <1>4, <2>1, <2>4
      DEF SealParts, WriteShape, SealsLast, SealsData
    <3>2. /\ Adds(SealedUnits(op)) /\ op \in CryptoOp
          /\ op.kind = "aeadSeal"
      <4>1. WriteSealed
        BY <2>4 DEF Execute, Perform, ReadBytes, ReadNothing, ReadEnd,
           WriteFlight, WriteAlertRecord, Plaintext, Report, CloseConnection,
           ProviderSucceeds, ProviderFails, ProviderMisanswers
      <4> QED
        BY <4>1, WriteSealedAdds DEF ConnInv
    <3>3. Len(SealedUnits(op)) = 1 /\ SealedUnits(op)[1].rec = "alert"
      BY <3>1, <3>2, SealedTypes DEF SealsNotify
    <3>4. /\ SealedUnits(op) \in Seq(Unit) /\ Written \in Seq(Unit)
          /\ Written' = Written \o SealedUnits(op)
      BY <1>2, <3>2, WrittenType DEF Adds
    <3>5. Len(Written') = Len(Written) + 1
          /\ Written'[Len(Written) + 1] = SealedUnits(op)[1]
      BY <3>3, <3>4
    <3>6. Written' # <<>>
      BY <3>4, <3>5
    <3> QED
      BY <3>3, <3>5, <3>6
  <2>5. CASE ~SealCall(Current) /\ Current.act \notin
               {"acceptPlaintextBytes", "writeTransport"}
    BY <1>6, <2>1, <2>5, NeutralIdle
  <2> QED
    BY <2>2, <2>3, <2>4, <2>5
<1>7. rt.lastError = "none"
  BY <1>2, <1>3 DEF Grows
<1> QED
  BY <1>3, <1>5, <1>6, <1>7 DEF NotifyShape

-----------------------------------------------------------------------------
\* No call changes what is written: flush only moves it to the wire.
LEMMA CallsKeep ==
  ASSUME ConnInv, Calls
  PROVE  /\ Written' = Written /\ Rest = {} /\ Rest' = {}
         /\ Performed /\ Performed'
         /\ UNCHANGED <<hs, closeState, out, writeEpoch, pendingOps, closed>>
         /\ rt'.keys = rt.keys
         /\ rt.lastError # "none" => rt'.lastError # "none"
         /\ rt.terminal => rt'.terminal
         /\ \/ FlushReturn
            \/ rt'.lastError = rt.lastError /\ rt'.terminal = rt.terminal
<1>1. Called /\ ConnType /\ RuntimeType /\ rt \in Runtime
  BY CallsCalled DEF ConnInv, ConnType, RuntimeType
<1>2. /\ UNCHANGED <<hs, closeState, out, writeEpoch, pendingOps, closed>>
      /\ UNCHANGED performed /\ Performed /\ rt'.keys = rt.keys
  BY <1>1 DEF Called, vars, coreVars, epochVars
<1>3. Rest = {} /\ Rest' = {} /\ Performed'
  BY <1>1, <1>2
  DEF Rest, Performed, ConnType, DriveType, CoreInv, TypeOK
<1>4. CASE FlushReturn
  <2>1. rt.outbound \o <<>> = rt.outbound /\ Written \o <<>> = Written
        /\ <<>> \in Seq(Unit)
    BY <1>1, WrittenType DEF Runtime
  <2>2. Drain(rt.outbound \o <<>>)
    BY <1>4, <2>1 DEF FlushReturn
  <2>3. /\ Written' = Written
        /\ rt.lastError # "none" => rt'.lastError # "none"
        /\ rt.terminal => rt'.terminal
    BY <1>1, <2>1, <2>2, DrainWritten
  <2> QED
    BY <1>2, <1>3, <1>4, <2>3
<1>5. CASE ~FlushReturn
  <2>1. /\ UNCHANGED wire
        /\ \/ rt' = rt
           \/ rt' = [rt EXCEPT !.plaintextOut = <<>>]
           \/ rt' = [rt EXCEPT !.acceptedBytes = 0]
    <3> USE DEF wireVars, Drive
    <3>1. CASE RecvReturn
      BY <3>1 DEF RecvReturn, DeliverPlaintext
    <3>2. CASE \E n \in 0..MaxSends : SendStart(n) \/ SendNothing(n)
      BY <3>2 DEF SendStart, SendNothing
    <3>3. CASE RecvStart \/ RecvPull \/ RecvRetry
      BY <3>3 DEF RecvStart, RecvPull, RecvRetry, Start
    <3>4. CASE SendReturn \/ FlushStart \/ CloseStart \/ CloseReturn
      BY <3>4 DEF SendReturn, FlushStart, CloseStart, CloseReturn, Start
    <3>5. CASE ProgressStart \/ ProgressReturn
      BY <3>5 DEF ProgressStart, ProgressReturn, Start
    <3> QED
      BY <1>5, <3>1, <3>2, <3>3, <3>4, <3>5 DEF Calls
  <2>2. /\ rt'.outbound = rt.outbound
        /\ rt'.lastError = rt.lastError /\ rt'.terminal = rt.terminal
    BY <1>1, <2>1 DEF Runtime
  <2> QED
    BY <1>2, <1>3, <2>1, <2>2 DEF Written
<1> QED
  BY <1>4, <1>5

\* What a call puts in the queue.
LEMMA CallsQueue ==
  ASSUME Calls
  PROVE  \/ Queue' = <<>> /\ call' = "none"
         \/ /\ \E e : /\ Queue' = <<e>>
                      /\ e.ev \notin {"appSend", "appClose", "cryptoResult"}
            /\ call' # "send"
         \/ \E n \in 0..MaxSends : SendStart(n)
         \/ CloseStart
         \/ Idle /\ UNCHANGED <<call, driveVars, rt, owned>>
<1>1. Finish => Queue' = <<>> /\ call' = "none"
  BY DEF Finish, Queue
<1>2. \A stage, event : Drive(stage, event) =>
        Queue' = <<event>> /\ call' = stage
  BY DEF Drive, Queue
<1>3. \A stage, event : stage # "send" /\ Drive(stage, event)
        /\ event.ev \notin {"appSend", "appClose", "cryptoResult"} =>
          /\ \E e : /\ Queue' = <<e>>
                    /\ e.ev \notin {"appSend", "appClose", "cryptoResult"}
          /\ call' # "send"
  BY <1>2
<1>4. CASE RecvReturn \/ SendReturn \/ FlushReturn \/ CloseReturn
           \/ ProgressReturn
  BY <1>1, <1>4
  DEF RecvReturn, DeliverPlaintext, SendReturn, FlushReturn, CloseReturn,
      ProgressReturn
<1>5. CASE RecvStart \/ RecvPull \/ RecvRetry \/ FlushStart
  BY <1>3, <1>5
  DEF RecvStart, RecvPull, RecvRetry, FlushStart, Start, Event
<1>6. CASE ProgressStart
  BY <1>3, <1>6 DEF ProgressStart, Start, Event
<1>7. CASE \E n \in 0..MaxSends : SendNothing(n)
  BY <1>7 DEF SendNothing
<1> QED
  BY <1>4, <1>5, <1>6, <1>7 DEF Calls

\* No call begins or ends on a seal that is in the making.
LEMMA CallsQuiet ==
  ASSUME ConnInv, SealParts, Calls
  PROVE  ~InHand
<1>1. Rest = {}
  BY CallsKeep
<1>2. ~SealAsked /\ ~SealToWrite
  BY <1>1 DEF SealAsked, SealToWrite
<1>3. ASSUME NEW i \in 1..Len(Queue), SealAnswer(Queue[i])
      PROVE  FALSE
  <2>1. PICK op : op = Queue[i].call.op
    OBVIOUS
  <2>2. fuel > 0 /\ SealsLast(op)
    BY <1>3, <2>1 DEF SealParts, AnswerShape
  <2>3. call = "send" \/ call = "close"
    BY <2>2 DEF SealsLast, SealsData, SealsNotify
  <2>4. SendReturn \/ CloseReturn
    BY <2>3
    DEF Calls, RecvStart, RecvPull, RecvRetry, RecvReturn, SendStart,
        SendNothing, FlushStart, FlushReturn, CloseStart, ProgressStart,
        ProgressReturn, Start, Idle
  <2>5. Driven
    BY <2>4 DEF SendReturn, CloseReturn
  <2>6. Queue = <<>>
    <3>1. fuel # 0
      BY <2>2
    <3> QED
      BY <2>5, <3>1 DEF Driven, Queue
  <2> QED
    BY <1>3, <2>6
<1> QED
  BY <1>2, <1>3 DEF InHand, SealAnswered

LEMMA SendStartShape ==
  ASSUME ConnInv, NEW n \in 0..MaxSends, SendStart(n)
  PROVE  /\ call = "none" /\ call' = "send" /\ fuel' = MaxSteps
         /\ owned' = owned /\ rt'.acceptedBytes = 0
         /\ \E e : /\ Queue' = <<e>> /\ e.ev = "appSend"
                   /\ \A k \in 1..Len(e.plain) : e.plain[k] = owned + k
                   /\ Fits(1 + Len(e.plain))'
         /\ Fits(0)'
<1> PICK m : m = Admitted(n)
  OBVIOUS
<1> PICK plain : plain = [i \in 1..m |-> owned + i]
  OBVIOUS
<1> PICK e : e = [ev |-> "appSend", plain |-> plain]
  OBVIOUS
<1>1. RuntimeType /\ rt \in Runtime /\ n \in Nat
  BY MaxSendsAssumption DEF ConnInv, ConnType, RuntimeType
<1>2. /\ call = "none" /\ call' = "send" /\ fuel' = MaxSteps
      /\ owned' = owned /\ m > 0
      /\ rt' = [rt EXCEPT !.acceptedBytes = 0]
      /\ Queue' = <<e>>
  BY DEF SendStart, Idle, Drive, callerVars, Queue
<1>3. m \in Nat /\ owned \in Nat
  BY <1>1, AdmittedType DEF RuntimeType
<1>4. Len(plain) = m /\ \A k \in 1..m : plain[k] = owned + k
  BY <1>3
<1>5. Len(rt.outbound) + 1 + m <= MaxCiphertext /\ Len(rt.outbound) \in Nat
  <2>1. Len(rt.outbound) \in Nat
    BY <1>1 DEF Runtime
  <2> QED
    BY <1>1, <1>2, <2>1, LimitsOfCallsAssumption, MaxFragmentAssumption
    DEF Admitted, MaxPlaintextForProtectedBudget, Overhead
<1>6. rt'.outbound = rt.outbound /\ rt'.acceptedBytes = 0
  BY <1>1, <1>2 DEF Runtime
<1>7. Fits(1 + m)' /\ Fits(0)'
  <2>1. /\ Len(rt.outbound) + (1 + m) <= MaxCiphertext
        /\ Len(rt.outbound) + 0 <= MaxCiphertext
    BY <1>3, <1>5, LimitsOfCallsAssumption
  <2> QED
    BY <1>6, <2>1 DEF Fits
<1>8. e.ev = "appSend" /\ e.plain = plain
  OBVIOUS
<1> QED
  BY <1>2, <1>4, <1>6, <1>7, <1>8

LEMMA CloseStartShape ==
  ASSUME CloseStart
  PROVE  /\ call = "none" /\ call' = "close" /\ fuel' = MaxSteps
         /\ UNCHANGED <<owned, rt>>
         /\ \E e : Queue' = <<e>> /\ e.ev = "appClose"
<1>1. PICK mode \in CloseMode :
        Start("close", [ev |-> "appClose", mode |-> mode]) /\ UNCHANGED rt
  BY DEF CloseStart
<1> DEFINE e == [ev |-> "appClose", mode |-> mode]
<1>2. /\ call = "none" /\ call' = "close" /\ fuel' = MaxSteps
      /\ UNCHANGED <<owned, rt>> /\ Queue' = <<e>>
  BY <1>1 DEF Start, Idle, Drive, callerVars, Queue
<1>3. e.ev = "appClose"
  OBVIOUS
<1> HIDE DEF e
<1> QED
  BY <1>2, <1>3

\* The event at the head of a drive is an offer or none at all.
LEMMA CallsChain ==
  ASSUME ConnInv, ChainShape, CallsShape, EarlyShape, Calls
  PROVE  ChainShape' /\ CallsShape' /\ EarlyShape'
<1>1. /\ Rest' = {} /\ Performed'
      /\ UNCHANGED <<hs, out, writeEpoch, pendingOps>>
  BY CallsKeep
<1>2. EarlyShape'
  BY <1>1 DEF EarlyShape, Early, SealToWrite
<1>3. ASSUME NEW e, Queue' = <<e>>, e.ev # "cryptoResult",
             e.ev \in {"appSend", "appClose"} =>
               /\ fuel' = MaxSteps
               /\ call' = IF e.ev = "appSend" THEN "send" ELSE "close"
      PROVE  ChainShape' /\ CallsShape'
  <2>1. Len(Queue') = 1 /\ Queue'[1] = e
    BY <1>3
  <2> QED
    BY <1>1, <1>3, <2>1 DEF ChainShape, CallsShape
<1>4. CASE Queue' = <<>>
  BY <1>1, <1>2, <1>4 DEF ChainShape, CallsShape
<1>5. CASE Idle /\ UNCHANGED <<call, driveVars, rt, owned>>
  <2>1. Queue' = Queue /\ call' = call /\ fuel' = fuel
    BY <1>5 DEF driveVars, Queue
  <2> QED
    BY <1>1, <1>2, <2>1 DEF ChainShape, CallsShape, Outstands
<1>6. CASE CloseStart
  BY <1>2, <1>3, <1>6, CloseStartShape
<1>7. CASE \E n \in 0..MaxSends : SendStart(n)
  BY <1>2, <1>3, <1>7, SendStartShape
<1> QED
  BY <1>2, <1>3, <1>4, <1>5, <1>6, <1>7, CallsQueue

LEMMA CallsSeal ==
  ASSUME ConnInv, ChainShape, EarlyShape, SealParts, Calls, Live
  PROVE  SealParts'
<1>1. /\ Written' = Written /\ Rest = {} /\ Rest' = {}
      /\ UNCHANGED <<hs, closeState, out, writeEpoch, pendingOps, closed>>
      /\ rt'.keys = rt.keys
      /\ rt.terminal => rt'.terminal
  BY CallsKeep
<1>2. ~InHand /\ ~SealAnswered
  BY CallsQuiet DEF InHand
<1>3. \A i \in 1..Len(Queue') : ~SealAnswer(Queue'[i])
  <2>1. ASSUME NEW e, Queue' = <<e>>, e.ev # "cryptoResult"
        PROVE  \A i \in 1..Len(Queue') : ~SealAnswer(Queue'[i])
    BY <2>1 DEF SealAnswer
  <2>2. CASE UNCHANGED driveVars
    BY <1>2, <2>2 DEF driveVars, Queue, SealAnswered
  <2>3. CASE Queue' = <<>>
    BY <2>3
  <2> QED
    BY <2>1, <2>2, <2>3, CallsQueue, SendStartShape, CloseStartShape
<1>4. AskShape' /\ WriteShape' /\ AnswerShape'
  BY <1>1, <1>3 DEF AskShape, WriteShape, AnswerShape
<1>5. ~InHand'
  BY <1>1, <1>3 DEF InHand, SealAsked, SealAnswered, SealToWrite
<1>6. SendShape'
  <2>1. CASE \E n \in 0..MaxSends : SendStart(n)
    <3>1. PICK e : /\ Queue' = <<e>> /\ e.ev = "appSend"
                   /\ \A k \in 1..Len(e.plain) : e.plain[k] = owned' + k
                   /\ Fits(1 + Len(e.plain))'
                   /\ rt'.acceptedBytes = 0 /\ Fits(0)'
      BY <2>1, SendStartShape
    <3>2. Len(Queue') = 1 /\ Queue'[1] = e
      BY <3>1
    <3> QED
      BY <1>1, <3>1, <3>2 DEF SendShape
  <2>2. CASE CloseStart
    <3>1. call' # "send" /\ \A i \in 1..Len(Queue') : Queue'[i].ev # "appSend"
      BY <2>2, CloseStartShape
    <3> QED
      BY <1>1, <3>1 DEF SendShape
  <2>3. CASE call' # "send" /\ \E e : Queue' = <<e>> /\ e.ev # "appSend"
    BY <1>1, <2>3 DEF SendShape
  <2>4. CASE Queue' = <<>> /\ call' = "none"
    BY <1>1, <2>4 DEF SendShape
  <2>5. CASE Idle /\ UNCHANGED <<call, driveVars, rt, owned>>
    <3>1. \A i \in 1..Len(Queue) : Queue[i].ev # "appSend"
      BY <2>5 DEF ChainShape, Idle
    <3>2. Queue' = Queue /\ call' # "send"
      BY <2>5 DEF driveVars, Queue, Idle
    <3> QED
      BY <1>1, <3>1, <3>2 DEF SendShape
  <2> QED
    BY <2>1, <2>2, <2>3, <2>4, <2>5, CallsQueue
<1>7. Ledger'
  <2>1. Early' = Early /\ (Lost => Lost')
    BY <1>1 DEF Early, Lost, AppKey
  <2>2. /\ ~Lost \/ Early =>
             /\ Cardinality(Places(AppRecords)) = writeEpoch.seq
             /\ Committed
                  = owned + IF call = "send" THEN rt.acceptedBytes ELSE 0
    BY <1>2 DEF SealParts, Ledger
  <2>3. owned \in Nat /\ rt \in Runtime
    BY DEF ConnInv, ConnType, RuntimeType
  <2>4. owned + (IF call = "send" THEN rt.acceptedBytes ELSE 0)
          = owned' + IF call' = "send" THEN rt'.acceptedBytes ELSE 0
    <3>1. CASE SendReturn
      <4>1. rt.acceptedBytes \in Nat
        BY <2>3 DEF Runtime
      <4>2. call = "send" /\ call' = "none"
        BY <3>1 DEF SendReturn, Finish
      <4>3. owned' = owned + rt.acceptedBytes
        BY <2>3, <3>1, <4>1 DEF SendReturn, Live
      <4> QED
        BY <2>3, <4>1, <4>2, <4>3
    <3>2. CASE \E n \in 0..MaxSends : SendStart(n)
      BY <3>2, SendStartShape
    <3>3. CASE CloseStart
      BY <3>3, CloseStartShape
    <3>4. CASE \E n \in 0..MaxSends : SendNothing(n)
      BY <3>4 DEF SendNothing, Idle
    <3>5. CASE RecvStart \/ RecvPull \/ RecvRetry \/ RecvReturn \/ FlushStart
               \/ FlushReturn \/ CloseReturn \/ ProgressStart
               \/ ProgressReturn
      <4>1. call # "send" /\ call' # "send" /\ owned' = owned
        BY <3>5
        DEF RecvStart, RecvPull, RecvRetry, RecvReturn, DeliverPlaintext,
            FlushStart, FlushReturn, CloseReturn, ProgressStart,
            ProgressReturn, Start, Finish, Drive, Idle, callerVars
      <4> QED
        BY <4>1
    <3> QED
      BY <3>1, <3>2, <3>3, <3>4, <3>5 DEF Calls
  <2> QED
    BY <1>1, <1>5, <2>1, <2>2, <2>4, StillWritten DEF Ledger
<1> QED
  BY <1>4, <1>6, <1>7 DEF SealParts

LEMMA CallsAlerts ==
  ASSUME ConnInv, AlertsEnd, Calls
  PROVE  AlertsEnd'
<1>1. /\ Written' = Written /\ Rest = {} /\ Rest' = {}
      /\ UNCHANGED <<hs, writeEpoch>> /\ rt'.keys = rt.keys
  BY CallsKeep
<1> QED
  BY <1>1 DEF AlertsEnd, Places, Terminal

LEMMA CallsNotify ==
  ASSUME ConnInv, SealShape, NotifyShape, Calls
  PROVE  NotifyShape'
<1>1. /\ Written' = Written /\ UNCHANGED <<closeState, writeEpoch>>
      /\ rt.lastError # "none" => rt'.lastError # "none"
  BY CallsKeep
<1>2. closeState = "sentCloseNotify" => ~InHand
  <2>1. closeState = "sentCloseNotify" => Live
    BY DEF ConnInv, ConnType, CoreInv, CloseStateAgrees, Live, Terminal,
           TerminalPhase
  <2> QED
    BY <2>1, CallsQuiet DEF SealShape, SealParts
<1> QED
  BY <1>1, <1>2 DEF NotifyShape

-----------------------------------------------------------------------------
SealInv ==
  /\ ConnInv
  /\ ChainShape /\ CallsShape /\ EarlyShape /\ SealShape
  /\ DataNumbered /\ ApplicationRecords
  /\ AlertsEnd /\ NotifyShape

LEMMA InitSeal == ConnInit => SealInv
<1> SUFFICES ASSUME ConnInit
             PROVE  SealInv
  OBVIOUS
<1>1. ConnInv
  BY InitConn
<1>2. /\ hs = "start" /\ out = <<>> /\ closeState = "open"
      /\ writeEpoch.seq = 0
      /\ call = "none" /\ events = <<>> /\ followUps = <<>>
      /\ performed = 0 /\ owned = 0
      /\ wire = <<>> /\ rt.outbound = <<>> /\ ~rt.terminal
  BY DEF ConnInit, Init, FreshEpoch
<1>3. Rest = {}
  BY <1>2 DEF Rest
<1>4. Queue = <<>>
  BY <1>2 DEF Queue
<1>5. Written = <<>>
  BY <1>2 DEF Written
<1>6. \A recs : Places(recs) = {}
  BY <1>5 DEF Places
<1>7. ~InHand
  BY <1>3, <1>4 DEF InHand, SealAsked, SealAnswered, SealToWrite
<1>8. ChainShape /\ CallsShape /\ EarlyShape
  BY <1>2, <1>3, <1>4
  DEF ChainShape, CallsShape, EarlyShape, SealToWrite
<1>9. SealShape
  <2>1. Cardinality(Places(AppRecords)) = 0 /\ Committed = 0
    BY <1>6, FS_EmptySet DEF Committed
  <2> QED
    BY <1>2, <1>3, <1>4, <1>7, <2>1
    DEF SealShape, AskShape, AnswerShape, WriteShape, SendShape, Ledger
<1>10. DataNumbered /\ ApplicationRecords /\ AlertsEnd /\ NotifyShape
  BY <1>2, <1>3, <1>6
  DEF DataNumbered, ApplicationRecords, AlertsEnd, NotifyShape
<1> QED
  BY <1>1, <1>8, <1>9, <1>10 DEF SealInv

LEMMA StutterSeal ==
  ASSUME SealInv, UNCHANGED connVars
  PROVE  SealInv'
<1>1. ConnInv'
  BY ConnInvStep DEF SealInv
<1>2. UNCHANGED <<hs, closeState, out, writeEpoch, pendingOps, call, events,
                  followUps, performed, fuel, answered, rt, wire, closed,
                  owned>>
  BY DEF connVars, vars, coreVars, epochVars, driveVars, wireVars,
         callerVars
<1>3. /\ Queue' = Queue /\ Rest' = Rest /\ Written' = Written
      /\ Performed' = Performed
  BY <1>2 DEF Queue, Rest, Written, Performed
<1>4. ChainShape' /\ CallsShape' /\ EarlyShape'
  BY <1>2, <1>3
  DEF SealInv, ChainShape, CallsShape, EarlyShape, Early, SealToWrite, Live,
      Terminal, Outstands
<1>5. SealShape'
  <2>1. InHand' = InHand
    BY <1>2, <1>3 DEF InHand, SealAsked, SealAnswered, SealToWrite
  <2>2. \A op : /\ SealsLast(op) => SealsLast(op)'
                /\ AskedFor(op) => AskedFor(op)'
    BY <1>2
    DEF SealsLast, SealsData, SealsNotify, AskedFor, Connected, Fits
  <2>3. AppKey' = AppKey /\ Lost' = Lost /\ Early' = Early
        /\ Live' = Live /\ Connected' = Connected
    BY <1>2 DEF AppKey, Lost, Early, Live, Terminal, Connected
  <2>4. ASSUME AskShape
        PROVE  AskShape'
    BY <1>2, <1>3, <2>2, <2>4 DEF AskShape
  <2>5. ASSUME AnswerShape
        PROVE  AnswerShape'
    BY <1>2, <1>3, <2>2, <2>3, <2>5 DEF AnswerShape
  <2>6. ASSUME WriteShape
        PROVE  WriteShape'
    BY <1>2, <1>3, <2>2, <2>3, <2>6 DEF WriteShape
  <2>7. ASSUME SendShape
        PROVE  SendShape'
    BY <1>2, <1>3, <2>1, <2>3, <2>7 DEF SendShape, Fits
  <2>8. ASSUME Ledger
        PROVE  Ledger'
    BY <1>2, <1>3, <2>1, <2>3, <2>8, StillWritten DEF Ledger
  <2> QED
    BY <2>3, <2>4, <2>5, <2>6, <2>7, <2>8 DEF SealInv, SealShape
<1>6. DataNumbered' /\ ApplicationRecords'
  BY <1>3 DEF SealInv, DataNumbered, ApplicationRecords, Places, Before
<1>7. AlertsEnd' /\ NotifyShape'
  BY <1>2, <1>3
  DEF SealInv, AlertsEnd, NotifyShape, InHand, SealAsked, SealAnswered,
      SealToWrite, Places, Terminal
<1> QED
  BY <1>1, <1>4, <1>5, <1>6, <1>7 DEF SealInv

LEMMA SameRecords ==
  ASSUME Written' = Written
  PROVE  /\ DataNumbered => DataNumbered'
         /\ ApplicationRecords => ApplicationRecords'
BY DEF DataNumbered, ApplicationRecords, Places, Before

LEMMA SealInvStep ==
  ASSUME MaxSteps >= 2
  PROVE  SealInv /\ [ConnNext]_connVars => SealInv'
<1> SUFFICES ASSUME SealInv, [ConnNext]_connVars
             PROVE  SealInv'
  OBVIOUS
<1> USE DEF SealInv
<1>1. ConnInv'
  BY ConnInvStep
<1>2. CASE Step
  BY <1>1, <1>2, StepFacts, StepChain, StepSeal, StepAlerts, StepNotify,
     SameRecords
<1>3. CASE Execute
  BY <1>1, <1>3, ExecChain, ExecSeal, ExecAlerts, ExecNotify
<1>4. CASE Calls
  <2>1. SealShape'
    <3>1. Live' = Live
      BY <1>4, CallsKeep DEF Live, Terminal
    <3>2. ASSUME Live
          PROVE  SealParts'
      <4>1. SealParts
        BY <3>2 DEF SealShape, SealParts
      <4> QED
        BY <1>4, <3>2, <4>1, CallsSeal
    <3> QED
      BY <3>1, <3>2 DEF SealShape, SealParts
  <2> QED
    BY <1>1, <1>4, <2>1, CallsKeep, CallsChain, CallsAlerts, CallsNotify,
       SameRecords
<1>5. CASE UNCHANGED connVars
  BY <1>5, StutterSeal
<1> QED
  BY <1>2, <1>3, <1>4, <1>5 DEF ConnNext

\* What send and close ask for is sealed, written and accounted for before the
\* drive is over, or the connection has ended; one step of fuel is not enough
\* for that, since the answer to the seal takes a second one.
THEOREM SealInvariant ==
  ASSUME MaxSteps >= 2
  PROVE  ConnSpec => []SealInv
BY InitSeal, SealInvStep, PTL DEF ConnSpec

\* The peer can open every data record and close_notify: their numbers are
\* 0, 1, 2 ... with no gap, however sends are cut, blocked or failed.
THEOREM RecordsCorrect ==
  ASSUME MaxSteps >= 2
  PROVE  ConnSpec => []ApplicationRecords
<1>1. SealInv => ApplicationRecords
  BY DEF SealInv
<1> QED
  BY <1>1, SealInvariant, PTL

\* send owns up to exactly what it has sealed.
THEOREM OwnedCorrect ==
  ASSUME MaxSteps >= 2
  PROVE  ConnSpec => []OwnedExactlyOnce
<1>1. SealInv => OwnedExactlyOnce
  <2> SUFFICES ASSUME SealInv
               PROVE  OwnedExactlyOnce
    OBVIOUS
  <2>1. ASSUME Idle, Live, ~rt.terminal
        PROVE  Committed = owned
    <3>1. Ledger /\ ~Lost /\ call # "send" /\ owned \in Nat
      BY <2>1
      DEF SealInv, SealShape, Lost, Idle, ConnInv, ConnType, RuntimeType
    <3> QED
      BY <3>1 DEF Ledger
  <2> QED
    BY <2>1 DEF SealInv, DataNumbered, OwnedExactlyOnce
<1> QED
  BY <1>1, SealInvariant, PTL

\* Nothing is ever sent behind an alert, and close_notify leaves before the
\* transport is shut.
THEOREM AlertCorrect ==
  ASSUME MaxSteps >= 2
  PROVE  ConnSpec => []AlertIsLast
<1>1. SealInv => AlertIsLast
  <2> SUFFICES ASSUME SealInv
               PROVE  AlertIsLast
    OBVIOUS
  <2>1. ASSUME NEW i \in 1..Len(Written), Written[i].rec \in AlertRec
        PROVE  i = Len(Written)
    BY <2>1 DEF SealInv, AlertsEnd, Places
  <2>2. ASSUME closed, closeState = "sentCloseNotify", writeEpoch.seq > 0,
               rt.lastError = "none"
        PROVE  Written[Len(Written)].rec = "alert"
    <3>1. hs = "closing" /\ Live /\ ~Connected
      BY <2>2
      DEF SealInv, ConnInv, ConnType, CoreInv, CloseStateAgrees, Live,
          Terminal, TerminalPhase, Connected
    <3>2. AskShape /\ AnswerShape /\ WriteShape
      BY <3>1 DEF SealInv, SealShape
    <3>3. \A op : ~SealsLast(op)
      BY <2>2, <3>1 DEF SealsLast, SealsData, SealsNotify
    <3>4. ~InHand
      BY <3>2, <3>3
      DEF InHand, SealAsked, SealAnswered, SealToWrite, AskShape,
          AnswerShape, WriteShape
    <3> QED
      BY <2>2, <3>4 DEF SealInv, NotifyShape
  <2> QED
    BY <2>1, <2>2 DEF AlertIsLast, AlertRec
<1> QED
  BY <1>1, SealInvariant, PTL

\* No send that took plaintext leaves more in the queue than the cap allows.
THEOREM CapCorrect ==
  ASSUME MaxSteps >= 2
  PROVE  ConnSpec => CapHolds
<1>1. SealInv /\ [ConnNext]_connVars =>
        [owned' # owned => Len(rt'.outbound) <= MaxCiphertext]_connVars
  <2> SUFFICES ASSUME SealInv, ConnNext, owned' # owned
               PROVE  Len(rt'.outbound) <= MaxCiphertext
    OBVIOUS
  <2>1. SendReturn
    <3>1. ~Step
      BY DEF Step, callerVars
    <3>2. ~Execute
      BY ExecBase DEF SealInv
    <3>3. ASSUME NEW n \in 0..MaxSends
          PROVE  ~SendStart(n) /\ ~SendNothing(n)
      BY DEF SendStart, SendNothing, callerVars
    <3>4. ~(RecvStart \/ RecvPull \/ RecvRetry \/ RecvReturn \/ FlushStart
              \/ FlushReturn \/ CloseStart \/ CloseReturn \/ ProgressStart
              \/ ProgressReturn)
      BY DEF RecvStart, RecvPull, RecvRetry, RecvReturn, DeliverPlaintext,
         FlushStart, FlushReturn, CloseStart, CloseReturn, ProgressStart,
         ProgressReturn, Start, callerVars
    <3> QED
      BY <3>1, <3>2, <3>3, <3>4 DEF ConnNext, Calls
  <2>2. call = "send" /\ Live /\ rt' = rt
    BY <2>1 DEF SendReturn, Live
  <2>3. Fits(0)
    BY <2>2 DEF SealInv, SealShape, SendShape
  <2>4. Len(rt.outbound) \in Nat
    BY DEF SealInv, ConnInv, ConnType, RuntimeType, Runtime
  <2> QED
    BY <2>2, <2>3, <2>4 DEF Fits
<1> QED
  BY <1>1, SealInvariant, PTL DEF ConnSpec, CapHolds
-----------------------------------------------------------------------------
(* The handshake write key and the flight.                                 *)

LEMMA EventFlight ==
  ASSUME TypeOK, FlightShape, NEW e \in AnEvent, Handle(e)
  PROVE  \/ OffFlight
         \/ (OnFlight \/ Completes) /\ e.ev = "cryptoResult" /\ e.ok /\ Live
<1>1. CASE Absorb \/ AppRecv \/ Writable \/ TransportReadable
           \/ TransportEof \/ Timeout
  BY <1>1, CallsOff DEF Quiet
<1>2. CASE e.ev = "appSend" /\ AppSend(e.plain)
  BY <1>2, EventFields, CallsOff
<1>3. CASE e.ev = "appClose" /\ AppClose(e.mode)
  BY <1>3, EventFields, CallsOff
<1>4. CASE e.ev = "transportBytes" /\ TransportBytes(e.recs)
  BY <1>4, EventFields, BytesOff
<1>5. CASE /\ e.ev = "cryptoResult"
           /\ \/ e.ok /\ Succeeds(e.call)
              \/ ~e.ok /\ CryptoFailed(e.call.id)
              \/ DroppedResult(e.call.id)
  <2>1. e.call \in Request /\ e.call.id \in Nat
    BY <1>5, EventFields DEF Request
  <2>2. CASE CryptoFailed(e.call.id) \/ DroppedResult(e.call.id)
    BY <2>1, <2>2, RecordsOff
  <2>3. CASE e.ok /\ Succeeds(e.call)
    <3>1. \/ AeadSealed(e.call.id)
          \/ \E inner \in Inner : AeadOpened(e.call.id, inner)
          \/ \E answer \in GatingAnswer : GatingResult(e.call.id, answer)
      BY <2>1, <2>3, SucceedsAnswers
    <3>2. ASSUME NEW answer \in GatingAnswer,
                 GatingResult(e.call.id, answer)
          PROVE  (OffFlight \/ OnFlight \/ Completes) /\ Live
      BY <3>2, GatingOn DEF GatingResult, Outstanding
    <3> QED
      BY <1>5, <2>1, <2>3, <3>1, <3>2, RecordsOff
  <2> QED
    BY <1>5, <2>2, <2>3
<1> QED
  BY <1>1, <1>2, <1>3, <1>4, <1>5 DEF Handle

HsKey == <<"write", "handshake">> \in rt.keys

\* The handshake write key is there whenever a record of the flight is about
\* to be written under it; when it is lost, no call that would lead to the next
\* record is made or answered any more.
KeyShape ==
  /\ KeyDue /\ ~HsKey =>
       /\ \A i \in Rest : out[i].act # "callCrypto"
       /\ \A i \in 1..Len(Queue) : Queue[i].ev # "cryptoResult"
  /\ hs = "derivedHandshakeSecrets" =>
       /\ \A i \in Rest :
            out[i].act = "callCrypto" => out[i].op = ScheduleOp(keySched)
       /\ \A i \in 1..Len(Queue) :
            (/\ Queue[i].ev = "cryptoResult" /\ Queue[i].ok
             /\ keySched.phase = "awaitInstallWriteHs") => HsKey
  /\ \A i \in Rest : out[i].act = "writeHandshake" =>
       /\ \/ out[i].msg = "ServerHello"
          \/ out[i].epoch = "handshake" /\ HsKey
       /\ \A j \in Rest : \/ out[j].act = "writeHandshake"
                          \/ out[j].act = "callCrypto" /\ j = Len(out)
  /\ \A i \in Rest : out[i].act \in Dropping => hs \in Ending

LEMMA DropsEnd ==
  ASSUME NEW ops, Concludes(ops)
  PROVE  \A i \in 1..Len(out') : out'[i].act \in Dropping => hs' \in Ending
<1>1. CASE Stops
  BY <1>1 DEF Stops, Ending
<1>2. CASE Keeps(ops)
  BY <1>2 DEF Keeps, Dropping
<1>3. CASE Asks(ops)
  <2>1. PICK op \in CryptoOp, n \in 1..Len(out') :
          /\ out'[n] = CallCrypto(nextOpId, op)
          /\ \A i \in (1..Len(out')) \ {n} :
               \/ out'[i].act = "writeHandshake"
               \/ out'[i].act = "acceptPlaintextBytes"
    BY <1>3 DEF Asks, FlightRecord
  <2> QED
    BY <2>1 DEF CallCrypto, Dropping
<1> QED
  BY <1>1, <1>2, <1>3 DEF Concludes

LEMMA StepKeys ==
  ASSUME ConnInv, ChainShape, KeyShape, Step
  PROVE  KeyShape'
<1> PICK e : e = Queue[1]
  OBVIOUS
<1>1. /\ Len(Queue) = 1 /\ e \in AnEvent /\ Handle(e)
      /\ Queue' = <<>> /\ Rest' = 1..Len(out') /\ rt' = rt
      /\ CoreStep /\ CoreInv
  BY StepFacts
<1>2. OffFlight \/ ((OnFlight \/ Completes) /\ e.ev = "cryptoResult" /\ e.ok)
  BY <1>1, EventFlight DEF CoreInv
<1>3. HsKey' = HsKey
  BY <1>1 DEF HsKey
<1>4. \A i \in 1..Len(out') : out'[i].act \in Dropping => hs' \in Ending
  <2>1. Absorb \/ \E ops \in SUBSET pendingOps : Concludes(ops)
    BY <1>1, CoreStepConcludes DEF CoreInv
  <2>2. CASE Absorb
    BY <2>2 DEF Absorb
  <2> QED
    BY <2>1, <2>2, DropsEnd
<1>5. CASE OffFlight
  <2>1. KeyDue' => hs' \in KeyPhase
    BY DEF KeyDue, KeyPhase, Scheduling
  <2>2. "derivedHandshakeSecrets" \in KeyPhase
    BY DEF KeyPhase, Scheduling
  <2> QED
    BY <1>1, <1>4, <1>5, <2>1, <2>2 DEF OffFlight, KeyShape
<1>6. CASE OnFlight /\ e.ev = "cryptoResult" /\ e.ok
  <2>1. KeyDue => HsKey
    BY <1>1, <1>6 DEF KeyShape
  <2>2. hs = "derivedHandshakeSecrets"
          /\ keySched.phase = "awaitInstallWriteHs" => HsKey
    BY <1>1, <1>6 DEF KeyShape
  <2>3. KeyDue' => HsKey
    BY <1>6, <2>1, <2>2 DEF OnFlight
  <2>4. \A i \in 1..Len(out') :
          IF i = Len(out')
          THEN /\ out'[i].act = "callCrypto"
               /\ hs' = "derivedHandshakeSecrets" =>
                    out'[i].op = ScheduleOp(keySched')
          ELSE /\ out'[i].act = "writeHandshake"
               /\ \/ out'[i].msg = "ServerHello"
                  \/ out'[i].epoch = "handshake" /\ HsKey
    BY <1>6, <2>1 DEF OnFlight, Scheduling
  <2> QED
    BY <1>1, <1>3, <1>4, <2>3, <2>4 DEF KeyShape
<1>7. CASE Completes
  BY <1>1, <1>7 DEF Completes, KeyShape, KeyDue, HandshakeKeysReady
<1> QED
  BY <1>2, <1>5, <1>6, <1>7

\* What an action does to the keys, and what it has to tell the core.
KeyMoves ==
  \/ rt'.keys = rt.keys /\ Current.act # "callCrypto"
  \/ Current.act \in Dropping
  \/ /\ Current.act = "callCrypto"
     /\ \/ followUps' = followUps
        \/ rt'.keys = rt.keys \cup Installs(Current.op)
        \/ /\ rt'.keys = rt.keys
           /\ \E e : Raise(e) /\ ~e.ok

LEMMA ExecKeyMoves ==
  ASSUME ConnInv, Execute,
         OversizeCertificate = FALSE \/ Current.act # "writeHandshake"
  PROVE  KeyMoves
<1> USE DEF Perform
<1>1. RuntimeType /\ rt \in Runtime /\ ConnType
  BY DEF ConnInv, ConnType, RuntimeType
<1>2. CASE ReadBytes \/ ReadNothing \/ ReadEnd
  BY <1>1, <1>2 DEF ReadBytes, ReadNothing, ReadEnd, KeyMoves, Runtime
<1>3. CASE WriteSealed
  BY <1>1, <1>3, WriteSealedAdds DEF Adds, KeyMoves
<1>4. CASE WriteFlight
  <2> DEFINE protected == Current.epoch = "handshake"
                           /\ <<"write", "handshake">> \in rt.keys
  <2>1. performed < Len(out) /\ Current.act = "writeHandshake"
        /\ Drain(rt.outbound \o FlightUnit(Current.msg, protected))
    BY <1>4 DEF WriteFlight
  <2>2. protected \in BOOLEAN /\ Current.msg \in ServerMessage
    BY <1>1, <2>1, CurrentType, ActionFields
  <2> HIDE DEF protected
  <2>3. FlightUnit(Current.msg, protected) \in Seq(Unit)
    BY <2>2 DEF FlightUnit, Unit
  <2> QED
    BY <1>1, <2>1, <2>3, DrainAdds DEF Adds, KeyMoves
<1>5. CASE WriteAlertRecord
  <2>1. Current.act = "writeAlert" /\ (rt'.keys = rt.keys)
    <3>1. Writes
      BY <1>5, ExecWrites
    <3>2. Current.act = "writeAlert"
      BY <1>5 DEF WriteAlertRecord
    <3>3. rt' = rt \/ Adds(RecordUnit("fatalAlert", Current.epoch,
                                      Current.seq))
      <4>1. performed < Len(out)
        BY <1>5 DEF WriteAlertRecord
      <4>2. Current.epoch \in Epoch /\ Current.seq \in 0..MaxSeq
        BY <1>1, <3>2, <4>1, CurrentType, ActionFields
      <4>3. RecordUnit("fatalAlert", Current.epoch, Current.seq) \in Seq(Unit)
        BY <4>2 DEF RecordUnit, Unit
      <4> QED
        BY <1>1, <1>5, <4>3, DrainAdds DEF WriteAlertRecord
    <3> QED
      BY <3>2, <3>3 DEF Adds
  <2> QED
    BY <2>1 DEF KeyMoves
<1>6. CASE ProviderSucceeds
  <2> DEFINE keys == rt.keys \cup Installs(Current.op)
  <2>1. rt' = [rt EXCEPT !.keys = keys] /\ Current.act = "callCrypto"
    BY <1>6 DEF ProviderSucceeds
  <2> HIDE DEF keys
  <2>2. rt'.keys = keys
    BY <1>1, <2>1 DEF Runtime
  <2> QED
    BY <2>1, <2>2 DEF keys, KeyMoves
<1>7. CASE ProviderFails
  <2> DEFINE e == [ev |-> "cryptoResult", call |-> ProviderCall, ok |-> FALSE]
  <2>1. Raise(e) /\ ~e.ok
    BY <1>7 DEF ProviderFails
  <2>2. Current.act = "callCrypto" /\ rt' = rt
    BY <1>7 DEF ProviderFails
  <2> HIDE DEF e
  <2> QED
    BY <2>1, <2>2 DEF KeyMoves
<1>8. CASE ProviderMisanswers
  BY <1>8 DEF ProviderMisanswers, KeyMoves
<1>9. CASE Plaintext
  <2>1. Current.act \in {"emitPlaintext", "acceptPlaintextBytes"}
    BY <1>9 DEF Plaintext
  <2>2. \E x, y : \/ rt' = [rt EXCEPT !.plaintextOut = x]
                  \/ rt' = [rt EXCEPT !.acceptedBytes = y]
    BY <1>9 DEF Plaintext
  <2>3. rt'.keys = rt.keys
    BY <1>1, <2>2 DEF Runtime
  <2> QED
    BY <2>1, <2>3 DEF KeyMoves
<1>10. CASE Report \/ CloseConnection
  BY <1>10 DEF Report, CloseConnection, KeyMoves, Dropping
<1> QED
  BY <1>2, <1>3, <1>4, <1>5, <1>6, <1>7, <1>8, <1>9, <1>10 DEF Execute

LEMMA InstallsHsKey ==
  ASSUME NEW ks, ks.phase = "awaitInstallWriteHs"
  PROVE  Installs(ScheduleOp(ks)) = {<<"write", "handshake">>}
<1>1. /\ Schedule(ks.phase).kind = "installTrafficKeys"
      /\ Schedule(ks.phase).label = "write handshake"
  BY DEF Schedule, Awaits
<1>2. /\ ScheduleOp(ks).kind = "installTrafficKeys"
      /\ ScheduleOp(ks).label = "write handshake"
  BY <1>1 DEF ScheduleOp
<1> QED
  BY <1>2 DEF Installs, KeyOf

LEMMA ExecKeys ==
  ASSUME ConnInv, ChainShape, KeyShape, Execute, OversizeCertificate = FALSE
  PROVE  KeyShape'
<1> PICK p : p = performed + 1
  OBVIOUS
<1>1. /\ Current = out[p] /\ p \in Rest /\ Rest' = Rest \ {p}
      /\ UNCHANGED <<hs, out>> /\ Rest \subseteq 1..Len(out)
  BY ExecBase DEF Rest
<1>2. keySched' = keySched /\ KeyDue' = KeyDue
  <2>1. keySched' = keySched
    BY ExecuteCarried DEF Carried, vars, coreVars, flightVars, ConnInv
  <2> QED
    BY <1>1, <2>1 DEF KeyDue
<1>3. KeyMoves
  BY ExecKeyMoves
<1>4. \/ Queue' = Queue
      \/ /\ Raises(Current) /\ Queue = <<>>
         /\ \E e : Queue' = <<e>> /\ Raised(e)
  BY ExecQueue
<1>5. Current.act \in Dropping => hs \in Ending
  BY <1>1 DEF KeyShape
<1>6. hs \in KeyPhase => hs \notin Ending
  BY DEF KeyPhase, Scheduling, HandshakeKeysReady, Ending, TerminalPhase
<1>7. HsKey /\ hs \notin Ending =>
        HsKey' \/ (Current.act = "callCrypto" /\ followUps' = followUps)
  BY <1>3, <1>5 DEF KeyMoves, HsKey
<1>8. Current.act = "callCrypto" =>
        /\ Queue = <<>> /\ \A i \in Rest' : out[i].act # "callCrypto"
  BY <1>1 DEF ChainShape, Raises
<1>9. followUps' = followUps => Queue' = Queue
  BY ExecuteCarried DEF Carried, Queue, ConnInv
<1>10. ASSUME KeyDue, ~HsKey'
       PROVE  /\ \A i \in Rest' : out[i].act # "callCrypto"
              /\ \A i \in 1..Len(Queue') : Queue'[i].ev # "cryptoResult"
  <2>1. hs \in KeyPhase
    BY <1>10 DEF KeyDue, KeyPhase, Scheduling
  <2>2. CASE HsKey
    BY <1>6, <1>7, <1>8, <1>9, <1>10, <2>1, <2>2
  <2>3. CASE ~HsKey
    <3>1. /\ \A i \in Rest : out[i].act # "callCrypto"
          /\ \A i \in 1..Len(Queue) : Queue[i].ev # "cryptoResult"
      BY <1>10, <2>3 DEF KeyShape
    <3>2. ASSUME NEW e, Queue' = <<e>>, Raised(e)
          PROVE  \A i \in 1..Len(Queue') : Queue'[i].ev # "cryptoResult"
      <4>1. Len(Queue') = 1 /\ Queue'[1] = e
        BY <3>2
      <4>2. e.ev # "cryptoResult"
        BY <1>1, <3>1, <3>2 DEF Raised
      <4> QED
        BY <4>1, <4>2
    <3> QED
      BY <1>1, <1>4, <3>1, <3>2
  <2> QED
    BY <2>2, <2>3
<1>11. ASSUME hs = "derivedHandshakeSecrets"
       PROVE  /\ \A i \in Rest' :
                   out[i].act = "callCrypto" => out[i].op = ScheduleOp(keySched)
              /\ \A i \in 1..Len(Queue') :
                   (/\ Queue'[i].ev = "cryptoResult" /\ Queue'[i].ok
                    /\ keySched.phase = "awaitInstallWriteHs") => HsKey'
  <2>1. hs \notin Ending
    BY <1>6, <1>11 DEF KeyPhase, Scheduling
  <2>2. \A i \in Rest :
          out[i].act = "callCrypto" => out[i].op = ScheduleOp(keySched)
    BY <1>11 DEF KeyShape
  <2>3. CASE Queue' = Queue
    <3>1. ASSUME NEW i \in 1..Len(Queue), Queue[i].ev = "cryptoResult",
                 Queue[i].ok, keySched.phase = "awaitInstallWriteHs"
          PROVE  HsKey'
      <4>1. HsKey
        BY <1>11, <3>1 DEF KeyShape
      <4>2. Queue # <<>>
        BY <3>1
      <4> QED
        BY <1>7, <1>8, <2>1, <4>1, <4>2
    <3> QED
      BY <1>1, <2>2, <2>3, <3>1
  <2>4. ASSUME NEW e, Raises(Current), Queue = <<>>, Queue' = <<e>>, Raised(e)
        PROVE  \A i \in 1..Len(Queue') :
                 (/\ Queue'[i].ev = "cryptoResult" /\ Queue'[i].ok
                  /\ keySched.phase = "awaitInstallWriteHs") => HsKey'
    <3>1. SUFFICES ASSUME e.ev = "cryptoResult", e.ok,
                          keySched.phase = "awaitInstallWriteHs"
                   PROVE  HsKey'
      <4>1. Len(Queue') = 1 /\ Queue'[1] = e
        BY <2>4
      <4> QED
        BY <4>1
    <3>2. Current.act = "callCrypto"
      BY <2>4, <3>1 DEF Raised
    <3>3. Current.op = ScheduleOp(keySched)
      BY <1>1, <2>2, <3>2
    <3>4. <<"write", "handshake">> \in Installs(Current.op)
      BY <3>1, <3>3, InstallsHsKey
    <3>5. followUps' # followUps
      BY <1>9, <2>4
    <3>6. ASSUME NEW f, Raise(f), ~f.ok
          PROVE  FALSE
      <4>1. followUps = <<>> /\ events = <<>> /\ events' = events
        <5>1. DriveType /\ Carried
          BY ExecuteCarried DEF ConnInv, ConnType
        <5> QED
          BY <2>4, <5>1, EmptySeq DEF DriveType, Queue, Carried
      <4>2. Queue' = <<f>>
        BY <3>6, <4>1 DEF Raise, Queue
      <4>3. f = e
        BY <2>4, <4>2
      <4> QED
        BY <3>1, <3>6, <4>3
    <3> QED
      BY <1>3, <3>2, <3>4, <3>5, <3>6 DEF KeyMoves, Dropping, HsKey
  <2> QED
    BY <1>1, <1>4, <2>2, <2>3, <2>4
<1>12. ASSUME NEW i \in Rest', out[i].act = "writeHandshake"
       PROVE  /\ \/ out[i].msg = "ServerHello"
                 \/ out[i].epoch = "handshake" /\ HsKey'
              /\ \A j \in Rest' : \/ out[j].act = "writeHandshake"
                                  \/ out[j].act = "callCrypto" /\ j = Len(out)
  <2>1. /\ \/ out[i].msg = "ServerHello"
           \/ out[i].epoch = "handshake" /\ HsKey
        /\ \A j \in Rest : \/ out[j].act = "writeHandshake"
                           \/ out[j].act = "callCrypto" /\ j = Len(out)
    BY <1>1, <1>12 DEF KeyShape
  <2>2. Current.act = "writeHandshake"
    <3>1. CASE Current.act = "callCrypto" /\ p = Len(out)
      <4>1. p \in Nat /\ Len(out) \in Nat /\ Rest = p..Len(out)
        BY ExecBase DEF Rest
      <4> QED
        BY <1>1, <1>12, <3>1, <4>1
    <3> QED
      BY <1>1, <2>1, <3>1
  <2>3. rt'.keys = rt.keys
    BY <1>3, <2>2 DEF KeyMoves, Dropping
  <2> QED
    BY <1>1, <2>1, <2>3 DEF HsKey
<1>13. \A i \in Rest' : out[i].act \in Dropping => hs \in Ending
  BY <1>1 DEF KeyShape
<1>14. KeyDue' /\ ~HsKey' =>
         /\ \A i \in Rest' : out'[i].act # "callCrypto"
         /\ \A i \in 1..Len(Queue') : Queue'[i].ev # "cryptoResult"
  BY <1>1, <1>2, <1>10
<1> QED
  BY <1>1, <1>2, <1>11, <1>12, <1>13, <1>14 DEF KeyShape

LEMMA CallsNoAnswer ==
  ASSUME ConnInv, Calls
  PROVE  \A i \in 1..Len(Queue') :
           Queue'[i].ev # "cryptoResult" \/ (Queue' = Queue)
<1>1. ASSUME NEW e, Queue' = <<e>>, e.ev # "cryptoResult"
      PROVE  \A i \in 1..Len(Queue') : Queue'[i].ev # "cryptoResult"
  <2>1. Len(Queue') = 1 /\ Queue'[1] = e
    BY <1>1
  <2> QED
    BY <1>1, <2>1
<1>2. CASE Queue' = <<>>
  BY <1>2
<1>3. CASE Idle /\ UNCHANGED <<call, driveVars, rt, owned>>
  BY <1>3 DEF driveVars, Queue
<1>4. CASE CloseStart
  BY <1>1, <1>4, CloseStartShape
<1>5. CASE \E n \in 0..MaxSends : SendStart(n)
  BY <1>1, <1>5, SendStartShape
<1> QED
  BY <1>1, <1>2, <1>3, <1>4, <1>5, CallsQueue

LEMMA CallsKeys ==
  ASSUME ConnInv, KeyShape, Calls
  PROVE  KeyShape'
<1>1. /\ Rest' = {} /\ hs' = hs /\ rt'.keys = rt.keys
  BY CallsKeep
<1>2. keySched' = keySched
  BY CallsCalled DEF Called, vars, coreVars, flightVars, ConnInv
<1>3. HsKey' = HsKey /\ KeyDue' = KeyDue
  BY <1>1, <1>2 DEF HsKey, KeyDue
<1>4. \A i \in 1..Len(Queue') :
        Queue'[i].ev # "cryptoResult" \/ (Queue' = Queue)
  BY CallsNoAnswer
<1> QED
  BY <1>1, <1>2, <1>3, <1>4 DEF KeyShape

LEMMA ProtectedAdded ==
  ASSUME RuntimeType, FlightProtected, NEW units, Adds(units),
         \A i \in 1..Len(units) :
           units[i].rec = "flight" /\ units[i].msg # "ServerHello" =>
             units[i].protected
  PROVE  FlightProtected'
<1>1. units \in Seq(Unit) /\ Written' = Written \o units
      /\ Written \in Seq(Unit)
  BY WrittenType DEF Adds
<1> PICK n : n = Len(Written)
  OBVIOUS
<1>2. n \in Nat /\ Len(units) \in Nat /\ Len(Written') = n + Len(units)
  BY <1>1
<1>3. \A i \in 1..Len(Written') :
        Written'[i] = IF i <= n THEN Written[i] ELSE units[i - n]
  BY <1>1
<1>4. ASSUME NEW i \in 1..Len(Written'), Written'[i].rec = "flight",
             Written'[i].msg # "ServerHello"
      PROVE  Written'[i].protected
  <2>1. CASE i <= n
    <3>1. i \in 1..n /\ Written'[i] = Written[i]
      BY <1>2, <1>3, <2>1
    <3> QED
      BY <1>4, <3>1 DEF FlightProtected
  <2>2. CASE ~(i <= n)
    <3>1. i - n \in 1..Len(units) /\ Written'[i] = units[i - n]
      BY <1>2, <1>3, <2>2
    <3> QED
      BY <1>4, <3>1
  <2> QED
    BY <2>1, <2>2
<1> QED
  BY <1>4 DEF FlightProtected

LEMMA SealedNoFlight ==
  ASSUME NEW op \in CryptoOp, op.kind = "aeadSeal"
  PROVE  \A i \in 1..Len(SealedUnits(op)) : SealedUnits(op)[i].rec # "flight"
<1>1. op.inner \in Inner
  BY DEF CryptoOp
<1>2. op.inner.ctype # "flight"
  BY <1>1 DEF Inner
<1>3. CASE op.inner.ctype = "applicationData"
  BY <1>3, SealedTypes
<1>4. CASE op.inner.ctype # "applicationData"
  <2> DEFINE u == [rec |-> op.inner.ctype, epoch |-> op.epoch, seq |-> op.seq]
  <2>1. SealedUnits(op) = <<u>> \o <<>>
    BY <1>4, Zenon DEF SealedUnits, RecordUnit
  <2>2. u.rec # "flight"
    BY <1>2
  <2> HIDE DEF u
  <2>3. Len(SealedUnits(op)) = 1 /\ SealedUnits(op)[1] = u
    BY <2>1
  <2> QED
    BY <2>2, <2>3
<1> QED
  BY <1>3, <1>4

LEMMA ExecProtected ==
  ASSUME ConnInv, ChainShape, KeyShape, FlightProtected, Execute,
         OversizeCertificate = FALSE
  PROVE  FlightProtected'
<1>1. RuntimeType /\ rt \in Runtime /\ ConnType
      /\ Current = out[performed + 1] /\ performed + 1 \in Rest
      /\ Current \in OutputAction
  BY ExecBase DEF ConnInv, ConnType
<1>2. CASE WriteFlight
  <2> PICK protected : protected = (Current.epoch = "handshake" /\ HsKey)
    OBVIOUS
  <2>1. Current.act = "writeHandshake"
        /\ Drain(rt.outbound \o FlightUnit(Current.msg, protected))
    BY <1>2 DEF WriteFlight, Perform, HsKey
  <2>2. protected \in BOOLEAN /\ Current.msg \in ServerMessage
    BY <1>1, <2>1, ActionFields
  <2>3. FlightUnit(Current.msg, protected) \in Seq(Unit)
    BY <2>2 DEF FlightUnit, Unit
  <2>4. Adds(FlightUnit(Current.msg, protected))
    BY <1>1, <2>1, <2>3, DrainAdds
  <2>5. Current.msg = "ServerHello" \/ protected
    BY <1>1, <2>1 DEF KeyShape
  <2>6. \A i \in 1..Len(FlightUnit(Current.msg, protected)) :
          /\ FlightUnit(Current.msg, protected)[i].msg = Current.msg
          /\ FlightUnit(Current.msg, protected)[i].protected = protected
    BY DEF FlightUnit
  <2> QED
    BY <1>1, <2>4, <2>5, <2>6, ProtectedAdded
<1>3. CASE WriteSealed
  <2> PICK op : op = answered[1].op
    OBVIOUS
  <2>1. Adds(SealedUnits(op)) /\ op \in CryptoOp /\ op.kind = "aeadSeal"
    BY <1>1, <1>3, WriteSealedAdds
  <2> QED
    BY <1>1, <2>1, SealedNoFlight, ProtectedAdded
<1>4. CASE ~WriteFlight /\ ~WriteSealed
  <2>1. Current.act \notin {"writeHandshake", "writeTransport"}
    <3> USE DEF Perform
    <3>1. CASE ReadBytes \/ ReadNothing \/ ReadEnd \/ WriteAlertRecord
      BY <3>1 DEF ReadBytes, ReadNothing, ReadEnd, WriteAlertRecord
    <3>2. CASE ProviderSucceeds \/ ProviderFails \/ ProviderMisanswers
      BY <3>2 DEF ProviderSucceeds, ProviderFails, ProviderMisanswers
    <3>3. CASE Plaintext \/ Report \/ CloseConnection
      BY <3>3 DEF Plaintext, Report, CloseConnection
    <3> QED
      BY <1>4, <3>1, <3>2, <3>3 DEF Execute
  <2>2. Writes
    BY ExecWrites
  <2>3. \/ UNCHANGED wire /\ rt'.outbound = rt.outbound
        \/ Adds(RecordUnit("fatalAlert", Current.epoch, Current.seq))
    BY <2>1, <2>2 DEF Writes
  <2>4. CASE UNCHANGED wire /\ rt'.outbound = rt.outbound
    BY <2>4 DEF FlightProtected, Written
  <2>5. CASE Adds(RecordUnit("fatalAlert", Current.epoch, Current.seq))
    <3>1. \A i \in 1..Len(RecordUnit("fatalAlert", Current.epoch,
                                     Current.seq)) :
            RecordUnit("fatalAlert", Current.epoch, Current.seq)[i].rec
              # "flight"
      BY DEF RecordUnit
    <3> QED
      BY <1>1, <2>5, <3>1, ProtectedAdded
  <2> QED
    BY <2>3, <2>4, <2>5
<1> QED
  BY <1>2, <1>3, <1>4

FlightKeyInv ==
  /\ ConnInv
  /\ ChainShape /\ CallsShape /\ EarlyShape
  /\ KeyShape /\ FlightProtected

LEMMA InitKeys == ConnInit => FlightKeyInv
<1> SUFFICES ASSUME ConnInit
             PROVE  FlightKeyInv
  OBVIOUS
<1>1. ConnInv /\ ChainShape /\ CallsShape /\ EarlyShape
  BY InitSeal DEF SealInv
<1>2. /\ out = <<>> /\ events = <<>> /\ followUps = <<>> /\ performed = 0
      /\ wire = <<>> /\ rt.outbound = <<>> /\ hs = "start"
  BY DEF ConnInit, Init
<1>3. Rest = {}
  BY <1>2 DEF Rest
<1>4. Queue = <<>>
  BY <1>2 DEF Queue
<1>5. Written = <<>>
  BY <1>2 DEF Written
<1> QED
  BY <1>1, <1>2, <1>3, <1>4, <1>5 DEF FlightKeyInv, KeyShape, FlightProtected

LEMMA FlightKeyStep ==
  ASSUME OversizeCertificate = FALSE
  PROVE  FlightKeyInv /\ [ConnNext]_connVars => FlightKeyInv'
<1> SUFFICES ASSUME FlightKeyInv, [ConnNext]_connVars
             PROVE  FlightKeyInv'
  OBVIOUS
<1> USE DEF FlightKeyInv
<1>1. ConnInv'
  BY ConnInvStep
<1>2. CASE Step
  <2>1. FlightProtected'
    BY <1>2, StepFacts DEF FlightProtected
  <2> QED
    BY <1>1, <1>2, <2>1, StepChain, StepKeys
<1>3. CASE Execute
  BY <1>1, <1>3, ExecChain, ExecKeys, ExecProtected
<1>4. CASE Calls
  <2>1. FlightProtected'
    BY <1>4, CallsKeep DEF FlightProtected
  <2> QED
    BY <1>1, <1>4, <2>1, CallsChain, CallsKeys
<1>5. CASE UNCHANGED connVars
  <2>1. /\ UNCHANGED <<hs, out, writeEpoch, pendingOps, keySched, call>>
        /\ UNCHANGED <<events, followUps, performed, fuel, rt, wire>>
    BY <1>5
    DEF connVars, vars, coreVars, epochVars, opVars, flightVars, driveVars,
        wireVars
  <2>2. /\ Queue' = Queue /\ Rest' = Rest /\ Written' = Written
        /\ Performed' = Performed
    BY <2>1 DEF Queue, Rest, Written, Performed
  <2>3. ChainShape' /\ CallsShape' /\ EarlyShape'
    BY <2>1, <2>2
    DEF ChainShape, CallsShape, EarlyShape, Early, SealToWrite, Live,
        Terminal, Outstands
  <2>4. KeyShape' /\ FlightProtected'
    BY <2>1, <2>2 DEF KeyShape, KeyDue, HsKey, FlightProtected
  <2> QED
    BY <1>1, <2>3, <2>4
<1> QED
  BY <1>2, <1>3, <1>4, <1>5 DEF ConnNext

\* Every message of the flight behind the ServerHello is encrypted: the core
\* asks for the handshake write key and has its answer before it writes the
\* next message, and a runtime that has lost the key makes no further call.  A
\* certificate too large for a record breaks this, so it is excluded.
THEOREM ProtectedCorrect ==
  ASSUME OversizeCertificate = FALSE
  PROVE  ConnSpec => []FlightProtected
<1>1. FlightKeyInv => FlightProtected
  BY DEF FlightKeyInv
<1> QED
  BY <1>1, InitKeys, FlightKeyStep, PTL DEF ConnSpec

-----------------------------------------------------------------------------
(* Secrets under a core that goes on.  An answer of the wrong kind and a   *)
(* certificate too large for a record end the runtime alone: the keys are  *)
(* gone and the core does not know.                                        *)

\* The runtime has ended, and not for a transport that broke.
Gone == rt.terminal /\ rt.lastError # "transport"

Signs(op) == op.kind = "signCertificateVerify"

\* Calls that bring no key back: they fail for the key they resolve, or they
\* sign, and the signature only leads to a call that fails.
Barren(op) == Signs(op) \/ Resolves(op) # {}

OkAnswer(e) == e.ev = "cryptoResult" /\ e.ok

Certifies(action) ==
  action.act = "writeHandshake" /\ action.msg = "Certificate"

\* A step that asks for something or ends the connection leaves no start; the
\* signature is asked for with the Certificate; and once the secrets are gone
\* all that is asked for and all that is answered is barren.
DropShape ==
  /\ \A i \in Rest :
       out[i].act \in {"callCrypto", "writeHandshake"} \cup Dropping =>
         hs # "start"
  /\ \A i \in Rest : out[i].act \in Dropping =>
       /\ \A j \in Rest : out[j].act # "callCrypto"
       /\ \A j \in 1..Len(Queue) : ~OkAnswer(Queue[j])
  /\ \A i \in Rest : Certifies(out[i]) =>
       /\ Len(out) \in Rest /\ out[Len(out)].act = "callCrypto"
       /\ Signs(out[Len(out)].op)
  /\ Gone =>
       /\ rt.keys = {} /\ hs # "start"
       /\ \A i \in Rest : out[i].act = "callCrypto" => Barren(out[i].op)
       /\ \A i \in 1..Len(Queue) : OkAnswer(Queue[i]) => Signs(Queue[i].call.op)

CertifiesSigned(acts) ==
  \A i \in 1..Len(acts) : Certifies(acts[i]) =>
    acts[Len(acts)].act = "callCrypto" /\ Signs(acts[Len(acts)].op)

BarrenCalls(acts) ==
  \A i \in 1..Len(acts) : acts[i].act = "callCrypto" => Barren(acts[i].op)

NoCertificate(acts) == \A i \in 1..Len(acts) : ~Certifies(acts[i])

LEMMA QuietActions ==
  /\ Fail => BarrenCalls(out') /\ NoCertificate(out')
  /\ Ignore => BarrenCalls(out') /\ NoCertificate(out')
  /\ \A a \in Alert : OnInboundAlert(a) =>
       BarrenCalls(out') /\ NoCertificate(out')
<1>1. Fail => BarrenCalls(out') /\ NoCertificate(out')
  BY DEF Fail, WriteAlert, Act, BarrenCalls, NoCertificate, Certifies
<1>2. Ignore => BarrenCalls(out') /\ NoCertificate(out')
  BY DEF Ignore, MoveTo, BarrenCalls, NoCertificate
<1>3. ASSUME NEW a \in Alert, OnInboundAlert(a)
      PROVE  BarrenCalls(out') /\ NoCertificate(out')
  <2>1. Fail \/ \E mode : out' = <<CloseTransport(mode)>>
    BY <1>3 DEF OnInboundAlert, Alert
  <2> QED
    BY <1>1, <2>1
    DEF CloseTransport, BarrenCalls, NoCertificate, Certifies
<1> QED
  BY <1>1, <1>2, <1>3

\* A handler that calls the provider, with nothing, or one message that is not
\* the Certificate, written before.
LEMMA AskingActions ==
  ASSUME NEW ops, NEW op, NEW epoch, NEW dir, NEW phase, NEW writes,
         AllocOrFail(ops, op, epoch, dir, phase, writes),
         writes = <<>> \/ \E a : writes = <<a>> /\ ~Certifies(a)
                                 /\ a.act = "writeHandshake"
  PROVE  NoCertificate(out') /\ (Barren(op) => BarrenCalls(out'))
<1>1. CASE Fail
  BY <1>1, QuietActions
<1>2. CASE out' = Append(writes, CallCrypto(nextOpId, op))
  BY <1>2 DEF CallCrypto, NoCertificate, Certifies, BarrenCalls
<1> QED
  BY <1>1, <1>2 DEF AllocOrFail, MoveTo

\* What an inbound handshake message makes the core ask for.
LEMMA MessageActions ==
  ASSUME NEW m, NEW charged, NEW ops, OnHandshakeMessage(m, charged, ops)
  PROVE  NoCertificate(out') /\ (hs = "start" \/ BarrenCalls(out'))
<1>1. CASE hs = "start" /\ OnClientHello(m, charged, ops)
  BY <1>1, QuietActions, AskingActions DEF OnClientHello
<1>2. CASE OnClientFinishedBytes(m, charged, ops)
  <2> DEFINE op == [kind |-> "verifyFinished", prefix |-> transcript,
                    msg |-> m]
  <2>1. Resolves(op) # {}
    BY DEF Resolves
  <2>2. AllocOrFail(ops, op, "application", "read",
          "requestedClientFinishedVerify", <<>>)
    BY <1>2 DEF OnClientFinishedBytes
  <2> HIDE DEF op
  <2> QED
    BY <2>1, <2>2, AskingActions DEF Barren
<1>3. CASE Ignore
  BY <1>3, QuietActions
<1> QED
  BY <1>1, <1>2, <1>3 DEF OnHandshakeMessage

LEMMA NoneSigned ==
  ASSUME NoCertificate(out')
  PROVE  CertifiesSigned(out')
BY DEF NoCertificate, CertifiesSigned

\* The steps of the flight: only the signature is asked for behind the
\* Certificate, and the answer to it leads to a call under a key.
LEMMA GatingActions ==
  ASSUME NEW id, NEW answer, GatingResult(id, answer)
  PROVE  /\ CertifiesSigned(out')
         /\ answer = "signature" => BarrenCalls(out')
<1> DEFINE ops == Without(id)
<1> HIDE DEF ops
<1>1. CASE Fail \/ Ignore \/ out' = <<>>
  BY <1>1, QuietActions, NoneSigned DEF BarrenCalls, NoCertificate
<1>2. CASE answer = "randomBytes" /\ OnServerRandomDone(ops)
  BY <1>2, AskingActions, NoneSigned DEF OnServerRandomDone
<1>3. CASE answer = "ecdheComplete" /\ OnEcdheDone(ops)
  <2>1. ~Certifies(WriteHandshake("initial", 0, "ServerHello"))
        /\ WriteHandshake("initial", 0, "ServerHello").act = "writeHandshake"
    BY DEF Certifies, WriteHandshake
  <2> QED
    BY <1>3, <2>1, AskingActions, NoneSigned DEF OnEcdheDone
<1>4. ASSUME NEW ks, NEW epoch, PumpSchedule(ops, ks, epoch)
      PROVE  CertifiesSigned(out')
  BY <1>4, AskingActions, NoneSigned DEF PumpSchedule
<1>5. CASE answer # "signature" /\ OnHsScheduleResult(ops, answer)
  <2>1. ASSUME NEW op, NEW a, NEW b, Signs(op), NEW phase,
               AllocOrFail(ops, op, "handshake", "write", phase, <<a, b>>)
        PROVE  CertifiesSigned(out')
    <3>1. CASE Fail
      BY <1>1, <3>1
    <3>2. CASE out' = Append(<<a, b>>, CallCrypto(nextOpId, op))
      <4>1. Len(out') = 3 /\ out'[3] = CallCrypto(nextOpId, op)
        BY <3>2
      <4> QED
        BY <2>1, <4>1 DEF CallCrypto, CertifiesSigned
    <3> QED
      BY <2>1, <3>1, <3>2 DEF AllocOrFail, MoveTo
  <2>2. \A th : Signs(PlainOp("signCertificateVerify", th))
    BY DEF Signs, PlainOp
  <2> QED
    BY <1>1, <1>4, <1>5, <2>1, <2>2 DEF OnHsScheduleResult, ScheduleError
<1>6. CASE OnCertVerifySigned(ops)
  <2> DEFINE a == WriteHandshake("handshake", 2, "CertificateVerify")
             op == PlainOp("computeServerFinished",
                           Append(transcript, "CertificateVerify"))
  <2>1. ~Certifies(a) /\ a.act = "writeHandshake"
    BY DEF Certifies, WriteHandshake
  <2>2. Barren(op)
    BY DEF Barren, Resolves, PlainOp
  <2>3. AllocOrFail(ops, op, "handshake", "write",
                    "requestedServerFinishedMac", <<a>>)
    BY <1>6 DEF OnCertVerifySigned
  <2> HIDE DEF a, op
  <2> QED
    BY <2>1, <2>2, <2>3, AskingActions, NoneSigned
<1>7. CASE answer # "signature" /\ OnServerFinishedMac(ops)
  <2>1. ~Certifies(WriteHandshake("handshake", 3, "ServerFinished"))
        /\ WriteHandshake("handshake", 3, "ServerFinished").act
             = "writeHandshake"
    BY DEF Certifies, WriteHandshake
  <2> QED
    BY <1>1, <1>7, <2>1, AskingActions, NoneSigned
    DEF OnServerFinishedMac, ScheduleError
<1>8. CASE answer # "signature" /\ OnApScheduleResult(ops, answer)
  BY <1>1, <1>4, <1>8 DEF OnApScheduleResult, ScheduleError, MoveTo
<1>9. CASE answer # "signature" /\ OnClientFinishedVerified(ops)
  BY <1>9, NoneSigned
  DEF OnClientFinishedVerified, MoveTo, Act, NoCertificate, Certifies
<1> QED
  BY <1>1, <1>2, <1>3, <1>5, <1>6, <1>7, <1>8, <1>9 DEF GatingResult, ops

LEMMA EventActions ==
  ASSUME TypeOK, NEW e \in AnEvent, Handle(e)
  PROVE  /\ CertifiesSigned(out')
         /\ \/ BarrenCalls(out') \/ hs = "start"
            \/ OkAnswer(e) /\ ~Signs(e.call.op)
<1> DEFINE Quietly == BarrenCalls(out') /\ NoCertificate(out')
<1>0. \A i \in Inner : i.ctype = "alert" => i.alert \in Alert
  BY InnerFields
<1>a. \A op : op.kind = "aeadSeal" => Barren(op)
  BY DEF Barren, Resolves
<1>1. CASE Absorb \/ AppRecv \/ Writable \/ TransportReadable
           \/ TransportEof \/ Timeout
  <2>1. Quietly
    BY <1>1, QuietActions
    DEF Absorb, AppRecv, EmitPlaintext, Writable, TransportReadable,
        TransportEof, Timeout, MoveTo, Act, BarrenCalls, NoCertificate,
        Certifies
  <2> QED
    BY <2>1, NoneSigned
<1>2. CASE e.ev = "appSend" /\ AppSend(e.plain)
  <2>1. \/ Fail
        \/ \E op, n : /\ op.kind = "aeadSeal"
                      /\ out' = <<CallCrypto(nextOpId, op), AcceptPlaintext(n)>>
    BY <1>2 DEF AppSend, MoveTo
  <2>2. ASSUME NEW op, NEW n, op.kind = "aeadSeal",
               out' = <<CallCrypto(nextOpId, op), AcceptPlaintext(n)>>
        PROVE  Quietly
    <3>1. /\ Len(out') = 2 /\ out'[1] = CallCrypto(nextOpId, op)
          /\ out'[2] = AcceptPlaintext(n)
      BY <2>2
    <3> QED
      BY <1>a, <2>2, <3>1
      DEF CallCrypto, AcceptPlaintext, BarrenCalls, NoCertificate, Certifies
  <2> QED
    BY <2>1, <2>2, QuietActions, NoneSigned
<1>3. CASE e.ev = "appClose" /\ AppClose(e.mode)
  <2>1. CASE AppCloseGraceful
    <3>1. \/ Fail
          \/ \E op : op.kind = "aeadSeal" /\ out' = <<CallCrypto(nextOpId, op)>>
          \/ out' = <<CloseTransport("graceful")>>
      BY <2>1 DEF AppCloseGraceful
    <3>2. ASSUME NEW op, op.kind = "aeadSeal",
                 out' = <<CallCrypto(nextOpId, op)>>
          PROVE  Quietly
      <4>1. Len(out') = 1 /\ out'[1] = CallCrypto(nextOpId, op)
        BY <3>2
      <4> QED
        BY <1>a, <3>2, <4>1
        DEF CallCrypto, BarrenCalls, NoCertificate, Certifies
    <3>3. out' = <<CloseTransport("graceful")>> => Quietly
      BY DEF CloseTransport, BarrenCalls, NoCertificate, Certifies
    <3> QED
      BY <3>1, <3>2, <3>3, QuietActions, NoneSigned
  <2>2. CASE AppCloseFatal \/ AppCloseAbortive \/ AppCloseAgain(e.mode)
    <3>1. Quietly
      BY <2>2
      DEF AppCloseFatal, AppCloseAbortive, AppCloseAgain, MoveTo, WriteAlert,
          Act, CloseTransport, BarrenCalls, NoCertificate, Certifies
    <3> QED
      BY <3>1, NoneSigned
  <2> QED
    BY <1>3, <2>1, <2>2 DEF AppClose
<1>4. CASE e.ev = "transportBytes" /\ TransportBytes(e.recs)
  <2> DEFINE all == inbound \o e.recs
  <2>0. all \in Seq(Record)
    BY <1>4, EventFields DEF TypeOK
  <2>1. CASE NeedMoreBytes(e.recs) \/ CcsRecord(e.recs)
             \/ InvalidRecord(e.recs)
    <3>1. Quietly
      BY <2>1, QuietActions
      DEF NeedMoreBytes, CcsRecord, InvalidRecord, MoveTo, Act, BarrenCalls,
          NoCertificate, Certifies
    <3> QED
      BY <3>1, NoneSigned
  <2>2. CASE AlertRecord(e.recs)
    <3>1. /\ all # <<>> /\ Head(all).outer = "alert"
          /\ OnInboundAlert(Head(all).alert)
      BY <2>2 DEF AlertRecord, Framed
    <3> HIDE DEF all
    <3>2. Head(all) \in Record
      BY <2>0, <3>1
    <3>3. Head(all).alert \in Alert
      BY <3>1, <3>2, RecordFields
    <3> QED
      BY <3>1, <3>3, QuietActions, NoneSigned
  <2>3. CASE ProtectedRecord(e.recs)
    <3>1. \/ Ignore
          \/ \E op, epoch : /\ op.kind = "aeadOpen"
                            /\ AllocOrFail(pendingOps, op, epoch, "read", hs,
                                           <<>>)
      <4> DEFINE op == [kind |-> "aeadOpen", epoch |-> readEpoch.epoch,
                        seq |-> readEpoch.seq, body |-> Head(all).body]
      <4>1. op.kind = "aeadOpen"
        OBVIOUS
      <4> QED
        BY <2>3, <4>1 DEF ProtectedRecord
    <3>2. \A op : op.kind = "aeadOpen" => Barren(op)
      BY DEF Barren, Resolves
    <3> QED
      BY <3>1, <3>2, QuietActions, AskingActions, NoneSigned
  <2>4. CASE HandshakeRecord(e.recs)
    <3>1. \/ \E m, charged, ops : OnHandshakeMessage(m, charged, ops)
          \/ Fail \/ MoveTo(hs, <<Act("readTransport")>>)
      BY <2>4 DEF HandshakeRecord
    <3>2. MoveTo(hs, <<Act("readTransport")>>) => Quietly
      BY DEF MoveTo, Act, BarrenCalls, NoCertificate, Certifies
    <3> QED
      BY <3>1, <3>2, MessageActions, QuietActions, NoneSigned
  <2> QED
    BY <1>4, <2>1, <2>2, <2>3, <2>4 DEF TransportBytes
<1>5. CASE CryptoFailed(e.call.id) \/ DroppedResult(e.call.id)
  BY <1>5, QuietActions, NoneSigned DEF CryptoFailed, DroppedResult
<1>6. CASE e.ev = "cryptoResult" /\ e.ok /\ Succeeds(e.call)
  <2>1. e.call \in Request /\ e.call.op \in CryptoOp
    BY <1>6, EventFields DEF Request
  <2>2. CASE \E answer : GatingResult(e.call.id, answer)
                         /\ answer = AnswerTo(e.call.op.kind)
    <3>1. Signs(e.call.op) => AnswerTo(e.call.op.kind) = "signature"
      BY DEF Signs, AnswerTo
    <3> QED
      BY <1>6, <2>2, <3>1, GatingActions DEF OkAnswer
  <2>3. CASE AeadSealed(e.call.id)
    <3>1. Quietly
      BY <2>3
      DEF AeadSealed, MoveTo, WriteTransport, CloseTransport, BarrenCalls,
          NoCertificate, Certifies
    <3> QED
      BY <3>1, NoneSigned
  <2>4. ASSUME NEW inner \in Inner, AeadOpened(e.call.id, inner)
        PROVE  NoCertificate(out') /\ (hs = "start" \/ BarrenCalls(out'))
    <3>1. CASE AeadOpenedConnected(e.call.id, inner)
      BY <1>0, <3>1, QuietActions
      DEF AeadOpenedConnected, BarrenCalls, NoCertificate
    <3>2. CASE AeadOpenedHandshake(e.call.id, inner)
      BY <1>0, <3>2, QuietActions, MessageActions DEF AeadOpenedHandshake
    <3> QED
      BY <2>4, <3>1, <3>2 DEF AeadOpened
  <2>5. e.call.op.kind = "aeadOpen" => e.call.op.body.inner \in Inner
    <3>1. e.call.op.kind = "aeadOpen" => e.call.op.body \in Sealed
      BY <2>1 DEF CryptoOp
    <3> QED
      BY <3>1, SealedAssumption
  <2>6. AnswerTo("verifyFinished") = "verified"
    BY DEF AnswerTo
  <2> QED
    BY <1>6, <2>2, <2>3, <2>4, <2>5, <2>6, NoneSigned DEF Succeeds
<1> QED
  BY <1>1, <1>2, <1>3, <1>4, <1>5, <1>6 DEF Handle

LEMMA StepDrop ==
  ASSUME ConnInv, ChainShape, DropShape, Step
  PROVE  DropShape'
<1> PICK e : e = Queue[1]
  OBVIOUS
<1>1. /\ Len(Queue) = 1 /\ e \in AnEvent /\ Handle(e)
      /\ Queue' = <<>> /\ Rest' = 1..Len(out') /\ rt' = rt
      /\ out' \in Seq(OutputAction) /\ CoreStep /\ CoreInv /\ CoreInv'
  BY StepFacts
<1>2. Absorb \/ \E ops \in SUBSET pendingOps : Concludes(ops)
  BY <1>1, CoreStepConcludes DEF CoreInv
<1>3. \A i \in 1..Len(out') :
        out'[i].act \in {"callCrypto", "writeHandshake"} \cup Dropping =>
          hs' # "start"
  <2>1. CASE Absorb
    BY <2>1 DEF Absorb
  <2>2. ASSUME NEW ops \in SUBSET pendingOps, Asks(ops)
        PROVE  hs' # "start"
    <3>1. PICK kind, epoch, dir : Allocate(ops, kind, epoch, dir)
      BY <2>2 DEF Asks
    <3>2. pendingOps' # {}
      BY <3>1 DEF Allocate
    <3> QED
      BY <1>1, <3>2 DEF CoreInv, FlightShape, OpsShape
  <2>3. ASSUME NEW ops, Stops \/ Keeps(ops)
        PROVE  \A i \in 1..Len(out') :
                 out'[i].act \in {"callCrypto", "writeHandshake"} \cup Dropping
                   => hs' # "start"
    BY <2>3 DEF Stops, Keeps, Dropping, Ending, TerminalPhase
  <2> QED
    BY <1>2, <2>1, <2>2, <2>3 DEF Concludes
<1>4. \A i \in 1..Len(out') : out'[i].act \in Dropping =>
        \A j \in 1..Len(out') : out'[j].act # "callCrypto"
  <2>1. CASE Absorb
    BY <2>1 DEF Absorb
  <2>2. CASE Stops
    BY <2>2 DEF Stops, WriteAlert
  <2>3. ASSUME NEW ops, Keeps(ops)
        PROVE  \A j \in 1..Len(out') : out'[j].act # "callCrypto"
    BY <2>3 DEF Keeps
  <2>4. ASSUME NEW ops, Asks(ops)
        PROVE  \A i \in 1..Len(out') : out'[i].act \notin Dropping
    <3>1. PICK op \in CryptoOp, n \in 1..Len(out') :
            /\ out'[n] = CallCrypto(nextOpId, op)
            /\ \A i \in (1..Len(out')) \ {n} :
                 \/ out'[i].act = "writeHandshake"
                 \/ out'[i].act = "acceptPlaintextBytes"
      BY <2>4 DEF Asks, FlightRecord
    <3> QED
      BY <3>1 DEF CallCrypto, Dropping
  <2> QED
    BY <1>2, <2>1, <2>2, <2>3, <2>4 DEF Concludes
<1>5. CertifiesSigned(out')
      /\ \/ BarrenCalls(out') \/ hs = "start"
         \/ OkAnswer(e) /\ ~Signs(e.call.op)
  BY <1>1, EventActions DEF CoreInv
<1>6. \A i \in 1..Len(out') : Certifies(out'[i]) =>
        /\ Len(out') \in 1..Len(out') /\ out'[Len(out')].act = "callCrypto"
        /\ Signs(out'[Len(out')].op)
  BY <1>1, <1>5 DEF CertifiesSigned
<1>7. ASSUME Gone
      PROVE  rt'.keys = {} /\ hs' # "start" /\ BarrenCalls(out')
  <2>1. rt.keys = {} /\ hs # "start" /\ (OkAnswer(e) => Signs(e.call.op))
    BY <1>1, <1>7 DEF DropShape
  <2>2. hs' # "start"
    <3>1. Moves
      BY <1>1, CoreStepMoves DEF CoreInv
    <3> QED
      BY <2>1, <3>1, Order DEF Moves, Stays, Forward, Ends, FlightOrder
  <2> QED
    BY <1>1, <1>5, <2>1, <2>2
<1>8. Gone' = Gone
  BY <1>1 DEF Gone
<1> QED
  BY <1>1, <1>3, <1>4, <1>6, <1>7, <1>8 DEF DropShape, BarrenCalls

\* A transport that takes its part, or none, ends nothing, and one that breaks
\* leaves its mark.
LEMMA DrainGone ==
  ASSUME RuntimeType, NEW queue, Drain(queue)
  PROVE  rt'.keys = rt.keys /\ (Gone' => Gone)
<1>1. rt \in Runtime
  BY DEF RuntimeType
<1>2. PICK n \in 0..Len(queue), broken \in BOOLEAN :
        rt' = [rt EXCEPT !.outbound = SubSeq(queue, n + 1, Len(queue)),
                         !.lastError = IF broken THEN "transport" ELSE @,
                         !.terminal = @ \/ broken]
  BY DEF Drain
<1> DEFINE rest == SubSeq(queue, n + 1, Len(queue))
<1> HIDE DEF rest
<1>3. rt' = [rt EXCEPT !.outbound = rest,
                       !.lastError = IF broken THEN "transport" ELSE @,
                       !.terminal = @ \/ broken]
  BY <1>2 DEF rest
<1>4. /\ rt'.keys = rt.keys
      /\ rt'.lastError = IF broken THEN "transport" ELSE rt.lastError
      /\ rt'.terminal = (rt.terminal \/ broken)
  BY <1>1, <1>3 DEF Runtime
<1> QED
  BY <1>4 DEF Gone

\* What an action does to the secrets and to a runtime that has ended.
DropMoves ==
  \/ /\ Current.act # "callCrypto"
     /\ Gone' => Gone /\ rt'.keys = rt.keys
  \/ /\ Current.act \in Dropping \/ Certifies(Current)
     /\ rt'.keys = {}
  \/ /\ Current.act = "callCrypto"
     /\ \/ followUps' = followUps /\ rt'.keys = {}
        \/ /\ Gone' = Gone /\ Resolves(Current.op) \subseteq rt.keys
           /\ rt'.keys = rt.keys \cup Installs(Current.op)
        \/ /\ rt' = rt
           /\ \E e : Raise(e) /\ ~e.ok

LEMMA ExecDropMoves ==
  ASSUME ConnInv, Execute
  PROVE  DropMoves
<1> USE DEF Perform, DropMoves
<1>1. RuntimeType /\ rt \in Runtime
  BY DEF ConnInv, ConnType, RuntimeType
<1>2. CASE ReadBytes \/ ReadNothing
  BY <1>2 DEF ReadBytes, ReadNothing, Gone
<1>3. CASE ReadEnd
  <2>1. PICK error \in {rt.lastError, "transport"} :
          rt' = [rt EXCEPT !.lastError = error]
    BY <1>3 DEF ReadEnd
  <2>2. /\ rt'.lastError = error /\ rt'.terminal = rt.terminal
        /\ rt'.keys = rt.keys
    BY <1>1, <2>1 DEF Runtime
  <2> QED
    BY <1>3, <2>1, <2>2 DEF ReadEnd, Gone
<1>4. CASE WriteSealed
  BY <1>1, <1>4, DrainGone DEF WriteSealed
<1>5. CASE WriteFlight
  <2>1. Current.act = "writeHandshake"
    BY <1>5 DEF WriteFlight
  <2>2. \/ Certifies(Current) /\ rt' = Terminate(rt, "other")
        \/ \E queue : Drain(queue)
    BY <1>5, <2>1 DEF WriteFlight, Certifies
  <2> QED
    BY <1>1, <2>1, <2>2, TerminateType, DrainGone
<1>6. CASE WriteAlertRecord
  <2>1. Current.act = "writeAlert" /\ (rt' = rt \/ \E queue : Drain(queue))
    BY <1>6 DEF WriteAlertRecord
  <2> QED
    BY <1>1, <2>1, DrainGone DEF Gone
<1>7. CASE ProviderSucceeds
  <2> DEFINE keys == rt.keys \cup Installs(Current.op)
  <2>1. /\ rt' = [rt EXCEPT !.keys = keys] /\ Current.act = "callCrypto"
        /\ Resolves(Current.op) \subseteq rt.keys
    BY <1>7 DEF ProviderSucceeds
  <2> HIDE DEF keys
  <2>2. /\ rt'.keys = keys /\ rt'.terminal = rt.terminal
        /\ rt'.lastError = rt.lastError
    BY <1>1, <2>1 DEF Runtime
  <2> QED
    BY <2>1, <2>2 DEF keys, Gone
<1>8. CASE ProviderFails
  <2> DEFINE e == [ev |-> "cryptoResult", call |-> ProviderCall, ok |-> FALSE]
  <2>1. Raise(e) /\ ~e.ok /\ Current.act = "callCrypto" /\ rt' = rt
    BY <1>8 DEF ProviderFails
  <2> HIDE DEF e
  <2> QED
    BY <2>1
<1>9. CASE ProviderMisanswers
  BY <1>1, <1>9, TerminateType DEF ProviderMisanswers
<1>10. CASE Plaintext
  <2>1. /\ Current.act \in {"emitPlaintext", "acceptPlaintextBytes"}
        /\ \E x, y : \/ rt' = [rt EXCEPT !.plaintextOut = x]
                     \/ rt' = [rt EXCEPT !.acceptedBytes = y]
    BY <1>10 DEF Plaintext
  <2>2. /\ rt'.keys = rt.keys /\ rt'.terminal = rt.terminal
        /\ rt'.lastError = rt.lastError
    BY <1>1, <2>1 DEF Runtime
  <2> QED
    BY <2>1, <2>2 DEF Gone
<1>11. CASE Report \/ CloseConnection
  BY <1>1, <1>11, TerminateType DEF Report, CloseConnection, Dropping, Gone
<1> QED
  BY <1>2, <1>3, <1>4, <1>5, <1>6, <1>7, <1>8, <1>9, <1>10, <1>11 DEF Execute

LEMMA ExecDrop ==
  ASSUME ConnInv, ChainShape, DropShape, Execute
  PROVE  DropShape'
<1> PICK p : p = performed + 1
  OBVIOUS
<1>1. /\ Current = out[p] /\ p \in Rest /\ Rest' = Rest \ {p}
      /\ UNCHANGED <<hs, out>>
  BY ExecBase
<1>2. DropMoves
  BY ExecDropMoves
<1>3. \/ Queue' = Queue
      \/ /\ Raises(Current) /\ Queue = <<>>
         /\ \E e : Queue' = <<e>> /\ Raised(e)
  BY ExecQueue
<1>4. Raises(Current) =>
        Queue = <<>> /\ \A j \in Rest' : ~Raises(out[j])
  BY <1>1 DEF ChainShape
<1>5. ASSUME NEW i \in 1..Len(Queue'), OkAnswer(Queue'[i])
      PROVE  \/ Queue' = Queue
             \/ /\ Current.act = "callCrypto" /\ Queue' # Queue
                /\ Queue'[i].call.op = Current.op
  <2>1. ASSUME NEW e, Queue = <<>>, Queue' = <<e>>, Raised(e)
        PROVE  /\ Current.act = "callCrypto" /\ Queue' # Queue
               /\ Queue'[i].call.op = Current.op
    <3>1. Len(Queue') = 1 /\ Queue'[1] = e
      BY <2>1
    <3>2. Queue'[i] = e
      BY <3>1
    <3> QED
      BY <1>5, <2>1, <3>1, <3>2 DEF Raised, OkAnswer, ProviderCall
  <2> QED
    BY <1>3, <2>1
<1>6. \A i \in Rest' : out[i].act \in Dropping =>
        /\ \A j \in Rest' : out[j].act # "callCrypto"
        /\ \A j \in 1..Len(Queue') : ~OkAnswer(Queue'[j])
  BY <1>1, <1>5 DEF DropShape
<1>7. \A i \in Rest' : Certifies(out[i]) =>
        /\ Len(out) \in Rest' /\ out[Len(out)].act = "callCrypto"
        /\ Signs(out[Len(out)].op)
  <2>1. ASSUME NEW i \in Rest', Certifies(out[i])
        PROVE  Len(out) # p
    <3>1. p \in Nat /\ Len(out) \in Nat /\ Rest = p..Len(out)
      BY ExecBase DEF Rest
    <3> QED
      BY <1>1, <2>1, <3>1
  <2> QED
    BY <1>1, <2>1 DEF DropShape
<1>8. ASSUME Gone'
      PROVE  /\ rt'.keys = {} /\ hs # "start"
             /\ \A i \in Rest' :
                  out[i].act = "callCrypto" => Barren(out[i].op)
             /\ \A i \in 1..Len(Queue') :
                  OkAnswer(Queue'[i]) => Signs(Queue'[i].call.op)
  <2>1. CASE Gone /\ rt'.keys = rt.keys /\ Current.act # "callCrypto"
    BY <1>1, <1>5, <2>1 DEF DropShape
  <2>2. CASE Current.act \in Dropping /\ rt'.keys = {}
    <3>1. ~Raises(Current)
      BY <2>2 DEF Dropping, Raises
    <3> QED
      BY <1>1, <1>3, <2>2, <3>1 DEF DropShape
  <2>3. CASE Certifies(Current) /\ rt'.keys = {}
    <3>1. /\ Len(out) \in Rest /\ out[Len(out)].act = "callCrypto"
          /\ Signs(out[Len(out)].op)
      BY <1>1, <2>3 DEF DropShape
    <3>2. Queue = <<>> /\ \A j \in Rest : Raises(out[j]) => j = Len(out)
      BY <3>1 DEF ChainShape, Raises
    <3>3. Queue' = Queue
      BY <1>3, <2>3 DEF Certifies, Raises
    <3>4. hs # "start"
      BY <1>1, <2>3 DEF DropShape, Certifies
    <3> QED
      BY <1>1, <2>3, <3>1, <3>2, <3>3, <3>4 DEF Raises, Barren
  <2>4. CASE Current.act = "callCrypto"
    <3>1. Queue = <<>> /\ hs # "start"
          /\ \A j \in Rest' : out[j].act # "callCrypto"
      BY <1>1, <1>4, <2>4 DEF Raises, DropShape
    <3>2. CASE followUps' = followUps /\ rt'.keys = {}
      <4>1. Queue' = Queue
        BY <3>2, ExecuteCarried DEF Carried, Queue, ConnInv
      <4> QED
        BY <3>1, <3>2, <4>1
    <3>3. CASE /\ Gone' = Gone /\ Resolves(Current.op) \subseteq rt.keys
               /\ rt'.keys = rt.keys \cup Installs(Current.op)
      <4>1. rt.keys = {} /\ Barren(Current.op)
        BY <1>1, <1>8, <2>4, <3>3 DEF DropShape
      <4>2. Signs(Current.op)
        BY <3>3, <4>1 DEF Barren
      <4>3. Installs(Current.op) = {}
        BY <4>2 DEF Signs, Installs
      <4> QED
        BY <1>5, <3>1, <3>3, <4>1, <4>2, <4>3
    <3>4. ASSUME rt' = rt, NEW f, Raise(f), ~f.ok
          PROVE  /\ rt'.keys = {}
                 /\ \A i \in 1..Len(Queue') : ~OkAnswer(Queue'[i])
      <4>1. followUps = <<>> /\ events = <<>> /\ events' = events
        <5>1. DriveType /\ Carried
          BY ExecuteCarried DEF ConnInv, ConnType
        <5> QED
          BY <3>1, <5>1, EmptySeq DEF DriveType, Queue, Carried
      <4>2. Queue' = <<f>>
        BY <3>4, <4>1 DEF Raise, Queue
      <4>3. Len(Queue') = 1 /\ Queue'[1] = f
        BY <4>2
      <4>4. rt'.keys = {}
        BY <1>8, <3>4 DEF DropShape, Gone
      <4> QED
        BY <3>4, <4>3, <4>4 DEF OkAnswer
    <3> QED
      BY <1>2, <2>4, <3>1, <3>2, <3>3, <3>4
      DEF DropMoves, Dropping, Certifies
  <2> QED
    BY <1>2, <1>8, <2>1, <2>2, <2>3, <2>4 DEF DropMoves
<1> QED
  BY <1>1, <1>6, <1>7, <1>8 DEF DropShape

LEMMA CallsDrop ==
  ASSUME ConnInv, DropShape, Calls
  PROVE  DropShape'
<1>1. /\ Rest' = {} /\ UNCHANGED <<hs, out>> /\ rt'.keys = rt.keys
  BY CallsKeep
<1>2. \A i \in 1..Len(Queue') :
        Queue'[i].ev # "cryptoResult" \/ (Queue' = Queue)
  BY CallsNoAnswer
<1>3. Gone' => Gone
  <2>1. CASE FlushReturn
    <3>1. RuntimeType /\ Drain(rt.outbound)
      BY <2>1 DEF FlushReturn, ConnInv, ConnType
    <3> QED
      BY <3>1, DrainGone
  <2> QED
    BY <2>1, CallsKeep DEF Gone
<1> QED
  BY <1>1, <1>2, <1>3 DEF DropShape, OkAnswer

DropInv == ConnInv /\ ChainShape /\ CallsShape /\ EarlyShape /\ DropShape

LEMMA InitDrop == ConnInit => DropInv
<1> SUFFICES ASSUME ConnInit
             PROVE  DropInv
  OBVIOUS
<1>1. ConnInv /\ ChainShape /\ CallsShape /\ EarlyShape
  BY InitSeal DEF SealInv
<1>2. out = <<>> /\ performed = 0 /\ ~rt.terminal
  BY DEF ConnInit, Init
<1>3. Rest = {}
  BY <1>2 DEF Rest
<1> QED
  BY <1>1, <1>2, <1>3 DEF DropInv, DropShape, Gone

LEMMA DropStep == DropInv /\ [ConnNext]_connVars => DropInv'
<1> SUFFICES ASSUME DropInv, [ConnNext]_connVars
             PROVE  DropInv'
  OBVIOUS
<1> USE DEF DropInv
<1>1. ConnInv'
  BY ConnInvStep
<1>2. CASE Step
  BY <1>1, <1>2, StepChain, StepDrop
<1>3. CASE Execute
  BY <1>1, <1>3, ExecChain, ExecDrop
<1>4. CASE Calls
  BY <1>1, <1>4, CallsChain, CallsDrop
<1>5. CASE UNCHANGED connVars
  <2>1. /\ UNCHANGED <<hs, out, writeEpoch, pendingOps, call>>
        /\ UNCHANGED <<events, followUps, performed, fuel, rt>>
    BY <1>5 DEF connVars, vars, coreVars, epochVars, opVars, driveVars
  <2>2. Queue' = Queue /\ Rest' = Rest /\ Performed' = Performed
    BY <2>1 DEF Queue, Rest, Performed
  <2>3. ChainShape' /\ CallsShape' /\ EarlyShape'
    BY <2>1, <2>2
    DEF ChainShape, CallsShape, EarlyShape, Early, SealToWrite, Live,
        Terminal, Outstands
  <2>4. DropShape'
    BY <2>1, <2>2 DEF DropShape, Gone
  <2> QED
    BY <1>1, <2>3, <2>4
<1> QED
  BY <1>2, <1>3, <1>4, <1>5 DEF ConnNext

\* A connection that has ended returns to its caller without a traffic secret:
\* when the core has ended it, when the transport is closed, and when the
\* runtime has ended under a core that goes on, whatever that core is asked
\* for afterwards.  A runtime ended by a transport that broke in a write is
\* not among them: drainOutbound does not call terminate.
THEOREM SecretsCorrect == ConnSpec => []SecretsDropped
<1>1. DropInv => SecretsDropped
  <2> SUFFICES ASSUME DropInv, Idle, Terminal \/ closed \/ Gone
               PROVE  rt.keys = {}
    BY DEF SecretsDropped, Gone
  <2>1. Rest = {}
    BY DEF DropInv, ConnInv, ConnType, IdlePerformed, Performed, Rest,
           DriveType, CoreInv, TypeOK
  <2> QED
    BY <2>1 DEF DropInv, ConnInv, SecretsShape, DropShape
<1> QED
  BY <1>1, InitDrop, DropStep, PTL DEF ConnSpec
=============================================================================
