-------------------------- MODULE TlsChannelProofs ---------------------------
(***************************************************************************)
(* Proofs about the core and its asynchronous provider: answers that come  *)
(* late and in any order are matched to the operations they belong to, and *)
(* no two records leave under one number of the application write key.     *)
(***************************************************************************)
EXTENDS TlsChannel, TlsCoreProofs

Request == [id : Nat, op : CryptoOp]

ChannelType ==
  /\ peer \in Streams
  /\ requests \in SUBSET Request
  /\ sealed \in SUBSET [epoch : Epoch, seq : Nat]

\* Identifiers are issued once, below the next one.
IdsIssued ==
  /\ \A o \in pendingOps : o.id < nextOpId
  /\ \A c \in requests : c.id < nextOpId
  /\ \A c, d \in requests : c.id = d.id => c = d

\* The application write key does not exist before the flight is over.
WriteKeyShape ==
  hs \in {"start"} \cup Flight => writeEpoch.epoch # "application"

\* Every number used under the application write key is behind the next one.
NumbersUsed ==
  Live => \A n \in sealed : n.epoch = "application" =>
            writeEpoch.epoch = "application" /\ n.seq < writeEpoch.seq

ChannelInv ==
  /\ TypeOK /\ FlightShape /\ CloseStateAgrees /\ HeldOnlyOnOpenChannel
  /\ ChannelType /\ IdsIssued /\ OpsMatchProvider
  /\ WriteKeyShape /\ NumbersUsed

-----------------------------------------------------------------------------
(* A step of the channel is a step of the core and of its surroundings.    *)

LEMMA OpenedBody ==
  ASSUME NEW op \in CryptoOp, op.kind = "aeadOpen"
  PROVE  op.body.inner \in Inner
<1>1. op.body \in Sealed
  BY DEF CryptoOp
<1> QED
  BY <1>1, SealedAssumption

\* The answer to a call of the provider is one the core can be given.
LEMMA SucceedsConcludes ==
  ASSUME TypeOK, CloseStateAgrees, NEW c \in Request, Succeeds(c)
  PROVE  CoreStep /\ Concludes(Without(c.id))
<1>1. c.id \in Nat /\ c.op \in CryptoOp
  BY DEF Request
<1>2. CASE c.op.kind = "aeadSeal"
  <2>1. AeadSealed(c.id)
    BY <1>2 DEF Succeeds
  <2> QED
    BY <1>1, <2>1, SealedConcludes DEF CoreStep
<1>3. CASE c.op.kind = "aeadOpen"
  <2>1. AeadOpened(c.id, c.op.body.inner)
    BY <1>3 DEF Succeeds
  <2> QED
    BY <1>1, <1>3, <2>1, OpenedBody, OpenedConcludes DEF CoreStep
<1>4. CASE c.op.kind \notin {"aeadSeal", "aeadOpen"}
  <2>1. c.op.kind \in GatingKind
    BY <1>1, <1>4, OpKindType DEF GatingKind
  <2>2. GatingResult(c.id, AnswerTo(c.op.kind))
    BY <1>4 DEF Succeeds, AnswerTo
  <2>3. AnswerTo(c.op.kind) \in GatingAnswer
    BY <2>1 DEF GatingAnswer
  <2> QED
    BY <1>1, <2>2, <2>3, GatingConcludes DEF CoreStep
<1> QED
  BY <1>2, <1>3, <1>4

\* How a step treats the calls the provider has not answered.
Exchanged ==
  \/ (Absorb \/ Stops) /\ \E done \in SUBSET requests : Execute(done)
  \/ Concludes(pendingOps) /\ Execute({})
  \/ \E c \in requests : Concludes(Without(c.id)) /\ Execute({c})

LEMMA ChannelStep ==
  ASSUME ChannelInv, ChannelNext
  PROVE  CoreStep /\ Exchanged
<1>t. /\ TypeOK /\ CloseStateAgrees /\ OpsMatchProvider
      /\ requests \in SUBSET Request
  BY DEF ChannelInv, ChannelType
<1>1. ASSUME NEW recs \in Chunks, Deliver(recs)
      PROVE  CoreStep /\ Exchanged
  <2>1. recs \in Seq(Record) /\ TransportBytes(recs) /\ Execute({})
    BY <1>1, InputsAssumption DEF Deliver
  <2> QED
    BY <1>t, <2>1, TransportBytesConcludes DEF CoreStep, Exchanged
<1>2. CASE Application
  <2>1. /\ Execute({})
        /\ \/ AppRecv \/ \E plain \in Bytes : AppSend(plain)
           \/ \E mode \in CloseMode : AppClose(mode)
    BY <1>2, PayloadsAssumption DEF Application
  <2> QED
    BY <1>t, <2>1, RecvConcludes, SendConcludes, CloseConcludes
    DEF CoreStep, Exchanged
<1>3. CASE Other
  <2>1. Execute({}) /\ (TransportEof \/ Timeout \/ Quiet)
    BY <1>3 DEF Other
  <2>2. CoreStep
    BY <2>1 DEF CoreStep
  <2>3. CASE Absorb
    BY <2>1, <2>2, <2>3 DEF Exchanged
  <2>4. CASE TransportEof \/ Timeout \/ TransportReadable \/ Writable
    BY <2>1, <2>2, <2>4, EventConcludes DEF Exchanged
  <2> QED
    BY <2>1, <2>3, <2>4 DEF Quiet
<1>4. ASSUME NEW c \in requests, Outcome(c), Execute({c})
      PROVE  CoreStep /\ Exchanged
  <2>1. c \in Request /\ c.id \in Nat
    BY <1>t DEF Request
  <2>2. CASE CryptoFailed(c.id)
    BY <1>4, <2>1, <2>2, FailedConcludes DEF CoreStep, Exchanged
  <2>3. CASE Succeeds(c)
    BY <1>4, <1>t, <2>1, <2>3, SucceedsConcludes DEF Exchanged
  <2>4. CASE DroppedResult(c.id)
    <3>1. Live /\ \A o \in pendingOps : o.id # c.id
      BY <2>4 DEF DroppedResult
    <3>2. <<c.id, c.op.kind>> \in {<<d.id, d.op.kind>> : d \in requests}
      OBVIOUS
    <3>3. \E o \in pendingOps : <<c.id, c.op.kind>> = <<o.id, o.kind>>
      BY <1>t, <3>1, <3>2 DEF OpsMatchProvider
    <3> QED
      BY <3>1, <3>3
  <2>5. CASE Absorb
    BY <1>4, <2>5 DEF CoreStep, Quiet, Exchanged
  <2> QED
    BY <1>4, <2>2, <2>3, <2>4, <2>5 DEF Outcome
<1> QED
  BY <1>1, <1>2, <1>3, <1>4 DEF ChannelNext, ProviderAnswers


-----------------------------------------------------------------------------
(* The calls that wait for the provider.                                   *)

\* The provider and the core hold the same operations.
Matched ==
  /\ \A o \in pendingOps : \E c \in requests :
       c.id = o.id /\ c.op.kind = o.kind
  /\ \A c \in requests : \E o \in pendingOps :
       o.id = c.id /\ o.kind = c.op.kind

LEMMA MatchedMeans == OpsMatchProvider <=> (Live => Matched)
<1> DEFINE held == {<<o.id, o.kind>> : o \in pendingOps}
           owed == {<<c.id, c.op.kind>> : c \in requests}
<1>1. held = owed => Matched
  <2> SUFFICES ASSUME held = owed
               PROVE  Matched
    OBVIOUS
  <2>1. ASSUME NEW o \in pendingOps
        PROVE  \E c \in requests : c.id = o.id /\ c.op.kind = o.kind
    <3>1. <<o.id, o.kind>> \in owed
      OBVIOUS
    <3>2. PICK c \in requests : <<o.id, o.kind>> = <<c.id, c.op.kind>>
      BY <3>1
    <3> QED
      BY <3>2
  <2>2. ASSUME NEW c \in requests
        PROVE  \E o \in pendingOps : o.id = c.id /\ o.kind = c.op.kind
    <3>1. <<c.id, c.op.kind>> \in held
      OBVIOUS
    <3>2. PICK o \in pendingOps : <<c.id, c.op.kind>> = <<o.id, o.kind>>
      BY <3>1
    <3> QED
      BY <3>2
  <2> QED
    BY <2>1, <2>2 DEF Matched
<1>2. Matched => held = owed
  <2> SUFFICES ASSUME Matched
               PROVE  held = owed
    OBVIOUS
  <2>1. ASSUME NEW p \in held
        PROVE  p \in owed
    <3>1. PICK o \in pendingOps : p = <<o.id, o.kind>>
      OBVIOUS
    <3> QED
      BY <3>1 DEF Matched
  <2>2. ASSUME NEW p \in owed
        PROVE  p \in held
    <3>1. PICK c \in requests : p = <<c.id, c.op.kind>>
      OBVIOUS
    <3> QED
      BY <3>1 DEF Matched
  <2> HIDE DEF held, owed
  <2> QED
    BY <2>1, <2>2
<1> HIDE DEF held, owed
<1> QED
  BY <1>1, <1>2 DEF OpsMatchProvider, held, owed

\* A step that asks for nothing issues no call.
LEMMA NoneIssued ==
  ASSUME NEW ops, Stops \/ Keeps(ops) \/ Absorb
  PROVE  Issued = {}
<1>1. \A i \in 1..Len(out') : out'[i].act # "callCrypto"
  BY DEF Stops, Keeps, Absorb, WriteAlert
<1> QED
  BY <1>1 DEF Issued, Performed

\* One that asks issues the one call of the operation it adds.
LEMMA OneIssued ==
  ASSUME NEW op, NEW n \in 1..Len(out'), out'[n] = CallCrypto(nextOpId, op),
         \A i \in (1..Len(out')) \ {n} :
           out'[i].act \in {"writeHandshake", "acceptPlaintextBytes"}
  PROVE  Issued = {[id |-> nextOpId, op |-> op]}
<1>1. Performed("callCrypto") = {n}
  BY DEF Performed, CallCrypto
<1>2. out'[n].id = nextOpId /\ out'[n].op = op
  BY DEF CallCrypto
<1> QED
  BY <1>1, <1>2 DEF Issued

\* The calls and operations after a step that asks, done being answered.
LEMMA AsksExchange ==
  ASSUME NEW ops, Asks(ops), NEW done, Execute(done)
  PROVE  \E op \in CryptoOp, epoch \in Epoch, dir \in Direction :
           /\ pendingOps' = ops \cup {[id |-> nextOpId, kind |-> op.kind,
                                       epoch |-> epoch, dir |-> dir]}
           /\ nextOpId' = nextOpId + 1
           /\ requests' = (requests \ done)
                            \cup {[id |-> nextOpId, op |-> op]}
<1>1. PICK op \in CryptoOp, epoch \in Epoch, dir \in Direction,
           n \in 1..Len(out') :
        /\ Allocate(ops, op.kind, epoch, dir)
        /\ out'[n] = CallCrypto(nextOpId, op)
        /\ \A i \in (1..Len(out')) \ {n} :
             \/ out'[i].act = "writeHandshake" /\ out'[i].epoch # "application"
             \/ out'[i].act = "acceptPlaintextBytes"
  BY DEF Asks, FlightRecord
<1>2. Issued = {[id |-> nextOpId, op |-> op]}
  BY <1>1, OneIssued
<1> QED
  BY <1>1, <1>2 DEF Allocate, Execute

LEMMA KeepsExchange ==
  ASSUME NEW ops, Stops \/ Keeps(ops) \/ Absorb, NEW done, Execute(done)
  PROVE  requests' = requests \ done
BY NoneIssued DEF Execute

\* How the calls and the operations may change in any step.
LEMMA ExchangeTypes ==
  ASSUME ChannelInv, NEW ops \in SUBSET pendingOps,
         NEW done \in SUBSET requests, Execute(done),
         Absorb \/ Concludes(ops)
  PROVE  requests' \in SUBSET Request /\ IdsIssued'
<1>t. nextOpId \in Nat /\ requests \in SUBSET Request /\ IdsIssued
  BY DEF ChannelInv, TypeOK, ChannelType
<1>1. CASE Stops \/ Keeps(ops) \/ Absorb
  <2>1. requests' = requests \ done
    BY <1>1, KeepsExchange
  <2>2. pendingOps' \subseteq pendingOps /\ nextOpId' = nextOpId
    BY <1>1 DEF Stops, Keeps, KeepOps, Absorb, coreVars
  <2> QED
    BY <1>t, <2>1, <2>2 DEF IdsIssued
<1>2. CASE Asks(ops)
  <2>1. PICK op \in CryptoOp, epoch \in Epoch, dir \in Direction :
          /\ pendingOps' = ops \cup {[id |-> nextOpId, kind |-> op.kind,
                                      epoch |-> epoch, dir |-> dir]}
          /\ nextOpId' = nextOpId + 1
          /\ requests' = (requests \ done)
                           \cup {[id |-> nextOpId, op |-> op]}
    BY <1>2, AsksExchange
  <2> DEFINE new == [id |-> nextOpId, op |-> op]
  <2>2. new \in Request /\ new.id = nextOpId
    BY <1>t DEF Request
  <2>3. \A c \in requests : c.id \in Nat /\ c.id < nextOpId
    BY <1>t DEF IdsIssued, Request
  <2>4. \A o \in pendingOps : o.id \in Nat /\ o.id < nextOpId
    BY <1>t DEF IdsIssued, ChannelInv, TypeOK, PendingOp
  <2>5. \A o \in pendingOps' : o.id < nextOpId'
    BY <1>t, <2>1, <2>4
  <2> HIDE DEF new
  <2>6. /\ \A c \in requests' : c.id < nextOpId'
        /\ \A c, d \in requests' : c.id = d.id => c = d
    BY <1>t, <2>1, <2>2, <2>3 DEF IdsIssued, new
  <2> QED
    BY <1>t, <2>1, <2>2, <2>5, <2>6 DEF IdsIssued, new
<1> QED
  BY <1>1, <1>2 DEF Concludes

\* Answering the calls in done and the operations not in ops keeps the two
\* sides matched, when the two go by the same identifiers.
LEMMA ExchangeMatches ==
  ASSUME ChannelInv, Live, NEW ops \in SUBSET pendingOps,
         NEW done \in SUBSET requests, Execute(done), Concludes(ops),
         \A o \in pendingOps, c \in requests :
           o.id = c.id => (o \in ops <=> c \notin done)
  PROVE  OpsMatchProvider'
<1>m. Matched
  BY MatchedMeans DEF ChannelInv
<1>r. /\ \A o \in ops : \E c \in requests \ done :
           c.id = o.id /\ c.op.kind = o.kind
      /\ \A c \in requests \ done : \E o \in ops :
           o.id = c.id /\ o.kind = c.op.kind
  BY <1>m DEF Matched
<1>1. CASE Stops
  BY <1>1 DEF Stops, OpsMatchProvider, Live, Terminal
<1>2. CASE Keeps(ops)
  <2>1. requests' = requests \ done /\ pendingOps' = ops
    BY <1>2, KeepsExchange DEF Keeps, KeepOps
  <2>2. Matched'
    BY <1>r, <2>1 DEF Matched
  <2> QED
    BY <2>2, MatchedMeans, PTL
<1>3. CASE Asks(ops)
  <2>1. PICK op \in CryptoOp, epoch \in Epoch, dir \in Direction :
          /\ pendingOps' = ops \cup {[id |-> nextOpId, kind |-> op.kind,
                                      epoch |-> epoch, dir |-> dir]}
          /\ requests' = (requests \ done)
                           \cup {[id |-> nextOpId, op |-> op]}
    BY <1>3, AsksExchange
  <2> DEFINE held == [id |-> nextOpId, kind |-> op.kind, epoch |-> epoch,
                      dir |-> dir]
             owed == [id |-> nextOpId, op |-> op]
  <2>2. held.id = owed.id /\ held.kind = owed.op.kind
    OBVIOUS
  <2>3. pendingOps' = ops \cup {held} /\ requests' = (requests \ done) \cup {owed}
    BY <2>1
  <2> HIDE DEF held, owed
  <2>4. Matched'
    BY <1>r, <2>2, <2>3 DEF Matched
  <2> QED
    BY <2>4, MatchedMeans, PTL
<1> QED
  BY <1>1, <1>2, <1>3 DEF Concludes

\* Late, early, failed, unexpected: whatever the order of the answers, each
\* takes away the operation it belongs to and no other.
LEMMA StepMatches ==
  ASSUME ChannelInv, ChannelNext
  PROVE  OpsMatchProvider'
<1>1. CoreStep /\ Exchanged
  BY ChannelStep
<1>2. CASE Absorb \/ Stops
  <2>1. hs' \in TerminalPhase
    BY <1>2 DEF Absorb, Stops, Terminal, coreVars
  <2> QED
    BY <2>1 DEF OpsMatchProvider, Live, Terminal
<1>3. CASE Terminal
  BY <1>1, <1>2, <1>3, OnlyAbsorbs
<1>4. CASE Live /\ Concludes(pendingOps) /\ Execute({})
  BY <1>4, ExchangeMatches
<1>5. ASSUME NEW c \in requests, Live, Concludes(Without(c.id)), Execute({c})
      PROVE  OpsMatchProvider'
  <2> DEFINE ops == Without(c.id)
  <2>1. ops \in SUBSET pendingOps /\ \A o \in pendingOps : o \in ops <=> o.id # c.id
    BY DEF Without
  <2>2. \A d \in requests : d.id = c.id => d = c
    BY DEF ChannelInv, IdsIssued
  <2> HIDE DEF ops
  <2>3. \A o \in pendingOps, d \in requests :
          o.id = d.id => (o \in ops <=> d \notin {c})
    BY <2>1, <2>2
  <2>4. Concludes(ops)
    BY <1>5 DEF ops
  <2> QED
    BY <1>5, <2>1, <2>3, <2>4, ExchangeMatches
<1> QED
  BY <1>1, <1>2, <1>3, <1>4, <1>5 DEF Exchanged, Live

LEMMA StepTypes ==
  ASSUME ChannelInv, ChannelNext
  PROVE  requests' \in SUBSET Request /\ IdsIssued'
<1>1. Exchanged
  BY ChannelStep
<1>2. /\ pendingOps \in SUBSET pendingOps /\ {} \in SUBSET requests
      /\ \A id : Without(id) \in SUBSET pendingOps
      /\ \A c \in requests : {c} \in SUBSET requests
  BY DEF Without
<1>3. Stops => Concludes(pendingOps)
  BY DEF Concludes
<1> QED
  BY <1>1, <1>2, <1>3, ExchangeTypes DEF Exchanged

-----------------------------------------------------------------------------
(* The numbers of the application write key.                               *)

\* What is protected under the application write key in a step carries the
\* number of that key, which a step that goes on moves past.
LEMMA SealedNumbers ==
  ASSUME TypeOK, FlightShape, CoreStep, Absorb \/ \E ops : Concludes(ops)
  PROVE  /\ \A i \in Sealing :
              /\ NonceOf(out'[i]) \in [epoch : Epoch, seq : Nat]
              /\ NonceOf(out'[i]).epoch = "application" =>
                   /\ Live
                   /\ NonceOf(out'[i]) = Nonce("application", writeEpoch.seq)
                   /\ writeEpoch.epoch = "application"
                   /\ hs' \in TerminalPhase \/ writeEpoch' = AdvanceSeq(writeEpoch)
                   /\ \A j \in Sealing : NonceOf(out'[j]) = NonceOf(out'[i])
                                           => j = i
<1>t. TypeOK' /\ WriteKeyMoves
  BY CoreStepType, CoreStepWriteKey
<1>o. /\ writeEpoch \in EpochState /\ writeEpoch' \in EpochState
      /\ out' \in Seq(OutputAction)
  BY <1>t DEF TypeOK
<1>n. \A i \in Sealing : NonceOf(out'[i]) \in [epoch : Epoch, seq : Nat]
  <2> SUFFICES ASSUME NEW i \in Sealing
               PROVE  NonceOf(out'[i]) \in [epoch : Epoch, seq : Nat]
    OBVIOUS
  <2>1. out'[i] \in OutputAction /\ Protected(out'[i])
    BY <1>o DEF Sealing
  <2>2. CASE out'[i].act = "callCrypto"
    <3>1. out'[i].op \in CryptoOp /\ out'[i].op.kind = "aeadSeal"
      BY <2>1, <2>2 DEF OutputAction, Protected
    <3>2. out'[i].op.epoch \in Epoch /\ out'[i].op.seq \in Nat
      BY <3>1, MaxSeqAssumption DEF CryptoOp
    <3> QED
      BY <2>2, <3>2 DEF NonceOf, Nonce
  <2>3. CASE out'[i].act \in {"writeHandshake", "writeAlert"}
    <3>1. out'[i].epoch \in Epoch /\ out'[i].seq \in Nat
      BY <2>1, <2>3, MaxSeqAssumption DEF OutputAction
    <3> QED
      BY <2>3, <3>1 DEF NonceOf, Nonce
  <2> QED
    BY <2>1, <2>2, <2>3 DEF Protected
<1>1. CASE Absorb
  <2>1. Sealing = {}
    BY <1>1 DEF Absorb, Sealing
  <2> QED
    BY <2>1
<1>2. CASE Stops
  <2>1. Live \/ Absorb
    BY OnlyAbsorbs DEF Live
  <2>2. \A i \in Sealing : i = 1 /\ out'[i] = WriteAlert(writeEpoch')
    BY <1>2 DEF Stops, Sealing, Protected
  <2>3. \A i \in Sealing :
          NonceOf(out'[i]) = Nonce(writeEpoch'.epoch, writeEpoch'.seq)
    BY <2>2 DEF WriteAlert, NonceOf
  <2>4. writeEpoch' = writeEpoch \/ writeEpoch'.epoch = "handshake"
    BY <1>2, <1>t DEF Stops, TerminalPhase, WriteKeyMoves, InstallEpoch
  <2> QED
    BY <1>1, <1>2, <1>n, <2>1, <2>2, <2>3, <2>4 DEF Nonce, Stops
<1>3. CASE \E ops : Keeps(ops)
  <2>1. Sealing = {}
    BY <1>3 DEF Keeps, Sealing, Protected
  <2> QED
    BY <2>1
<1>4. CASE \E ops : Asks(ops)
  <2>1. PICK op \in CryptoOp, n \in 1..Len(out') :
          /\ out'[n] = CallCrypto(nextOpId, op)
          /\ \A i \in (1..Len(out')) \ {n} :
               \/ out'[i].act = "writeHandshake"
                  /\ out'[i].epoch # "application"
               \/ out'[i].act = "acceptPlaintextBytes"
          /\ op.kind = "aeadSeal" => SealsNext(op)
    BY <1>4 DEF Asks, FlightRecord
  <2>2. \A i \in Sealing : i # n => NonceOf(out'[i]).epoch # "application"
    BY <2>1 DEF Sealing, Protected, NonceOf, Nonce
  <2>3. n \in Sealing => SealsNext(op) /\ NonceOf(out'[n]) = Nonce(op.epoch, op.seq)
    BY <2>1 DEF Sealing, Protected, CallCrypto, NonceOf
  <2>4. Connected => Live /\ writeEpoch.epoch = "application"
    BY DEF Connected, Live, Terminal, TerminalPhase, FlightShape, EpochShape,
           FlightSent
  <2> QED
    BY <1>n, <2>2, <2>3, <2>4 DEF SealsNext, Nonce
<1> QED
  BY <1>1, <1>2, <1>3, <1>4 DEF Concludes


LEMMA StepNumbers ==
  ASSUME ChannelInv, ChannelNext
  PROVE  WriteKeyShape' /\ NumbersUsed' /\ ChannelType'
<1>1. CoreStep /\ Exchanged /\ TypeOK /\ FlightShape
  BY ChannelStep DEF ChannelInv
<1>2. /\ Absorb \/ \E ops : Concludes(ops)
      /\ \E done : Execute(done)
  BY <1>1 DEF Exchanged, Concludes
<1>3. sealed' = sealed \cup {NonceOf(out'[i]) : i \in Sealing} /\ peer' = peer
  BY <1>2 DEF Execute
<1>m. WriteKeyMoves /\ Moves
  BY <1>1, CoreStepWriteKey, CoreStepMoves
<1>t. /\ sealed \in SUBSET [epoch : Epoch, seq : Nat] /\ peer \in Streams
      /\ writeEpoch \in EpochState
  BY DEF ChannelInv, ChannelType, TypeOK
<1>s. \A i \in Sealing :
        /\ NonceOf(out'[i]) \in [epoch : Epoch, seq : Nat]
        /\ NonceOf(out'[i]).epoch = "application" =>
             /\ Live
             /\ NonceOf(out'[i]) = Nonce("application", writeEpoch.seq)
             /\ writeEpoch.epoch = "application"
             /\ hs' \in TerminalPhase \/ writeEpoch' = AdvanceSeq(writeEpoch)
  BY <1>1, <1>2, SealedNumbers
<1>4. ChannelType'
  <2>1. sealed' \in SUBSET [epoch : Epoch, seq : Nat]
    BY <1>3, <1>s, <1>t
  <2> QED
    BY <1>3, <1>t, <2>1, StepTypes DEF ChannelType
<1>f. hs' \in {"start"} \cup Flight => hs \in {"start"} \cup Flight
  BY <1>m, Order DEF Moves, Stays, Forward, Ends, Flight
<1>5. WriteKeyShape'
  <2> SUFFICES ASSUME hs' \in {"start"} \cup Flight
               PROVE  writeEpoch'.epoch # "application"
    BY DEF WriteKeyShape
  <2>1. writeEpoch.epoch # "application" /\ ~Connected
    BY <1>f DEF ChannelInv, WriteKeyShape, Connected, Flight
  <2> QED
    BY <1>m, <2>1 DEF WriteKeyMoves, InstallEpoch, Flight
<1>6. NumbersUsed'
  <2> SUFFICES ASSUME Live', NEW n \in sealed', n.epoch = "application"
               PROVE  writeEpoch'.epoch = "application"
                        /\ n.seq < writeEpoch'.seq
    BY DEF NumbersUsed
  <2>l. Live
    <3>1. hs' \notin TerminalPhase
      BY DEF Live, Terminal
    <3>2. Terminal => hs' = hs
      BY <1>1, OnlyAbsorbs DEF Absorb, coreVars
    <3> QED
      BY <3>1, <3>2 DEF Live, Terminal
  <2>a. writeEpoch.seq \in Nat /\ AdvanceSeq(writeEpoch).seq = writeEpoch.seq + 1
        /\ AdvanceSeq(writeEpoch).epoch = writeEpoch.epoch
    BY <1>t, MaxSeqAssumption DEF EpochState, AdvanceSeq
  <2>1. CASE n \in sealed
    <3>1. writeEpoch.epoch = "application" /\ n.seq < writeEpoch.seq
      BY <2>1, <2>l DEF ChannelInv, NumbersUsed
    <3>2. hs \notin {"start"} \cup Flight
      BY <3>1 DEF ChannelInv, WriteKeyShape
    <3>3. writeEpoch' = writeEpoch \/ writeEpoch' = AdvanceSeq(writeEpoch)
      BY <1>m, <3>2 DEF WriteKeyMoves, Flight
    <3>4. n.seq \in Nat
      BY <1>t, <2>1
    <3> QED
      BY <2>a, <3>1, <3>3, <3>4
  <2>2. ASSUME NEW i \in Sealing, n = NonceOf(out'[i])
        PROVE  writeEpoch'.epoch = "application" /\ n.seq < writeEpoch'.seq
    <3>1. /\ n = Nonce("application", writeEpoch.seq)
          /\ writeEpoch.epoch = "application"
          /\ hs' \in TerminalPhase \/ writeEpoch' = AdvanceSeq(writeEpoch)
      BY <1>s, <2>2
    <3>2. n.seq = writeEpoch.seq
      BY <3>1 DEF Nonce
    <3>3. writeEpoch' = AdvanceSeq(writeEpoch)
      BY <3>1 DEF Live, Terminal
    <3> QED
      BY <2>a, <3>1, <3>2, <3>3
  <2> QED
    BY <1>3, <2>1, <2>2
<1> QED
  BY <1>4, <1>5, <1>6

-----------------------------------------------------------------------------
(* The properties.                                                         *)

LEMMA InitChannel == ChannelInit => ChannelInv
<1> SUFFICES ASSUME ChannelInit
             PROVE  ChannelInv
  OBVIOUS
<1>1. TypeOK /\ FlightShape
  BY InitFlight DEF ChannelInit, FlightInv
<1>2. CloseStateAgrees /\ HeldOnlyOnOpenChannel
  BY DEF ChannelInit, Init, CloseStateAgrees, HeldOnlyOnOpenChannel
<1>3. /\ pendingOps = {} /\ requests = {} /\ sealed = {}
      /\ peer \in Streams /\ writeEpoch = FreshEpoch
  BY DEF ChannelInit, Init
<1>4. ChannelType /\ IdsIssued /\ NumbersUsed
  BY <1>3 DEF ChannelType, IdsIssued, NumbersUsed
<1>5. OpsMatchProvider
  BY <1>3 DEF OpsMatchProvider
<1>6. WriteKeyShape
  BY <1>3 DEF WriteKeyShape, FreshEpoch
<1> QED
  BY <1>1, <1>2, <1>4, <1>5, <1>6 DEF ChannelInv

LEMMA ChannelInvStep == ChannelInv /\ [ChannelNext]_channelVars => ChannelInv'
<1>1. ASSUME ChannelInv, ChannelNext
      PROVE  ChannelInv'
  <2>1. TypeOK' /\ FlightShape' /\ CloseStateAgrees' /\ HeldOnlyOnOpenChannel'
    BY <1>1, ChannelStep, CoreStepType, FlightStep, CoreStepMoves, MovesClose
    DEF ChannelInv
  <2>2. ChannelType' /\ WriteKeyShape' /\ NumbersUsed'
    BY <1>1, StepNumbers
  <2>3. IdsIssued' /\ OpsMatchProvider'
    BY <1>1, StepTypes, StepMatches
  <2> QED
    BY <2>1, <2>2, <2>3 DEF ChannelInv
<1>2. ASSUME ChannelInv, UNCHANGED channelVars
      PROVE  ChannelInv'
  <2>1. UNCHANGED vars /\ UNCHANGED envVars
    BY <1>2 DEF channelVars
  <2>2. TypeOK' /\ CloseStateAgrees' /\ HeldOnlyOnOpenChannel'
    BY <1>2, <2>1, StutterType
    DEF ChannelInv, CloseStateAgrees, HeldOnlyOnOpenChannel, Connected, vars,
        coreVars
  <2>3. FlightShape'
    BY <1>2, <2>1, UndisturbedShape DEF ChannelInv, vars, coreVars
  <2>4. /\ ChannelType' /\ IdsIssued' /\ OpsMatchProvider'
        /\ WriteKeyShape' /\ NumbersUsed'
    BY <1>2, <2>1
    DEF ChannelInv, ChannelType, IdsIssued, OpsMatchProvider, WriteKeyShape,
        NumbersUsed, Live, Terminal, vars, coreVars, envVars
  <2> QED
    BY <2>2, <2>3, <2>4 DEF ChannelInv
<1> QED
  BY <1>1, <1>2

\* The core keeps all it promises on its own, its operations are those the
\* provider works on, and the numbers of the application write key lie behind
\* the next one, in every state of core, provider, network and application.
THEOREM ChannelInvariant == ChannelSpec => []ChannelInv
BY InitChannel, ChannelInvStep, PTL DEF ChannelSpec

\* Answers that come late, in any order, or as failures never lose, leak or
\* cross an operation.
THEOREM MatchCorrect == ChannelSpec => []OpsMatchProvider
<1>1. ChannelInv => OpsMatchProvider
  BY DEF ChannelInv
<1> QED
  BY <1>1, ChannelInvariant, PTL

\* Data records, close_notify and fatal alerts never share a number of the
\* application write key, for every ceiling of the number and every order of
\* sends, closes, failures and answers.
THEOREM NonceCorrect == ChannelSpec => ApplicationNonceFresh
<1> DEFINE Fresh ==
      \A i \in Sealing :
        NonceOf(out'[i]).epoch = "application" =>
          /\ NonceOf(out'[i]) \notin sealed
          /\ \A j \in Sealing : NonceOf(out'[j]) = NonceOf(out'[i]) => j = i
<1>1. ChannelInv /\ [ChannelNext]_channelVars => [Fresh]_channelVars
  <2> SUFFICES ASSUME ChannelInv, ChannelNext
               PROVE  Fresh
    OBVIOUS
  <2>1. /\ CoreStep /\ TypeOK /\ FlightShape
        /\ Absorb \/ \E ops : Concludes(ops)
    BY ChannelStep DEF ChannelInv, Exchanged, Concludes
  <2>2. SUFFICES ASSUME NEW i \in Sealing,
                        NonceOf(out'[i]).epoch = "application"
                 PROVE  /\ NonceOf(out'[i]) \notin sealed
                        /\ \A j \in Sealing :
                             NonceOf(out'[j]) = NonceOf(out'[i]) => j = i
    OBVIOUS
  <2>3. /\ Live /\ NonceOf(out'[i]) = Nonce("application", writeEpoch.seq)
        /\ \A j \in Sealing : NonceOf(out'[j]) = NonceOf(out'[i]) => j = i
    BY <2>1, <2>2, SealedNumbers
  <2>4. ASSUME NonceOf(out'[i]) \in sealed
        PROVE  FALSE
    <3>1. NonceOf(out'[i]).seq < writeEpoch.seq
      BY <2>2, <2>3, <2>4 DEF ChannelInv, NumbersUsed
    <3>2. NonceOf(out'[i]).seq = writeEpoch.seq /\ writeEpoch.seq \in Nat
      BY <2>3, MaxSeqAssumption DEF Nonce, ChannelInv, TypeOK, EpochState
    <3> QED
      BY <3>1, <3>2
  <2> QED
    BY <2>3, <2>4
<1> HIDE DEF Fresh
<1>2. [Fresh]_channelVars => [\A i \in Sealing :
        NonceOf(out'[i]).epoch = "application" =>
          /\ NonceOf(out'[i]) \notin sealed
          /\ \A j \in Sealing : NonceOf(out'[j]) = NonceOf(out'[i]) => j = i
        ]_channelVars
  BY DEF Fresh
<1> QED
  BY <1>1, <1>2, ChannelInvariant, PTL DEF ChannelSpec, ApplicationNonceFresh
=============================================================================
