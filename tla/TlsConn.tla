------------------------------- MODULE TlsConn -------------------------------
(***************************************************************************)
(* The connection a consumer holds: the core, the interpreter that carries *)
(* out its actions over a transport and a crypto provider, and the public  *)
(* calls recv, send, flush, close and progress.  A call drives events      *)
(* through the core until none is left or its fuel is used up; the actions *)
(* of a step are carried out in order and their follow-up events go before *)
(* the remaining ones.  No call overlaps another.                          *)
(*                                                                         *)
(* Ciphertext is counted in units: one for the overhead of a record, one   *)
(* for each unit of application plaintext, one for a flight record or an   *)
(* alert.  The transport takes any prefix of the queue, blocks or breaks.  *)
(***************************************************************************)
EXTENDS TlsPeer

CONSTANTS
  MaxCiphertext,        \* maxPendingCiphertextBytes, in units
  MaxSteps,             \* maxProgressStepsPerCall
  OversizeCertificate,  \* the configured certificate exceeds one record
  ReadsInProgress,      \* the caller also reads the transport in progress
  MaxSends              \* bound of the model: plaintext units offered to send

ASSUME LimitsOfCallsAssumption ==    \* validLimits
  MaxCiphertext \in Nat /\ MaxCiphertext >= 2 /\ MaxSteps \in Nat \ {0}
ASSUME CallerAssumption ==
  OversizeCertificate \in BOOLEAN /\ ReadsInProgress \in BOOLEAN
ASSUME MaxSendsAssumption == MaxSends \in Nat

VARIABLES
  call,       \* the call in progress and how far it is, or "none"
  result,     \* what the last call returned
  events,     \* events of this drive the core has not taken
  followUps,  \* events raised by the actions of the last step
  performed,  \* how many actions of out are carried out
  fuel,       \* steps this drive may still make
  answered,   \* the provider call the core took its last answer for
  rt,         \* RuntimeState
  wire,       \* units the transport has taken
  closed,     \* closeConnection was called
  received,   \* plaintext returned by recv
  owned       \* plaintext units reported as wrote

driveVars == <<events, followUps, performed, fuel, answered>>
wireVars == <<wire, closed>>
callerVars == <<result, received, owned>>
connVars == <<vars, peer, call, driveVars, rt, wireVars, callerVars>>

\* What ended or failed the runtime: a transport that broke, or anything else.
LastError == {"none", "transport", "other"}

-----------------------------------------------------------------------------
(* What goes over the wire.                                                *)

FlightUnit(msg, protected) ==
  <<[rec |-> "flight", msg |-> msg, protected |-> protected]>>

\* Anything but the flight is a record numbered seq under the key of epoch.
RecordUnit(ctype, epoch, seq) ==
  <<[rec |-> ctype, epoch |-> epoch, seq |-> seq]>>

\* recordAAD before what aeadSeal made of op.
SealedUnits(op) ==
  RecordUnit(op.inner.ctype, op.epoch, op.seq) \o
    IF op.inner.ctype = "applicationData"
    THEN [i \in 1..Len(op.inner.content) |->
            [rec |-> "data", unit |-> op.inner.content[i]]]
    ELSE <<>>

Overhead == 1    \* protectedRecordOverhead

\* Faulty form: the overhead is forgotten.
WholeBudget(budget) ==
  IF budget <= 0 THEN 0
  ELSE IF budget < MaxFragment THEN budget ELSE MaxFragment

MaxPlaintextForProtectedBudget(budget) ==
  IF budget <= Overhead THEN 0
  ELSE IF budget - Overhead < MaxFragment THEN budget - Overhead
                                          ELSE MaxFragment

-----------------------------------------------------------------------------
(* Keys in the secret arena, by direction and epoch.                       *)

\* Faulty form: the handshake keys are recorded under the later epoch.
KeyOfWrongEpoch(label) ==
  IF label \in {"write handshake", "write application"}
  THEN <<"write", "application">> ELSE <<"read", "application">>

KeyOf(label) ==
  CASE label = "write handshake" -> <<"write", "handshake">>
    [] label = "read handshake" -> <<"read", "handshake">>
    [] label = "write application" -> <<"write", "application">>
    [] label = "read application" -> <<"read", "application">>

\* The keys an operation resolves.
Resolves(op) ==
  CASE op.kind = "aeadSeal" -> {<<"write", op.epoch>>}
    [] op.kind = "aeadOpen" -> {<<"read", op.epoch>>}
    [] op.kind = "computeServerFinished" -> {<<"write", "handshake">>}
    [] op.kind = "verifyFinished" -> {<<"read", "handshake">>}
    [] OTHER -> {}

Installs(op) ==
  IF op.kind = "installTrafficKeys" THEN {KeyOf(op.label)} ELSE {}

\* Faulty form of Terminate: the secrets stay in the arena.
TerminateKeepsKeys(r, error) ==
  [r EXCEPT !.terminal = TRUE,
            !.lastError = IF error = "none" THEN @ ELSE error]

\* terminate: bumpGeneration drops every secret.
Terminate(r, error) ==
  [r EXCEPT !.terminal = TRUE, !.keys = {},
            !.lastError = IF error = "none" THEN @ ELSE error]

-----------------------------------------------------------------------------
(* driveEvents.                                                            *)

Idle == call = "none"
Performed == performed = Len(out)
Driven == Performed /\ (fuel = 0 \/ followUps \o events = <<>>)

Event(name) == [ev |-> name]

\* The core takes the event.
Handle(event) ==
  \/ Absorb
  \/ event.ev = "appRecv" /\ AppRecv
  \/ event.ev = "appSend" /\ AppSend(event.plain)
  \/ event.ev = "appClose" /\ AppClose(event.mode)
  \/ event.ev = "appFlush" /\ Writable
  \/ event.ev = "transportReadable" /\ TransportReadable
  \/ event.ev = "transportBytes" /\ TransportBytes(event.recs)
  \/ event.ev = "transportEof" /\ TransportEof
  \/ event.ev = "timeout" /\ Timeout
  \/ event.ev = "cryptoResult" /\
       \/ event.ok /\ Succeeds(event.call)
       \/ ~event.ok /\ CryptoFailed(event.call.id)
       \/ DroppedResult(event.call.id)

Step ==
  LET queue == followUps \o events
  IN  /\ ~Idle /\ Performed /\ fuel > 0 /\ queue # <<>>
      /\ Handle(Head(queue))
      /\ events' = Tail(queue) /\ followUps' = <<>>
      /\ performed' = 0 /\ fuel' = fuel - 1
      /\ answered' = IF Head(queue).ev = "cryptoResult"
                     THEN <<Head(queue).call>> ELSE answered
      /\ UNCHANGED <<peer, call, rt, wireVars, callerVars>>

-----------------------------------------------------------------------------
(* execAction.                                                             *)

Current == out[performed + 1]

Perform(names) ==
  /\ performed < Len(out)
  /\ Current.act \in names
  /\ performed' = performed + 1
  /\ UNCHANGED <<vars, peer, call, events, fuel, answered, callerVars>>

Raise(event) == followUps' = Append(followUps, event)

\* drainOutbound: the transport takes n units of the queue in one or more
\* writes, then would block, takes nothing more, or breaks.  A closed
\* transport takes nothing.
Drain(queue) ==
  \E n \in 0..Len(queue), broken \in BOOLEAN :
    /\ closed => n = 0
    /\ broken => n < Len(queue)
    /\ wire' = wire \o SubSeq(queue, 1, n)
    /\ rt' = [rt EXCEPT !.outbound = SubSeq(queue, n + 1, Len(queue)),
                        !.lastError = IF broken THEN "transport" ELSE @,
                        !.terminal = @ \/ broken]
    /\ UNCHANGED closed

FlightSeen ==
  FlightUnit("ServerFinished", TRUE)[1] \in {wire[j] : j \in 1..Len(wire)}

ReadBytes ==
  /\ Perform({"readTransport"})
  /\ ~closed
  /\ \E recs \in Chunks :
       /\ Len(inbound \o recs) <= MaxInbound
       /\ \A i \in 1..Len(recs) : Deliverable(recs[i], FlightSeen)
       /\ Raise([ev |-> "transportBytes", recs |-> recs])
  /\ UNCHANGED <<rt, wireVars>>

ReadNothing ==
  /\ Perform({"readTransport"})
  /\ UNCHANGED <<followUps, rt, wireVars>>

\* End of stream, or an error, which the core sees as end of stream.
ReadEnd ==
  /\ Perform({"readTransport"})
  /\ Raise(Event("transportEof"))
  /\ \E error \in {rt.lastError, "transport"} :
       rt' = [rt EXCEPT !.lastError = error]
  /\ UNCHANGED wireVars

WriteSealed ==
  /\ Perform({"writeTransport"})
  /\ Drain(rt.outbound \o SealedUnits(answered[1].op))
  /\ UNCHANGED followUps

\* A flight record is sealed under the handshake key of the arena; without
\* that key it is written in the clear.  One that is too large for a record
\* ends the runtime.
WriteFlight ==
  LET protected == Current.epoch = "handshake"
                     /\ <<"write", "handshake">> \in rt.keys
  IN  /\ Perform({"writeHandshake"})
      /\ IF Current.msg = "Certificate" /\ OversizeCertificate /\ protected
         THEN rt' = Terminate(rt, "other") /\ UNCHANGED wireVars
         ELSE Drain(rt.outbound \o FlightUnit(Current.msg, protected))
      /\ UNCHANGED followUps

\* A fatal alert is in the clear before the first key, sealed after it, and
\* not sent at all when its key is missing.
WriteAlertRecord ==
  LET key == <<"write", Current.epoch>>
  IN  /\ Perform({"writeAlert"})
      /\ IF Current.epoch = "initial" \/ key \in rt.keys
         THEN Drain(rt.outbound \o
                      RecordUnit("fatalAlert", Current.epoch, Current.seq))
         ELSE UNCHANGED <<rt, wireVars>>
      /\ UNCHANGED followUps

ProviderCall == [id |-> Current.id, op |-> Current.op]

ProviderSucceeds ==
  /\ Perform({"callCrypto"})
  /\ Resolves(Current.op) \subseteq rt.keys
  /\ Current.op.kind = "aeadOpen" => Opens(Current.op)
  /\ Current.op.kind = "verifyFinished" => Verifies(Current.op)
  /\ rt' = [rt EXCEPT !.keys = @ \cup Installs(Current.op)]
  /\ Raise([ev |-> "cryptoResult", call |-> ProviderCall, ok |-> TRUE])
  /\ UNCHANGED wireVars

ProviderFails ==
  /\ Perform({"callCrypto"})
  /\ Raise([ev |-> "cryptoResult", call |-> ProviderCall, ok |-> FALSE])
  /\ UNCHANGED <<rt, wireVars>>

\* Faulty form: the runtime gives up and keeps the secrets.
MisanswersKeepsKeys ==
  /\ Perform({"callCrypto"})
  /\ rt' = TerminateKeepsKeys(rt, "other")
  /\ UNCHANGED <<followUps, wireVars>>

\* An answer of another kind is never fed to the core.
ProviderMisanswers ==
  /\ Perform({"callCrypto"})
  /\ rt' = Terminate(rt, "other")
  /\ UNCHANGED <<followUps, wireVars>>

Plaintext ==
  /\ \/ /\ Perform({"emitPlaintext"})
        /\ rt' = [rt EXCEPT !.plaintextOut = <<Current.content>>]
     \/ /\ Perform({"acceptPlaintextBytes"})
        /\ rt' = [rt EXCEPT !.acceptedBytes = @ + Current.count]
  /\ UNCHANGED <<followUps, wireVars>>

Report ==
  /\ \/ Perform({"reportError"}) /\ rt' = Terminate(rt, "other")
     \/ Perform({"failWithAlert"}) /\ rt' = Terminate(rt, "none")
     \/ Perform({"reportHandshakeComplete"}) /\ UNCHANGED rt
  /\ UNCHANGED <<followUps, wireVars>>

CloseConnection ==
  /\ Perform({"closeTransport"})
  /\ rt' = Terminate(rt, "none")
  /\ closed' = TRUE
  /\ UNCHANGED <<followUps, wire>>

Execute ==
  \/ ReadBytes \/ ReadNothing \/ ReadEnd
  \/ WriteSealed \/ WriteFlight \/ WriteAlertRecord
  \/ ProviderSucceeds \/ ProviderFails \/ ProviderMisanswers
  \/ Plaintext \/ Report \/ CloseConnection

-----------------------------------------------------------------------------
(* The public calls.  Each drives one event at a time and looks at the     *)
(* runtime when the drive is over.                                         *)

\* drive.
Drive(stage, event) ==
  /\ call' = stage
  /\ events' = <<event>> /\ followUps' = <<>>
  /\ fuel' = MaxSteps
  /\ UNCHANGED <<vars, peer, performed, answered, wireVars>>

\* What fuel has not reached is forgotten.
Finish ==
  /\ call' = "none"
  /\ events' = <<>> /\ followUps' = <<>> /\ fuel' = 0 /\ answered' = <<>>
  /\ UNCHANGED <<vars, peer, performed>>

Returns(op, value) == result' = [op |-> op, value |-> value]

Start(stage, event) ==
  Idle /\ nextOpId < MaxOps /\ Drive(stage, event) /\ UNCHANGED callerVars

Ended(op) == Returns(op, IF rt.lastError = "none" THEN "closed" ELSE "error")

DeliverPlaintext ==
  /\ rt.plaintextOut # <<>>
  /\ rt' = [rt EXCEPT !.plaintextOut = <<>>]
  /\ received' = received \o rt.plaintextOut[1]
  /\ Returns("recv", "bytes")
  /\ Finish
  /\ UNCHANGED <<wireVars, owned>>

RecvStart == Start("recv", Event("appRecv")) /\ UNCHANGED rt

\* Nothing was buffered: read the transport once, then ask again.
RecvPull ==
  /\ call = "recv" /\ Driven /\ rt.plaintextOut = <<>> /\ Live
  /\ Drive("pull", Event("transportReadable"))
  /\ UNCHANGED <<rt, callerVars>>

RecvRetry ==
  /\ call = "pull" /\ Driven
  /\ Drive("retry", Event("appRecv"))
  /\ UNCHANGED <<rt, callerVars>>

RecvReturn ==
  /\ call \in {"recv", "retry"} /\ Driven
  /\ \/ DeliverPlaintext
     \/ /\ rt.plaintextOut = <<>>
        /\ \/ Terminal /\ Ended("recv")
           \/ Live /\ call = "retry" /\ Returns("recv", "wouldBlock")
        /\ Finish
        /\ UNCHANGED <<rt, wireVars, received, owned>>

\* The prefix of n offered units whose record fits below the egress cap.
Admitted(n) ==
  LET most == MaxPlaintextForProtectedBudget(MaxCiphertext - Len(rt.outbound))
  IN  IF n < most THEN n ELSE most

\* Faulty form of SendStart: the count of the last send is still there.
SendKeepsCount(n) ==
  /\ Idle /\ nextOpId < MaxOps /\ owned + n <= MaxSends
  /\ Live /\ Admitted(n) > 0
  /\ Drive("send", [ev |-> "appSend",
                    plain |-> [i \in 1..Admitted(n) |-> owned + i]])
  /\ UNCHANGED <<rt, callerVars>>

SendStart(n) ==
  /\ Idle /\ nextOpId < MaxOps /\ owned + n <= MaxSends
  /\ Live /\ Admitted(n) > 0
  /\ Drive("send", [ev |-> "appSend",
                    plain |-> [i \in 1..Admitted(n) |-> owned + i]])
  /\ rt' = [rt EXCEPT !.acceptedBytes = 0]
  /\ UNCHANGED callerVars

\* Refused or empty offers reach no core.
SendNothing(n) ==
  /\ Idle /\ owned + n <= MaxSends
  /\ \/ Terminal /\ Ended("send")
     \/ /\ Live /\ Admitted(n) = 0
        /\ Returns("send", IF n = 0 /\ Connected THEN "wrote"
                                                 ELSE "wouldBlock")
  /\ UNCHANGED <<vars, peer, call, driveVars, rt, wireVars, received, owned>>

SendReturn ==
  /\ call = "send" /\ Driven
  /\ \/ /\ Terminal
        /\ Ended("send") /\ UNCHANGED owned
     \/ /\ Live /\ rt.acceptedBytes > 0
        /\ Returns("send", "wrote") /\ owned' = owned + rt.acceptedBytes
     \/ /\ Live /\ rt.acceptedBytes = 0
        /\ Returns("send", "wouldBlock") /\ UNCHANGED owned
  /\ Finish
  /\ UNCHANGED <<rt, wireVars, received>>

FlushStart == Start("flush", Event("appFlush")) /\ UNCHANGED rt

FlushReturn ==
  /\ call = "flush" /\ Driven
  /\ Drain(rt.outbound)
  /\ Returns("flush", IF rt'.lastError # "none" THEN "error"
                      ELSE IF rt'.outbound = <<>> THEN "flushed"
                      ELSE "needWrite")
  /\ Finish
  /\ UNCHANGED <<received, owned>>

CloseStart ==
  \E mode \in CloseMode :
    Start("close", [ev |-> "appClose", mode |-> mode]) /\ UNCHANGED rt

CloseReturn ==
  /\ call = "close" /\ Driven
  /\ Returns("close", IF hs = "closed" \/ rt.terminal THEN "closed"
                                                      ELSE "closeStarted")
  /\ Finish
  /\ UNCHANGED <<rt, wireVars, received, owned>>

\* progress on a timeout or a readiness event.
ProgressStart ==
  \E event \in {"timeout", "transportEof", "transportReadable"} :
    /\ event = "transportReadable" => ReadsInProgress
    /\ Start("progress", Event(event)) /\ UNCHANGED rt

ProgressReturn ==
  /\ call = "progress" /\ Driven
  /\ Finish
  /\ UNCHANGED <<rt, wireVars, callerVars>>

-----------------------------------------------------------------------------
ConnInit ==
  /\ Init
  /\ peer \in Streams
  /\ call = "none" /\ result = [op |-> "none", value |-> "none"]
  /\ events = <<>> /\ followUps = <<>> /\ performed = 0 /\ fuel = 0
  /\ answered = <<>>
  /\ rt = [outbound |-> <<>>, plaintextOut |-> <<>>, acceptedBytes |-> 0,
           lastError |-> "none", terminal |-> FALSE, keys |-> {}]
  /\ wire = <<>> /\ closed = FALSE
  /\ received = <<>> /\ owned = 0

Calls ==
  \/ RecvStart \/ RecvPull \/ RecvRetry \/ RecvReturn
  \/ \E n \in 0..MaxSends : SendStart(n) \/ SendNothing(n)
  \/ SendReturn
  \/ FlushStart \/ FlushReturn
  \/ CloseStart \/ CloseReturn
  \/ ProgressStart \/ ProgressReturn

ConnNext == Step \/ Execute \/ Calls

ConnSpec == ConnInit /\ [][ConnNext]_connVars

-----------------------------------------------------------------------------
(* Properties.                                                             *)

Numbered(bytes) == \A i \in 1..Len(bytes) : bytes[i] = i
OrNothing(buffered) == IF buffered = <<>> THEN <<>> ELSE buffered[1]

Written == wire \o rt.outbound

\* Where the records of these types are, and how many lie before place i.
Places(recs) == {i \in 1..Len(Written) : Written[i].rec \in recs}
Before(recs, i) == Cardinality({j \in Places(recs) : j < i})

AppRecords == {"applicationData", "alert"}
Committed == Cardinality(Places({"data"}))

\* What recv has returned, and then what waits for it in runtime and core,
\* is the beginning of what the peer sealed, each unit once and in order,
\* however the network reorders, repeats, forges, coalesces and withholds
\* records.  The peer numbers the units of its stream 1, 2, 3 and so on.
InOrderDelivery ==
  Numbered(received \o OrNothing(rt.plaintextOut) \o OrNothing(pendingPlain))

\* send answers wrote n when the connection has taken exactly n units: they
\* are once and in order in the records of the queue and of the transport,
\* and no unit is there that was not reported, whatever is written in parts,
\* fails or is refused in between (RFC 010 4).
OwnedExactlyOnce ==
  /\ \A i \in Places({"data"}) : Written[i].unit = Before({"data"}, i) + 1
  /\ Idle /\ Live /\ ~rt.terminal => Committed = owned

\* Data records and close_notify leave with the numbers 0, 1, 2 ..., without
\* a gap, so that the peer can open every one of them.
ApplicationRecords ==
  \A i \in Places(AppRecords) : Written[i].seq = Before(AppRecords, i)

\* An alert, close_notify included, is the last thing this side ever sends,
\* and a graceful close from connected shuts the transport behind it, never
\* before it or before the data sealed ahead of it (RFC 013 5), as long as
\* neither transport nor provider has failed.
AlertIsLast ==
  /\ \A i \in 1..Len(Written) :
       Written[i].rec \in {"alert", "fatalAlert"} => i = Len(Written)
  /\ closed /\ closeState = "sentCloseNotify"
     /\ writeEpoch.seq > 0 /\ rt.lastError = "none" =>
       Written[Len(Written)].rec = "alert"

\* After a send that took plaintext the queue is below the configured cap
\* (RFC 042 A1), however full earlier sends have left it.
CapHolds == [][owned' # owned => Len(rt'.outbound) <= MaxCiphertext]_connVars

\* A connection that has ended holds no traffic secret when the call returns
\* (RFC 037 3): by close, alert, failure, end of stream or timeout, which the
\* core sees, and where the runtime gives up under a core that goes on, for an
\* answer of the wrong kind or a certificate that fits no record.  A transport
\* that breaks in a write is excepted as long as core and caller go on: see
\* EveryEndDropsSecrets.
SecretsDropped ==
  Idle /\ (\/ Terminal \/ closed
           \/ rt.terminal /\ rt.lastError # "transport") => rt.keys = {}

\* Every flight message but the ServerHello goes out encrypted (RFC 8446 4).
FlightProtected ==
  \A i \in 1..Len(Written) :
    Written[i].rec = "flight" /\ Written[i].msg # "ServerHello" =>
      Written[i].protected

-----------------------------------------------------------------------------
(* The connection implements SecureChannel.                                *)

\* The channel has ended when the core has left connected or terminate has
\* dropped the secrets under it.  A transport that breaks does not end it: the
\* core goes on sealing into the queue.
ChannelStatus ==
  IF hs \in TerminalPhase \cup {"closing"} THEN "ended"
  ELSE IF hs # "connected" THEN "opening"
  ELSE IF rt.keys = {} THEN "ended" ELSE "open"

\* Plaintext between the core that gave it up and the runtime.
Emitting ==
  IF ~Performed /\ Current.act = "emitPlaintext" THEN Current.content ELSE <<>>

Channel ==
  INSTANCE SecureChannel
  WITH status <- ChannelStatus,
       buffer <- OrNothing(rt.plaintextOut) \o Emitting
                   \o OrNothing(pendingPlain),
       delivered <- received,
       committed <- Committed,
       accepted <- owned

\* Every step of core, interpreter, provider and transport is a step of the
\* channel or none: nothing is read or sealed before the channel opens or after
\* it has ended, it neither reopens nor opens twice, and send reports exactly
\* what was sealed.
ImplementsChannel == Channel!Spec

-----------------------------------------------------------------------------
(* What the documents and comments of the repository say and the code does *)
(* not do: each is the property of a run that expects a violation.         *)

\* On every terminal path the interpreter drops the traffic secrets
\* (proof-assumptions.md).
EveryEndDropsSecrets ==
  Idle /\ (Terminal \/ closed \/ rt.terminal) => rt.keys = {}

\* After the peer's close_notify recv returns what is buffered and then eof
\* (alerts-close.md).
CleanEndIsEof ==
  [][result' # result /\ result'.op = "recv" /\ rt.lastError = "none"
     /\ closeState = "receivedCloseNotify" =>
       result'.value \in {"bytes", "eof"}]_connVars
=============================================================================
