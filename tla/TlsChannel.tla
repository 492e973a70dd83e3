----------------------------- MODULE TlsChannel -----------------------------
(***************************************************************************)
(* The core and the asynchronous crypto provider it is specified for,      *)
(* which answers late and in any order, with an application that sends,    *)
(* receives and closes, and the peer of TlsPeer.  The transport is read on *)
(* every readiness event, whatever is still buffered.                      *)
(***************************************************************************)
EXTENDS TlsPeer

VARIABLES
  requests,    \* calls the provider has not answered
  sealed       \* nonces of protected records written so far

envVars == <<peer, requests, sealed>>
channelVars == <<vars, envVars>>

-----------------------------------------------------------------------------
(* What the surroundings do with the actions of a step.                    *)

Performed(name) == {i \in 1..Len(out') : out'[i].act = name}

Issued ==
  {[id |-> out'[i].id, op |-> out'[i].op] : i \in Performed("callCrypto")}

Nonce(epoch, seq) == [epoch |-> epoch, seq |-> seq]

\* Records protected by a write key: seals the provider is asked for, and
\* handshake and alert records the interpreter seals itself.
Protected(a) ==
  \/ a.act = "callCrypto" /\ a.op.kind = "aeadSeal"
  \/ a.act \in {"writeHandshake", "writeAlert"} /\ a.epoch # "initial"

NonceOf(a) == IF a.act = "callCrypto" THEN Nonce(a.op.epoch, a.op.seq)
                                      ELSE Nonce(a.epoch, a.seq)

Sealing == {i \in 1..Len(out') : Protected(out'[i])}

\* Calls reach the provider and records are protected, whatever the event.
Execute(answered) ==
  /\ requests' = (requests \ answered) \cup Issued
  /\ sealed' = sealed \cup {NonceOf(out'[i]) : i \in Sealing}
  /\ UNCHANGED peer

-----------------------------------------------------------------------------
(* Events.                                                                 *)

\* The flight is written when the core has passed it.
FlightSeen == hs \notin {"start"} \cup Flight

Deliver(recs) ==
  /\ WithinBounds(recs)
  /\ \A i \in 1..Len(recs) : Deliverable(recs[i], FlightSeen)
  /\ TransportBytes(recs)
  /\ Execute({})

Application ==
  /\ \/ AppRecv
     \/ \E plain \in Payloads : nextOpId < MaxOps /\ AppSend(plain)
     \/ \E mode \in CloseMode : AppClose(mode)
  /\ Execute({})

Other ==
  /\ TransportEof \/ Timeout \/ Quiet
  /\ Execute({})

\* The provider's verdict on a call; the core drops what it does not expect.
Outcome(call) ==
  \/ CryptoFailed(call.id)
  \/ Succeeds(call)
  \/ DroppedResult(call.id)
  \/ Absorb

ProviderAnswers ==
  \E call \in requests : Outcome(call) /\ Execute({call})

ChannelInit ==
  /\ Init
  /\ peer \in Streams
  /\ requests = {} /\ sealed = {}

ChannelNext ==
  \/ \E recs \in Chunks : Deliver(recs)
  \/ Application
  \/ Other
  \/ ProviderAnswers

ChannelSpec == ChannelInit /\ [][ChannelNext]_channelVars

\* The interpreter submits every call in the step that issued it and feeds
\* the answer, or the provider's error as a failed result, to the core.
FairChannelSpec == ChannelSpec /\ WF_channelVars(ProviderAnswers)

-----------------------------------------------------------------------------
(* Properties.                                                             *)

\* The provider owes an answer for exactly the operations the core holds
\* outstanding, of the same kind: correlation by id neither loses, leaks nor
\* crosses an operation on any path of a live connection.
OpsMatchProvider ==
  Live => {<<o.id, o.kind>> : o \in pendingOps}
          = {<<c.id, c.op.kind>> : c \in requests}

\* No two records are ever protected under the same sequence number of the
\* application write key: data records, close_notify and fatal alerts share
\* one counter (RFC 8446 5.3).
ApplicationNonceFresh ==
  [][\A i \in Sealing :
       NonceOf(out'[i]).epoch = "application" =>
         /\ NonceOf(out'[i]) \notin sealed
         /\ \A j \in Sealing : NonceOf(out'[j]) = NonceOf(out'[i]) => j = i
    ]_channelVars

\* The server flight always comes to an end, in sentServerFinished or in the
\* failure of the connection: the chain of calls is never broken.
FlightCompletes == hs \in Flight ~> hs \notin Flight

-----------------------------------------------------------------------------
(* What the documents and comments of the repository say and the code does *)
(* not do: the property of a run that expects a violation.                 *)

\* A nonce of the handshake write key is never reused either (RFC 005 7.3).
\* The flight numbers its records 0..3 without advancing writeEpoch, and a
\* fatal alert during the handshake is sealed under the number 0 again.
HandshakeNonceFresh ==
  [][\A i \in Sealing :
       NonceOf(out'[i]).epoch = "handshake" => NonceOf(out'[i]) \notin sealed
    ]_channelVars
=============================================================================
