------------------------------- MODULE TlsPeer -------------------------------
(***************************************************************************)
(* The other end of the connection: one genuine TLS client behind a        *)
(* network that may hold back, repeat, reorder or forge its records, and   *)
(* ideal cryptography.  A body opens only under the epoch and sequence     *)
(* number the peer sealed it with.                                         *)
(***************************************************************************)
EXTENDS TlsCore

CONSTANT Streams    \* what the peer may seal under its application key

ASSUME StreamsAssumption == Streams \subseteq Seq(Inner)

VARIABLE peer       \* the stream of this connection's peer

\* A body stands for the plaintext it opens to.
ASSUME SealedAssumption ==
  Sealed \subseteq [epoch : Epoch, seq : Nat, inner : Inner]

Body(epoch, seq, inner) == [epoch |-> epoch, seq |-> seq, inner |-> inner]

FinishedBody ==
  Body("handshake", 0, [ctype |-> "handshake", msg |-> "Finished"])

PeerBodies(stream) ==
  {FinishedBody} \cup
  {Body("application", i - 1, stream[i]) : i \in 1..Len(stream)}

\* A body nobody holding the keys has sealed.
Forged == Body("initial", 0, [ctype |-> "allZero"])

\* What the network can deliver.  A genuine peer seals nothing before it has
\* seen the server flight.
Deliverable(rec, flightSeen) ==
  rec.outer = "applicationData" =>
    \/ rec.body = Forged
    \/ flightSeen /\ rec.body \in PeerBodies(peer)

Opens(op) ==
  op.body # Forged /\ op.body.epoch = op.epoch /\ op.body.seq = op.seq

Verifies(op) == op.msg = "Finished"

\* The core takes the successful answer to an outstanding call, if the call
\* has one.
Succeeds(call) ==
  CASE call.op.kind = "aeadSeal" -> AeadSealed(call.id)
    [] call.op.kind = "aeadOpen" ->
         Opens(call.op) /\ AeadOpened(call.id, call.op.body.inner)
    [] call.op.kind = "verifyFinished" ->
         Verifies(call.op) /\ GatingResult(call.id, "verified")
    [] OTHER -> GatingResult(call.id, AnswerTo(call.op.kind))
=============================================================================
