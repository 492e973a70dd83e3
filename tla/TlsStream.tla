----------------------------- MODULE TlsStream ------------------------------
(***************************************************************************)
(* From the socket to handshake messages and back: a client writes the     *)
(* octets of a script of records; a readiness-driven server (the reactor   *)
(* of Tests/LiveServerNb.lean over kroopt_socket.c) reads them in chunks,  *)
(* and the core frames records and handshake messages out of its buffers   *)
(* (Parse/Record.lean, handleTransportBytes).                              *)
(*                                                                         *)
(* Octets are numbers.  The headers are scaled: a record is its content    *)
(* type, one octet of length and its body; a handshake message its kind,   *)
(* one octet of length and its body.                                       *)
(***************************************************************************)
EXTENDS Socket

CONSTANTS
  Scripts,            \* sequences of records [type, length, body] of a client
  Reply,              \* octets the server answers every message with
  MaxRecord,          \* maxCiphertextFragment
  MaxHandshakeBytes,  \* ResourceLimits.maxHandshakeBytes
  MaxReasm,           \* maxHandshakeReasmBytes
  ReadCap,            \* octets asked of one read
  FlushFuel, DrainFuel

ASSUME StreamBounds ==
  /\ ReadCap \in Nat \ {0} /\ FlushFuel \in Nat \ {0} /\ DrainFuel \in Nat
  /\ MaxRecord \in Nat /\ MaxHandshakeBytes \in Nat /\ MaxReasm \in Nat

\* A record says how long its body is, unless it claims more than is allowed.
ASSUME ScriptsAssumption ==
  /\ Reply \in Seq(Nat)
  /\ \A s \in Scripts : \A i \in DOMAIN s :
       s[i].length = Len(s[i].body) \/ s[i].length > MaxRecord
  /\ \A s \in Scripts : s \in Seq([type : Nat, length : Nat, body : Seq(Nat)])

VARIABLES
  script, written,        \* the client: what it writes, octets written so far
  got,                    \* octets of replies the client has read
  reactorIn, reactorOut,  \* buffers of the reactor
  inbound,                \* inboundCiphertext
  taken,                  \* records framed
  core,                   \* reasm, budget, messages framed and failure
  pc, fuel,               \* the reactor loop
  produced                \* history: all octets handed to the reactor

client == <<script, written, got>>
buffers == <<reactorIn, reactorOut, inbound, taken, core, produced>>
streamVars == <<kernel, client, buffers, pc, fuel>>

Handshake == 22
ContentTypes == 20..23    \* ContentType.ofByte; any other is invalid

Encode(record) == <<record.type, record.length>> \o record.body
EncodeAll(records) == FlattenSeq([i \in DOMAIN records |-> Encode(records[i])])

Stream == EncodeAll(script)

CoreInit == [reasm |-> <<>>, seen |-> 0, messages |-> <<>>, failed |-> "no"]

StreamInit ==
  /\ KernelInit
  /\ script \in Scripts /\ written = 0 /\ got = <<>>
  /\ reactorIn = <<>> /\ reactorOut = <<>>
  /\ inbound = <<>> /\ taken = <<>> /\ core = CoreInit
  /\ pc = "listen" /\ fuel = 0
  /\ produced = <<>>

-----------------------------------------------------------------------------
(* Framing.                                                                *)

\* tryTakeRecord: how the buffer begins.
RecordAt(buf) ==
  IF Len(buf) < 2 THEN "partial"
  ELSE IF buf[2] > MaxRecord THEN "oversize"
  ELSE IF Len(buf) < 2 + buf[2] THEN "partial" ELSE "whole"

\* frameHandshakeMessage: the length of the message the buffer begins with,
\* or 0 while it is incomplete.
MessageAt(buf) ==
  IF Len(buf) < 2 \/ Len(buf) < 2 + buf[2] THEN 0 ELSE 2 + buf[2]

\* Faulty form: the budget is charged for whole messages only.
ChargeMessage(c, body) ==
  IF MessageAt(c.reasm \o body) = 0 THEN c.seen
  ELSE c.seen + MessageAt(c.reasm \o body)

\* chargeHandshakeBytes
Charge(c, body) == c.seen + Len(body)

\* Faulty form: the tail behind a message is dropped.
HandshakeTakesAll(c, body) ==
  LET buf == c.reasm \o body
      n == MessageAt(buf)
  IN  IF Charge(c, body) > MaxHandshakeBytes THEN [c EXCEPT !.failed = "budget"]
      ELSE IF Len(buf) > MaxReasm
        THEN [c EXCEPT !.failed = "reasm", !.seen = Charge(c, body)]
      ELSE [c EXCEPT !.seen = Charge(c, body), !.reasm = <<>>,
                     !.messages = IF n = 0 THEN @ ELSE Append(@, SubSeq(buf, 1, n))]

\* The handshake branch of handleTransportBytes: charge, reassemble, take one
\* message.
HandshakeRecord(c, body) ==
  LET buf == c.reasm \o body
      n == MessageAt(buf)
  IN  IF Charge(c, body) > MaxHandshakeBytes THEN [c EXCEPT !.failed = "budget"]
      ELSE IF Len(buf) > MaxReasm
        THEN [c EXCEPT !.failed = "reasm", !.seen = Charge(c, body)]
      ELSE IF n = 0
        THEN [c EXCEPT !.seen = Charge(c, body), !.reasm = buf]
      ELSE [c EXCEPT !.seen = Charge(c, body), !.reasm = DropFirst(buf, n),
                     !.messages = Append(@, SubSeq(buf, 1, n))]

\* What the core makes of one record.
Route(c, record) ==
  IF record.type = Handshake THEN HandshakeRecord(c, record.body)
  ELSE IF record.type \notin ContentTypes THEN [c EXCEPT !.failed = "type"]
  ELSE c

\* handleTransportBytes: the octets are appended and at most one record taken;
\* a message is answered.  A core that has failed absorbs them.
Feed(bytes) ==
  LET buf == inbound \o bytes
      record == [type |-> buf[1], length |-> buf[2],
                 body |-> SubSeq(buf, 3, 2 + buf[2])]
      answered == core'.failed = "no"
                  /\ Len(core'.messages) > Len(core.messages)
  IN  \/ /\ core.failed # "no"
         /\ UNCHANGED <<inbound, taken, core, reactorOut, produced>>
      \/ /\ core.failed = "no" /\ RecordAt(buf) = "partial"
         /\ inbound' = buf
         /\ UNCHANGED <<taken, core, reactorOut, produced>>
      \/ /\ core.failed = "no" /\ RecordAt(buf) = "oversize"
         /\ inbound' = buf
         /\ core' = [core EXCEPT !.failed = "oversize"]
         /\ UNCHANGED <<taken, reactorOut, produced>>
      \/ /\ core.failed = "no" /\ RecordAt(buf) = "whole"
         /\ inbound' = DropFirst(buf, 2 + buf[2])
         /\ taken' = Append(taken, record)
         /\ core' = Route(core, record)
         /\ IF answered
            THEN /\ reactorOut' = reactorOut \o Reply
                 /\ produced' = produced \o Reply
            ELSE UNCHANGED <<reactorOut, produced>>

-----------------------------------------------------------------------------
(* The client.                                                             *)

\* Client and server drop out of each other's steps.
ClientOnly == UNCHANGED <<buffers, pc, fuel, fds, broken>>

ClientWrites ==
  /\ "conn" \in fds
  /\ \E k \in 1..KernelCap :
       SockWrite(Stream, written, k) /\ written' = written + k
  /\ UNCHANGED <<toClient, clientDone, script, got>>
  /\ ClientOnly

ClientReads ==
  /\ \E k \in 1..KernelCap :
       /\ SockRead(Len(got) + KernelCap, Len(got), k)
       /\ got' = got \o SubSeq(toClient, 1, k)
  /\ UNCHANGED <<toServer, clientDone, script, written>>
  /\ ClientOnly

ClientCloses ==
  /\ written = Len(Stream) /\ ~clientDone /\ clientDone' = TRUE
  /\ UNCHANGED <<toServer, toClient, client>>
  /\ ClientOnly

Breaks == "conn" \in fds /\ ~broken /\ Break /\ UNCHANGED <<client, buffers, pc, fuel>>

-----------------------------------------------------------------------------
(* The reactor.                                                            *)

Goto(label, f) == pc' = label /\ fuel' = f

\* The rest of the kernel stays while the server changes one part of it.
Start ==
  /\ \/ /\ pc = "listen"
        /\ \E ok \in BOOLEAN :
             SockListen(ok) /\ Goto(IF ok THEN "accept" ELSE "done", 0)
     \/ /\ pc = "accept"
        /\ \E ok \in BOOLEAN :
             SockAccept(ok) /\ Goto(IF ok THEN "flush" ELSE "close", FlushFuel)
  /\ UNCHANGED <<toServer, toClient, clientDone, broken, client, buffers>>

\* Faulty form: what a partial write took is sent again.
KeepsSent(accepted) == reactorOut' = reactorOut

\* flushOutbound: one send, until nothing is left, the fuel is used up or the
\* socket fails; a send that would block polls and tries again.
Sent(accepted) ==
  reactorOut' = IF accepted > 0 THEN DropFirst(reactorOut, accepted)
                ELSE reactorOut

Flush ==
  /\ pc = "flush" /\ reactorOut # <<>> /\ fuel > 0
  /\ \E accepted \in -1..KernelCap :
       /\ SendNb(reactorOut, accepted)
       /\ Sent(accepted)
       /\ Goto(IF accepted = -1 THEN "poll" ELSE "flush", fuel - 1)
  /\ UNCHANGED <<toServer, clientDone, broken, fds, client, reactorIn, inbound,
                 taken, core, produced>>

Flushed ==
  /\ pc = "flush" /\ (reactorOut = <<>> \/ fuel = 0)
  /\ Goto("poll", 0)
  /\ UNCHANGED <<kernel, client, buffers>>

\* The loop ends on a terminal core or when poll times out.
Poll ==
  /\ pc = "poll"
  /\ LET mask == PollMask(reactorOut # <<>>)
     IN  Goto(IF core.failed # "no" \/ mask = {} THEN "close"
              ELSE IF "readable" \in mask THEN "pump" ELSE "drive", 0)
  /\ UNCHANGED <<kernel, client, buffers>>

\* pumpInbound: an error is not told apart from nothing to read.
Pump ==
  /\ pc = "pump"
  /\ \E status \in {"data", "eof", "wouldBlock", "error"} :
       \E bytes \in {<<>>} \cup {SubSeq(toServer, 1, k) : k \in 1..Len(toServer)} :
         /\ RecvNb(ReadCap, status, bytes)
         /\ reactorIn' = reactorIn \o bytes
         /\ Goto(IF status = "eof" THEN "eof" ELSE "drive", 0)
  /\ UNCHANGED <<toClient, clientDone, broken, fds, client, reactorOut, inbound,
                 taken, core, produced>>

\* transportReadable: the core asks for the buffer of the reactor.
DriveReadable ==
  /\ pc = "drive"
  /\ Feed(reactorIn)
  /\ reactorIn' = <<>>
  /\ Goto("drain", DrainFuel)
  /\ UNCHANGED <<kernel, client>>

DriveEof ==
  /\ pc = "eof"
  /\ core' = IF core.failed = "no" THEN [core EXCEPT !.failed = "eof"] ELSE core
  /\ Goto("flush", FlushFuel)
  /\ UNCHANGED <<kernel, client, reactorIn, reactorOut, inbound, taken, produced>>

\* Faulty form: one record is taken and the rest waits for more octets.
DrainNothing ==
  /\ pc = "drain"
  /\ Goto("flush", FlushFuel)
  /\ UNCHANGED <<kernel, client, buffers>>

\* drainBuffered: the core is driven with no octets while that takes records.
Drain ==
  /\ pc = "drain"
  /\ IF inbound = <<>> \/ fuel = 0
     THEN Goto("flush", FlushFuel) /\ UNCHANGED buffers
     ELSE /\ Feed(<<>>) /\ UNCHANGED reactorIn
          /\ IF Len(inbound') >= Len(inbound) THEN Goto("flush", FlushFuel)
             ELSE Goto("drain", fuel - 1)
  /\ UNCHANGED <<kernel, client>>

Close ==
  /\ pc = "close"
  /\ SockClose({"conn", "listener"})
  /\ Goto("done", 0)
  /\ UNCHANGED <<toServer, toClient, clientDone, broken, client, buffers>>

Server ==
  \/ Start \/ Flush \/ Flushed \/ Poll \/ Pump
  \/ DriveReadable \/ DriveEof \/ Drain \/ Close

StreamNext == ClientWrites \/ ClientReads \/ ClientCloses \/ Breaks \/ Server

\* The server runs when it can, and a client that can write or read does.
StreamSpec ==
  /\ StreamInit /\ [][StreamNext]_streamVars
  /\ WF_streamVars(Server)
  /\ WF_streamVars(ClientWrites) /\ WF_streamVars(ClientReads)

-----------------------------------------------------------------------------
(* Properties.                                                             *)

\* The octets of the handshake, in the order the records carried them.
HandshakeOctets(records) ==
  FlattenSeq([i \in DOMAIN records |->
                IF records[i].type = Handshake THEN records[i].body ELSE <<>>])

\* However the octets are cut by writes, kernel and reads, the records framed
\* are those the client wrote; the messages framed and the reassembly buffer
\* together are the octets of the handshake, every message whole, every octet
\* charged once however a message is split over records; and a limit fails the
\* core when it is crossed and not before.
MessagesAsWritten ==
  LET octets == HandshakeOctets(taken)
  IN  /\ IsPrefix(taken, script)
      /\ \A i \in DOMAIN core.messages :
           MessageAt(core.messages[i]) = Len(core.messages[i])
      /\ core.failed \notin {"budget", "reasm"} =>
           FlattenSeq(core.messages) \o core.reasm = octets
      /\ core.failed = "oversize" => script[Len(taken) + 1].length > MaxRecord
      /\ core.failed = "reasm" =>
           Len(octets) > MaxReasm + Len(FlattenSeq(core.messages))
      /\ IF core.failed = "budget" THEN Len(octets) > MaxHandshakeBytes
         ELSE core.seen = Len(octets) /\ core.seen <= MaxHandshakeBytes

\* Every octet the client wrote is, once and in order, in a record taken, in a
\* buffer of core, reactor or kernel.
NoOctetLost ==
  core.failed = "no" =>
    EncodeAll(taken) \o inbound \o reactorIn \o toServer
      = SubSeq(Stream, 1, written)

\* What the server produced reaches the client once and in order, however
\* little of it each send takes.
RepliesInOrder == got \o toClient \o reactorOut = produced

\* Everything a client wrote is framed in the end, however records are
\* coalesced, unless the connection broke, failed, or was closed by a poll that
\* timed out ahead of octets still unwritten or in the kernel.
EverythingFramed ==
  <>[](\/ broken \/ core.failed # "no"
       \/ pc = "done" /\ (written < Len(Stream) \/ toServer # <<>>)
       \/ taken = script)
=============================================================================
