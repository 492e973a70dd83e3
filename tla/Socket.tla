------------------------------- MODULE Socket -------------------------------
(***************************************************************************)
(* The socket shim (kroopt_socket.c) over one connected stream socket: the *)
(* client end uses the blocking whole-buffer calls, the server end the     *)
(* non-blocking single calls.  The kernel holds a bounded buffer for each  *)
(* direction, hands over any part of it, and may break.                    *)
(*                                                                         *)
(* A call is an operator over what it returns and the state it changes.    *)
(***************************************************************************)
EXTENDS Integers, Sequences, SequencesExt, FiniteSetsExt

CONSTANT KernelCap    \* octets the kernel buffers in each direction

ASSUME KernelCapAssumption == KernelCap \in Nat \ {0}

VARIABLES
  toServer, toClient,   \* octets in the kernel, by direction
  clientDone,           \* the client end is closed for writing
  broken,               \* reads and writes fail
  fds                   \* open descriptors of the server: "listener", "conn"

kernel == <<toServer, toClient, clientDone, broken, fds>>

KernelInit ==
  /\ toServer = <<>> /\ toClient = <<>>
  /\ clientDone = FALSE /\ broken = FALSE
  /\ fds = {}

DropFirst(s, n) == SubSeq(s, n + 1, Len(s))

-----------------------------------------------------------------------------
(* Descriptors.                                                            *)

\* kroopt_sock_listen: socket, bind and listen; the descriptor is closed
\* again when one of the last two fails.
SockListen(ok) == fds' = IF ok THEN fds \cup {"listener"} ELSE fds

\* kroopt_sock_accept
SockAccept(ok) ==
  "listener" \in fds /\ fds' = IF ok THEN fds \cup {"conn"} ELSE fds

\* kroopt_sock_close
SockClose(which) == fds' = fds \ which

-----------------------------------------------------------------------------
(* Blocking calls of the client end.                                       *)

\* Faulty form: the rest is written from the start of buf.
SockWriteRestarts(buf, sent, k) ==
  /\ sent < Len(buf) /\ ~broken
  /\ k \in 1..Min({Len(buf) - sent, KernelCap - Len(toServer)})
  /\ toServer' = toServer \o SubSeq(buf, 1, k)

\* One write of the loop in kroopt_sock_write: some of buf, sent of which is
\* written already.  The loop ends when all is written or the socket breaks.
SockWrite(buf, sent, k) ==
  /\ sent < Len(buf) /\ ~broken
  /\ k \in 1..Min({Len(buf) - sent, KernelCap - Len(toServer)})
  /\ toServer' = toServer \o SubSeq(buf, sent + 1, sent + k)

\* One read of the loop in kroopt_sock_read, got of n octets being there.
SockRead(n, got, k) ==
  /\ got < n /\ ~broken
  /\ k \in 1..Min({n - got, Len(toClient)})
  /\ toClient' = DropFirst(toClient, k)

-----------------------------------------------------------------------------
(* Non-blocking calls of the server end (O_NONBLOCK is set after accept).  *)

\* kroopt_sock_recv_nb: one read of at most cap octets.  Errors include a
\* read that was interrupted.
RecvNb(cap, status, bytes) ==
  \/ /\ ~broken /\ toServer # <<>> /\ status = "data"
     /\ \E k \in 1..Min({cap, Len(toServer)}) : bytes = SubSeq(toServer, 1, k)
     /\ toServer' = DropFirst(toServer, Len(bytes))
  \/ /\ bytes = <<>> /\ UNCHANGED toServer
     /\ \/ ~broken /\ toServer = <<>> /\ clientDone /\ status = "eof"
        \/ ~broken /\ toServer = <<>> /\ ~clientDone /\ status = "wouldBlock"
        \/ broken /\ status = "error"

\* kroopt_sock_send_nb: the octets accepted, none for wouldBlock, -1 for an
\* error.
SendNb(buf, accepted) ==
  LET room == Min({Len(buf), KernelCap - Len(toClient)})
  IN \/ /\ ~broken
        /\ accepted \in (IF room = 0 THEN {0} ELSE 1..room)
        /\ toClient' = toClient \o SubSeq(buf, 1, accepted)
     \/ broken /\ accepted = -1 /\ UNCHANGED toClient

\* kroopt_sock_poll: what is ready of what is asked; hang-up and error count
\* as readable.
PollMask(wantWrite) ==
  (IF toServer # <<>> \/ clientDone \/ broken THEN {"readable"} ELSE {}) \cup
  (IF wantWrite /\ Len(toClient) < KernelCap THEN {"writable"} ELSE {})

\* The world: the client ends its stream, the connection breaks.
Break == broken' = TRUE /\ UNCHANGED <<toServer, toClient, clientDone, fds>>
=============================================================================
