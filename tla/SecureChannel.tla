---------------------------- MODULE SecureChannel ---------------------------
(***************************************************************************)
(* What a connection promises its consumer, whatever the handshake, the    *)
(* records, the provider and the transport do underneath: a channel that   *)
(* opens once, carries plaintext in order in both directions while it is   *)
(* open, reports as accepted exactly what it has committed to send, and    *)
(* ends once.                                                              *)
(*                                                                         *)
(* The peer's plaintext units are 1, 2, 3 and so on, and so are the units  *)
(* the consumer offers.                                                    *)
(***************************************************************************)
EXTENDS Integers, Sequences

VARIABLES
  status,     \* "opening", "open" or "ended"
  buffer,     \* plaintext that has arrived and waits for the consumer
  delivered,  \* plaintext the consumer has read
  committed,  \* units sealed for the peer, in order
  accepted    \* units the consumer was told are accepted

channelVars == <<status, buffer, delivered, committed, accepted>>

Init ==
  /\ status = "opening"
  /\ buffer = <<>> /\ delivered = <<>>
  /\ committed = 0 /\ accepted = 0

Open ==
  /\ status = "opening" /\ status' = "open"
  /\ UNCHANGED <<buffer, delivered, committed, accepted>>

\* The channel ends from any state; what the consumer has not read may be lost.
End ==
  /\ status' = "ended"
  /\ buffer' \in {buffer, <<>>}
  /\ UNCHANGED <<delivered, committed, accepted>>

\* The next units of the peer, only on an open channel.
Arrive ==
  /\ status = "open"
  /\ \E n \in 1..Len(buffer') :
       buffer' = buffer \o [i \in 1..n |-> Len(delivered \o buffer) + i]
  /\ UNCHANGED <<status, delivered, committed, accepted>>

Deliver ==
  /\ buffer # <<>>
  /\ delivered' = delivered \o buffer /\ buffer' = <<>>
  /\ UNCHANGED <<status, committed, accepted>>

\* Units are sealed only on an open channel.
Commit ==
  /\ status = "open"
  /\ committed' > committed
  /\ UNCHANGED <<status, buffer, delivered, accepted>>

\* The consumer learns of all that was committed since, and of no more, while
\* the channel is open.  One that ends in the middle of a call may still answer
\* that call with units that are lost.
Accept ==
  /\ accepted' > accepted
  /\ status = "open" => accepted' = committed
  /\ UNCHANGED <<status, buffer, delivered, committed>>

Next == Open \/ End \/ Arrive \/ Deliver \/ Commit \/ Accept

Spec == Init /\ [][Next]_channelVars
=============================================================================
