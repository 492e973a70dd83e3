----------------------------- MODULE MCTlsCore ------------------------------
(***************************************************************************)
(* Inputs that exercise the open core: handshake messages whole, split and *)
(* coalesced, every record type, and every verdict of opening a record.    *)
(***************************************************************************)
EXTENDS TlsCore

LOCAL Frag(m, parts) ==
  [i \in 1..Len(parts) |-> [msg |-> m, part |-> parts[i]]]
LOCAL Hs(frags) == [outer |-> "handshake", frags |-> frags]
LOCAL App(b) == [outer |-> "applicationData", body |-> b]
LOCAL Outer(o) == [outer |-> o]

Whole(m) == Hs(Frag(m, [i \in 1..MessageSize(m) |-> i]))

MCSealed == {"body"}
MCPayloads == {<<1>>, <<1, 2>>}

LOCAL Control ==
  {<<Outer(o)>> : o \in {"compatCcs", "otherCcs", "invalidType", "badHeader"}}
  \cup {<<[outer |-> "alert", alert |-> a]>> : a \in Alert}

\* Every handshake message whole, the ClientHello also in two records and
\* coalesced with the start of the next message.
MCChunks ==
  {<<>>, <<App("body")>>,
   <<Hs(Frag("ClientHello", <<1>>))>>, <<Hs(Frag("ClientHello", <<2>>))>>,
   <<Hs(Frag("ClientHello", <<1, 2>>) \o Frag("Finished", <<1>>))>>,
   <<Hs(Frag("Finished", <<2>>))>>}
  \cup {<<Whole(m)>> : m \in Message}
  \cup Control

MCInners ==
  {[ctype |-> "applicationData", content |-> <<1>>]}
  \cup {[ctype |-> "handshake", msg |-> m] : m \in {"Finished", "Malformed"}}
  \cup {[ctype |-> "alert", alert |-> a] : a \in Alert}
  \cup {[ctype |-> c] : c \in {"changeCipherSpec", "invalid", "allZero"}}
=============================================================================
