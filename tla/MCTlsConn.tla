------------------------------ MODULE MCTlsConn ------------------------------
(***************************************************************************)
(* A peer that seals two data records and its close_notify, and a network  *)
(* that delivers its records alone or in pairs, out of order, repeated, or *)
(* mixed with forged and plaintext records and with bytes that complete    *)
(* none.                                                                   *)
(***************************************************************************)
EXTENDS TlsConn

LOCAL Data(n) == [ctype |-> "applicationData", content |-> <<n>>]

MCStreams == {<<Data(1), Data(2), CloseNotify>>}

MCInners == {FinishedBody.inner} \cup
            UNION {{s[i] : i \in 1..Len(s)} : s \in MCStreams}

MCSealed == {Forged} \cup UNION {PeerBodies(s) : s \in MCStreams}

MCPayloads == {<<1>>}

LOCAL App(b) == <<[outer |-> "applicationData", body |-> b]>>
LOCAL DataBody(n) == App(Body("application", n - 1, Data(n)))
LOCAL Hello ==
  <<[outer |-> "handshake",
     frags |-> [i \in 1..2 |-> [msg |-> "ClientHello", part |-> i]]]>>

MCChunks ==
  {<<>>, Hello, <<[outer |-> "alert", alert |-> "fatal"]>>}
  \cup {App(b) : b \in MCSealed}
  \cup {App(FinishedBody) \o DataBody(1), DataBody(1) \o DataBody(2)}

\* Without the bytes that complete no record.
WholeChunks == MCChunks \ {<<>>}
=============================================================================
