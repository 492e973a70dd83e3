---------------------------- MODULE MCTlsChannel ----------------------------
(***************************************************************************)
(* A peer that seals two data records and its close_notify, or two data    *)
(* records after a post-handshake message, and a network that delivers     *)
(* them alone, in pairs, out of order, repeated, or mixed with forged and  *)
(* plaintext records.                                                      *)
(***************************************************************************)
EXTENDS TlsChannel

LOCAL Data(n) == [ctype |-> "applicationData", content |-> <<n>>]

MCStreams ==
  {<<Data(1), Data(2), CloseNotify>>,
   <<Data(1), [ctype |-> "handshake", msg |-> "Malformed"], Data(2)>>}

MCInners == {[ctype |-> "handshake", msg |-> "Finished"]} \cup
            UNION {{s[i] : i \in 1..Len(s)} : s \in MCStreams}

MCSealed == {Forged} \cup UNION {PeerBodies(s) : s \in MCStreams}

MCPayloads == {<<1>>}

LOCAL App(b) == <<[outer |-> "applicationData", body |-> b]>>
LOCAL Whole(m) ==
  <<[outer |-> "handshake",
     frags |-> [i \in 1..MessageSize(m) |-> [msg |-> m, part |-> i]]]>>

MCChunks ==
  {Whole("ClientHello"), Whole("Finished"), Whole("Malformed"),
   <<[outer |-> "alert", alert |-> "closeNotify"]>>,
   <<[outer |-> "compatCcs"]>>}
  \cup {App(b) : b \in MCSealed}
  \cup {App(Body("application", 0, Data(1)))
          \o App(Body("application", 1, Data(2)))}
=============================================================================
