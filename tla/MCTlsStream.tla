----------------------------- MODULE MCTlsStream ----------------------------
(***************************************************************************)
(* Clients that split a message over records, coalesce messages and        *)
(* records, mix in other content types, or break a limit.                  *)
(***************************************************************************)
EXTENDS TlsStream

LOCAL R(type, body) == [type |-> type, length |-> Len(body), body |-> body]
LOCAL H(body) == R(Handshake, body)

MCScripts ==
  { <<H(<<1>>), H(<<1, 7>>), R(23, <<5>>)>>,         \* one message, split
    <<H(<<1, 1, 7, 2>>), R(20, <<1>>), H(<<0>>)>>,   \* two, coalesced
    <<H(<<1, 1, 7>>), H(<<2, 2, 8>>), H(<<9, 3, 0>>)>>,     \* over the budget
    <<H(<<4, 6, 0>>), H(<<0, 0>>)>>,                 \* over the reassembly cap
    <<H(<<1, 0>>), R(99, <<>>)>>,                    \* invalid content type
    <<H(<<1, 0>>),
      [type |-> Handshake, length |-> 9, body |-> <<1>>]>> }  \* oversize

MCReply == <<101, 102, 103>>
=============================================================================
