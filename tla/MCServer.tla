------------------------------ MODULE MCServer ------------------------------
(***************************************************************************)
(* What a server keeps beside the connection's core, three machines that   *)
(* share no state, so that each is explored while the others rest.         *)
(* Negotiation: configurations with up to three routes for two spellings   *)
(* of one name and a wildcard that covers it, sound and unsound endpoints, *)
(* and clients that differ in name, protocols, shares, schemes and         *)
(* well-formedness.  The native store of private keys, and the arena of    *)
(* one connection's traffic secrets.                                       *)
(***************************************************************************)
EXTENDS TlsNegotiation, NativeSecrets, SecretArena, TLC
CONSTANTS k1, k2, odd

-----------------------------------------------------------------------------
(* The stores.                                                             *)

MCKeySize == [k \in Keys |-> IF k = odd THEN 48 ELSE SeedSize]

Sym == Permutations({k1, k2})

-----------------------------------------------------------------------------
(* Configurations and clients.                                             *)

LOCAL L(text, upper, form) ==
  [text |-> text, upper |-> upper, form |-> form]
LOCAL a == L("a", FALSE, "plain")
LOCAL A == L("a", TRUE, "plain")
LOCAL b == L("b", FALSE, "plain")
LOCAL c == L("c", FALSE, "plain")
LOCAL o == L("1", FALSE, "octet")
LOCAL reserved == L("xn--", FALSE, "reserved")
LOCAL bad == L("?", FALSE, "bad")

MCLabels == {a, A, b, c, o, reserved, bad}

LOCAL Exact(name) == [kind |-> "exact", name |-> name]
LOCAL Wildcard(name) == [kind |-> "wildcard", name |-> name]

\* The endpoints differ in every list, and by their certificate.
LOCAL Server(id, key, suites, groups, schemes, alpn) ==
  [chain |-> [id |-> id, kind |-> key, certificates |-> 1,
              oversized |-> FALSE],
   key |-> key, suites |-> suites, groups |-> groups, schemes |-> schemes,
   alpn |-> alpn]

LOCAL Sound ==
  <<Server(1, "ed25519", <<"aes128GcmSha256">>, <<"x25519">>,
           <<"ed25519">>, <<"h2", "http">>),
    Server(2, "ecdsaP256", <<"chacha20Poly1305Sha256">>,
             <<"secp256r1", "x25519">>,
             <<"ecdsaSecp256r1Sha256", "ed25519">>, <<"http">>),
    Server(3, "ed25519", <<"aes256GcmSha384">>, <<"secp256r1">>,
             <<"ed25519">>, <<>>)>>

LOCAL E == Sound[1]
LOCAL Unsound ==
  {[E EXCEPT !.suites = <<>>], [E EXCEPT !.alpn = <<"empty">>],
   [E EXCEPT !.chain.certificates = 0], [E EXCEPT !.chain.oversized = TRUE],
   [E EXCEPT !.key = "rsa"], [E EXCEPT !.schemes = <<"rsaPssRsaeSha256">>],
   [E EXCEPT !.groups = <<>>], [E EXCEPT !.groups = <<"x25519", "x25519">>],
   [E EXCEPT !.schemes = <<"ed25519", "rsaPssRsaeSha256">>]}

LOCAL Bounds == [handshake |-> 5, clientHello |-> 2, ops |-> 2,
                 ciphertext |-> 23, steps |-> 1]

LOCAL Config(routes, default, mode, limits) ==
  [routes |-> routes, default |-> default, mode |-> mode, limits |-> limits]

LOCAL Patterns == {Exact(<<a, b>>), Exact(<<A, b>>), Wildcard(<<b>>)}
LOCAL Numbered(patterns) ==
  [i \in DOMAIN patterns |-> [pattern |-> patterns[i], endpoint |-> Sound[i]]]
LOCAL One(pattern, endpoint) ==
  <<[pattern |-> pattern, endpoint |-> endpoint]>>

MCConfigs ==
  {Config(Numbered(p), m[1], m[2], Bounds) :
     p \in UNION {[1..n -> Patterns] : n \in 0..3},
     m \in {<<<<>>, "clientPreferenceWithinAllowed">>,
            <<<<Sound[3]>>, "serverPreference">>,
            <<<<Sound[3]>>, "requireOverlap">>}}
  \cup {Config(One(Exact(<<a, b>>), e), <<>>, "serverPreference", Bounds) :
          e \in Unsound}
  \cup {Config(One(Exact(n), E), <<E>>, "serverPreference", Bounds) :
          n \in {<<bad>>, <<reserved, b>>, <<o, o, o, o>>}}
  \cup {Config(<<>>, <<E>>, "serverPreference",
               [Bounds EXCEPT !.clientHello = 6]),
        Config(<<>>, <<E>>, "serverPreference",
               [Bounds EXCEPT !.ciphertext = 22])}

MCCapabilities ==
  [suites |-> Suite, groups |-> Group, hashes |-> {"sha256", "sha384"},
   schemes |-> {"ed25519", "ecdsaSecp256r1Sha256"}, random |-> TRUE]

LOCAL Client ==
  [framed |-> TRUE, tls13 |-> TRUE,
   suites |-> <<"unknown", "aes256GcmSha384", "aes128GcmSha256">>,
   groups |-> <<<<"unknown", "secp256r1", "x25519">>>>,
   shares |-> <<"unknown", "secp256r1", "x25519">>,
   schemes |-> <<"unknown", "ed25519", "ecdsaSecp256r1Sha256">>,
   alpn |-> <<>>, sni |-> <<>>]

LOCAL Names == {<<a, b>>, <<A, b>>, <<c, b>>, <<b>>, <<c, a, b>>,
                <<o, o, o, o>>, <<reserved, b>>, <<bad>>, <<>>}

MCHellos ==
  {[Client EXCEPT !.sni = n, !.alpn = p] :
     n \in {<<>>} \cup {<<name>> : name \in Names},
     p \in {<<>>, <<<<"h2">>>>, <<<<"http", "h2">>>>, <<<<"spdy">>>>, <<<<>>>>}}
  \cup {[Client EXCEPT !.sni = <<n>>, !.shares = g, !.schemes = s] :
     n \in {<<a, b>>, <<c, b>>},
     g \in {<<"x25519">>, <<"secp256r1">>, <<"unknown">>},
     s \in {<<"ed25519">>, <<"ecdsaSecp256r1Sha256">>, <<"unknown">>}}
  \cup {[Client EXCEPT !.framed = FALSE], [Client EXCEPT !.tls13 = FALSE],
        [Client EXCEPT !.groups = <<>>],
        [Client EXCEPT !.groups = <<<<"x25519">>>>],
        [Client EXCEPT !.shares = <<"x25519", "x25519">>],
        [Client EXCEPT !.suites = <<"unknown">>]}
-----------------------------------------------------------------------------
ServerInit == NegotiationInit /\ NativeInit /\ ArenaInit

ServerNext ==
  \/ NativeInit /\ ArenaInit /\ NegotiationNext
       /\ UNCHANGED <<nativeVars, arenaVars>>
  \/ NegotiationInit /\ ArenaInit /\ NativeNext
       /\ UNCHANGED <<negotiationVars, arenaVars>>
  \/ NegotiationInit /\ NativeInit /\ ArenaNext
       /\ UNCHANGED <<negotiationVars, nativeVars>>

ServerSpec ==
  ServerInit /\ [][ServerNext]_<<negotiationVars, nativeVars, arenaVars>>
=============================================================================
