--------------------------- MODULE TlsNegotiation ---------------------------
(***************************************************************************)
(* What a ClientHello is answered with: the validation of a server         *)
(* configuration, the choice of the endpoint for a server name, and the    *)
(* choice of suite, group, signature scheme and application protocol.      *)
(* The operator of the server may put a new configuration in force at any  *)
(* time; a connection keeps the one it was accepted under.  TlsCore takes  *)
(* the verdict of all this as the name of its ClientHello message.         *)
(*                                                                         *)
(* A server name is a sequence of labels.  A label has a text, may be      *)
(* written in capitals, and has the form the name profile tells apart.     *)
(* <<>> is the absent value of an optional one and the invalid name.       *)
(***************************************************************************)
EXTENDS SequencesExt, Integers

CONSTANTS
  Labels,         \* labels of the server names that occur
  Configs,        \* server configurations the operator tries
  Hellos,         \* ClientHello messages of clients
  Capabilities,   \* what the crypto provider can do
  MaxLabels       \* longest name, 253 bytes in the code

ASSUME MaxLabelsAssumption == MaxLabels \in Nat \ {0}
ASSUME CapabilitiesAssumption ==
  DOMAIN Capabilities = {"suites", "groups", "schemes", "hashes", "random"}

-----------------------------------------------------------------------------
(* What configurations and messages are made of.                           *)

LabelForm == {"plain", "octet", "reserved", "bad"}
Label == [text : STRING, upper : BOOLEAN, form : LabelForm]
Suite == {"aes128GcmSha256", "aes256GcmSha384", "chacha20Poly1305Sha256"}
Group == {"x25519", "secp256r1"}
Scheme == {"ed25519", "ecdsaSecp256r1Sha256", "rsaPssRsaeSha256"}
KeyKind == {"ed25519", "ecdsaP256", "rsa"}
AlpnMode ==
  {"serverPreference", "requireOverlap", "clientPreferenceWithinAllowed"}

Optional(S) == {s \in Seq(S) : Len(s) <= 1}

Chain ==
  [id : Nat, kind : KeyKind, certificates : Nat, oversized : BOOLEAN]
Endpoint ==
  [chain : Chain, key : KeyKind, suites : Seq(Suite), groups : Seq(Group),
   schemes : Seq(Scheme), alpn : Seq(STRING)]
Route(S) ==
  [pattern : [kind : {"exact", "wildcard"}, name : Seq(S)],
   endpoint : Endpoint]
Limits ==
  [handshake : Nat, clientHello : Nat, ops : Nat, ciphertext : Nat, steps : Nat]
ConfigOver(S) ==
  [routes : Seq(Route(S)), default : Optional(Endpoint), mode : AlpnMode,
   limits : Limits]

\* The values of a ClientHello may be anything the client knows.
ClientHello ==
  [framed : BOOLEAN, tls13 : BOOLEAN, suites : Seq(STRING),
   groups : Optional(Seq(STRING)), shares : Seq(STRING),
   schemes : Seq(STRING), alpn : Optional(Seq(STRING)),
   sni : Optional(Seq(Labels))]

\* The text of a label decides its form, and there is always another label.
ASSUME LabelsAssumption ==
  /\ Labels \subseteq Label
  /\ \A a, b \in Labels : a.text = b.text => a.form = b.form
  /\ \A a \in Labels : a.text # "any"

ASSUME ConfigsAssumption == \A cfg \in Configs : cfg \in ConfigOver(Labels)
ASSUME HellosAssumption == \A h \in Hellos : h \in ClientHello

VARIABLES
  server,         \* the configuration in force, <<>> before the first
  conn            \* the connection: its configuration and its outcome

negotiationVars == <<server, conn>>

\* The first member of seq that is in S, if there is one.
First(seq, S) ==
  LET found == {i \in DOMAIN seq : seq[i] \in S}
  IN  IF found = {} THEN <<>> ELSE <<seq[Min(found)]>>

\* The members of seq that are in S, in their order.
Known(seq, S) ==
  LET kept[n \in 0..Len(seq)] ==
        IF n = 0 THEN <<>>
        ELSE IF seq[n] \in S THEN Append(kept[n - 1], seq[n])
        ELSE kept[n - 1]
  IN kept[Len(seq)]

-----------------------------------------------------------------------------
(* Server names.                                                           *)

Canonical(name) == [i \in DOMAIN name |-> [name[i] EXCEPT !.upper = FALSE]]

AddressLiteral(name) ==
  Len(name) = 4 /\ \A i \in DOMAIN name : name[i].form = "octet"

\* ValidatedServerName.ofBytes.
OfBytes(name) ==
  IF /\ Len(name) <= MaxLabels
     /\ \A i \in DOMAIN name : name[i].form \in {"plain", "octet"}
     /\ ~AddressLiteral(name)
  THEN Canonical(name) ELSE <<>>

\* validatedPatternMatches: a wildcard stands for exactly one label.
Matches(pattern, name) ==
  IF pattern.kind = "exact" THEN pattern.name = name
  ELSE Len(name) > 1 /\ Tail(name) = pattern.name

-----------------------------------------------------------------------------
(* Validation of a configuration.                                          *)

\* Faulty form: only neighbours are compared.
AmbiguousNeighbours(routes) ==
  \E i, j \in DOMAIN routes :
    j = i + 1 /\ routes[i].pattern = routes[j].pattern

HasAmbiguousRoutes(routes) ==
  \E i, j \in DOMAIN routes : i < j /\ routes[i].pattern = routes[j].pattern

ValidateSniRoutes(routes) ==
  [i \in DOMAIN routes |->
     [routes[i] EXCEPT !.pattern.name = OfBytes(@)]]

SchemesForKey(kind) ==
  {IF kind = "ed25519" THEN "ed25519"
   ELSE IF kind = "ecdsaP256" THEN "ecdsaSecp256r1Sha256"
   ELSE "rsaPssRsaeSha256"}

\* validateEndpoint and validateEndpointCertKey.
ValidEndpoint(e) ==
  /\ e.suites # <<>>
  /\ \A i \in DOMAIN e.alpn : e.alpn[i] \notin {"empty", "tooLong"}
  /\ e.chain.certificates > 0
  /\ ~e.chain.oversized
  /\ e.chain.kind = e.key
  /\ ToSet(e.schemes) \cap SchemesForKey(e.chain.kind) # {}

MinProtectedRecordLen == 23

ValidLimits(l) ==
  /\ l.handshake > 0 /\ l.clientHello > 0 /\ l.clientHello <= l.handshake
  /\ l.ops > 0 /\ l.ciphertext >= MinProtectedRecordLen /\ l.steps > 0

Endpoints(cfg) ==
  {cfg.routes[i].endpoint : i \in DOMAIN cfg.routes} \cup ToSet(cfg.default)

\* validateServerConfig accepts.
ValidServerConfig(cfg) ==
  LET routes == ValidateSniRoutes(cfg.routes)
  IN  /\ \A i \in DOMAIN routes : routes[i].pattern.name # <<>>
      /\ ~HasAmbiguousRoutes(routes)
      /\ ValidLimits(cfg.limits)
      /\ \A e \in Endpoints(cfg) : ValidEndpoint(e)

HashAlg(suite) == IF suite = "aes256GcmSha384" THEN "sha384" ELSE "sha256"

NormalGroups(groups) == groups # <<>> /\ IsInjective(groups)

\* validateCapabilities: the provider can do everything e asks for.
Supported(e) ==
  /\ ToSet(e.suites) \subseteq Capabilities.suites
  /\ ToSet(e.groups) \subseteq Capabilities.groups
  /\ ToSet(e.schemes) \subseteq Capabilities.schemes
  /\ {HashAlg(s) : s \in ToSet(e.suites)} \subseteq Capabilities.hashes

\* validateServerConfigCapabilities accepts.
Performable(cfg) ==
  /\ Capabilities.random
  /\ \A e \in Endpoints(cfg) : NormalGroups(e.groups) /\ Supported(e)

-----------------------------------------------------------------------------
(* The ClientHello.                                                        *)

KnownSuite(s) == s \in Suite
KnownGroup(g) == g \in Group
KnownScheme(s) == s \in Scheme

\* findOfferedKeyShares accepts: one share per group, each of a group the
\* client supports, and one of them of a group kroopt knows.
OffersShares(h) ==
  /\ IsInjective(h.shares)
  /\ h.groups # <<>> /\ ToSet(h.shares) \subseteq ToSet(h.groups[1])
  /\ \E i \in DOMAIN h.shares : KnownGroup(h.shares[i])

\* parseClientHello accepts: exact framing without duplicate extensions and
\* with well-formed shares, TLS 1.3, and something kroopt knows in every list.
Parses(h) ==
  /\ h.framed /\ h.tls13
  /\ OffersShares(h)
  /\ \E i \in DOMAIN h.suites : KnownSuite(h.suites[i])
  /\ \E i \in DOMAIN h.schemes : KnownScheme(h.schemes[i])
  /\ h.alpn # <<>> => h.alpn[1] # <<>>
  /\ h.sni # <<>> => OfBytes(h.sni[1]) # <<>>

\* ValidClientHello.
Valid(h) ==
  [suite |-> First(h.suites, Suite)[1],    \* selectSuite
   shares |-> Known(h.shares, Group),
   schemes |-> Known(h.schemes, Scheme),
   sni |-> IF h.sni = <<>> THEN <<>> ELSE <<OfBytes(h.sni[1])>>,
   alpn |-> h.alpn]

-----------------------------------------------------------------------------
(* Selection.                                                              *)

\* selectEndpoint: exact before wildcard before default, and a name that is
\* present but invalid has no endpoint.
SelectEndpoint(cfg, sni) ==
  IF sni = <<>> THEN cfg.default
  ELSE LET name == OfBytes(sni[1])
           exact == First(cfg.routes, {r \in ToSet(cfg.routes) :
                      r.pattern.kind = "exact" /\ r.pattern.name = name})
           wild == First(cfg.routes,
                      {r \in ToSet(cfg.routes) : Matches(r.pattern, name)})
       IN  IF name = <<>> THEN <<>>
           ELSE IF exact # <<>> THEN <<exact[1].endpoint>>
           ELSE IF wild # <<>> THEN <<wild[1].endpoint>>
           ELSE cfg.default

Preference(mode) ==
  IF mode = "clientPreferenceWithinAllowed" THEN "client" ELSE "server"

\* Faulty form of noOverlapPolicy: lenient in every mode.
OverlapNeverRequired(mode) == FALSE

\* noOverlapPolicy.
NoOverlapFatal(mode) == mode = "requireOverlap"

\* negotiateAlpn: <<>> unless a protocol is selected.
NegotiateAlpn(preference, offered, allowed) ==
  IF offered = <<>> THEN <<>>
  ELSE IF preference = "client"
       THEN First(offered[1], ToSet(allowed))
       ELSE First(allowed, ToSet(offered[1]))

GroupPreference == <<"x25519", "secp256r1">>

\* Faulty form: only the client's first share is looked at.
FirstShareOnly(offered, allowed) ==
  First(GroupPreference, ToSet(allowed) \cap {offered[1]})

SelectGroup(offered, allowed) ==
  First(GroupPreference, ToSet(allowed) \cap ToSet(offered))

NoParameters == [outcome |-> "pending"]
Refuse(error) == [outcome |-> "refused", error |-> error]

\* onClientHello, from the choice of the endpoint to NegotiatedState.
Negotiate(cfg, v) ==
  LET e == SelectEndpoint(cfg, v.sni)
      scheme == IF e = <<>> THEN <<>>
                ELSE First(e[1].schemes, ToSet(v.schemes))
      alpn == NegotiateAlpn(Preference(cfg.mode), v.alpn, e[1].alpn)
      group == SelectGroup(v.shares, e[1].groups)
  IN  IF scheme = <<>> THEN Refuse("unsupportedSignatureScheme")
      ELSE IF v.alpn # <<>> /\ alpn = <<>> /\ NoOverlapFatal(cfg.mode)
      THEN Refuse("noApplicationProtocol")
      ELSE IF group = <<>> THEN Refuse("unsupportedGroup")
      ELSE [outcome |-> "negotiated", suite |-> v.suite, group |-> group[1],
            scheme |-> scheme[1], cert |-> e[1].chain, alpn |-> alpn]

-----------------------------------------------------------------------------
(* The server and one of its connections.                                  *)

NegotiationInit == server = <<>> /\ conn = <<>>

\* A refused configuration leaves the one in force.
Load(cfg) ==
  /\ ValidServerConfig(cfg) /\ Performable(cfg)
  /\ server' = <<[cfg EXCEPT !.routes = ValidateSniRoutes(@)]>>
  /\ UNCHANGED conn

\* serverWith.
Accept ==
  /\ server # <<>> /\ conn = <<>>
  /\ conn' = <<[config |-> server[1], hello |-> <<>>,
                params |-> NoParameters]>>
  /\ UNCHANGED server

\* Faulty form of Hello: the configuration in force is looked up again.
HelloUnderCurrentConfig(h) ==
  /\ conn # <<>> /\ conn[1].hello = <<>>
  /\ conn' = <<[conn[1] EXCEPT
       !.hello = <<h>>,
       !.params = IF Parses(h) THEN Negotiate(server[1], Valid(h))
                               ELSE Refuse("decode")]>>
  /\ UNCHANGED server

Hello(h) ==
  /\ conn # <<>> /\ conn[1].hello = <<>>
  /\ conn' = <<[conn[1] EXCEPT
       !.hello = <<h>>,
       !.params = IF Parses(h) THEN Negotiate(conn[1].config, Valid(h))
                               ELSE Refuse("decode")]>>
  /\ UNCHANGED server

Disconnect ==
  /\ conn # <<>> /\ conn[1].hello # <<>>
  /\ conn' = <<>>
  /\ UNCHANGED server

NegotiationNext ==
  \/ \E cfg \in Configs : Load(cfg)
  \/ Accept
  \/ \E h \in Hellos : Hello(h)
  \/ Disconnect

NegotiationSpec == NegotiationInit /\ [][NegotiationNext]_negotiationVars

-----------------------------------------------------------------------------
(* Properties.                                                             *)

Negotiated == conn # <<>> /\ conn[1].params.outcome = "negotiated"
Refused == conn # <<>> /\ conn[1].params.outcome = "refused"

\* DNS names are compared label by label and without regard to case.
SameName(a, b) == Len(a) = Len(b) /\ \A i \in DOMAIN a : a[i].text = b[i].text

Covers(pattern, name) ==
  IF pattern.kind = "exact" THEN SameName(pattern.name, name)
  ELSE name # <<>> /\ SameName(pattern.name, Tail(name))

\* The endpoints RFC 011 4 gives a client: those of the routes that name it
\* exactly, or else cover it with a wildcard, or else the default.
RightEndpoints(cfg, h) ==
  LET covering(kind) ==
        {r \in ToSet(cfg.routes) :
           r.pattern.kind = kind /\ h.sni # <<>> /\ Covers(r.pattern, h.sni[1])}
      best == IF covering("exact") # {} THEN covering("exact")
                                        ELSE covering("wildcard")
  IN  IF best = {} THEN ToSet(cfg.default) ELSE {r.endpoint : r \in best}

\* A client is shown the certificate of the one endpoint its server name
\* belongs to, in the configuration its connection was accepted under,
\* whatever was loaded since (RFC 011 4, 6).
OwnEndpoint ==
  Negotiated =>
    {e.chain : e \in RightEndpoints(conn[1].config, conn[1].hello[1])}
    = {conn[1].params.cert}

\* No candidate of both lists comes before x in the preferred one.
BestOf(x, preferred, other) ==
  \E i \in DOMAIN preferred :
    /\ preferred[i] = x /\ x \in ToSet(other)
    /\ \A j \in 1..(i - 1) : preferred[j] \notin ToSet(other)

\* Group, scheme and protocol are in the list of the client and in that of
\* its endpoint, and the first such one in the order of the side whose
\* preference counts; a client without ALPN gets none, and one whose
\* protocols all miss is served only where the mode is lenient (RFC 7301).
ParametersAgreed ==
  Negotiated =>
    LET h == conn[1].hello[1]
        p == conn[1].params
        mode == conn[1].config.mode
    IN  \A e \in RightEndpoints(conn[1].config, h) :
          /\ p.suite \in ToSet(h.suites)
          /\ BestOf(p.scheme, e.schemes, h.schemes)
          /\ p.group \in ToSet(e.groups) /\ p.group \in ToSet(h.shares)
          /\ {"x25519"} = {"x25519"} \cap ToSet(e.groups) \cap ToSet(h.shares)
             => p.group = "x25519"
          /\ IF p.alpn # <<>>
             THEN IF mode = "clientPreferenceWithinAllowed"
                  THEN BestOf(p.alpn[1], h.alpn[1], e.alpn)
                  ELSE BestOf(p.alpn[1], e.alpn, h.alpn[1])
             ELSE h.alpn # <<>> =>
                    /\ ToSet(h.alpn[1]) \cap ToSet(e.alpn) = {}
                    /\ mode # "requireOverlap"

\* A well-formed ClientHello is only refused when its endpoint and the client
\* really have nothing in common: no scheme, no group, or no protocol where
\* one is required.  Order and unknown values on either side do not matter.
RefusedForCause ==
  Refused /\ Parses(conn[1].hello[1]) =>
    LET h == conn[1].hello[1]
    IN  \A e \in RightEndpoints(conn[1].config, h) :
          \/ ToSet(e.schemes) \cap ToSet(h.schemes) = {}
          \/ ToSet(e.groups) \cap ToSet(h.shares) = {}
          \/ /\ conn[1].config.mode = "requireOverlap" /\ h.alpn # <<>>
             /\ ToSet(h.alpn[1]) \cap ToSet(e.alpn) = {}

\* A client that offers everything and asks for name.
AnyClient(name) ==
  [suite |-> "aes128GcmSha256", shares |-> GroupPreference,
   schemes |-> <<"ed25519", "ecdsaSecp256r1Sha256", "rsaPssRsaeSha256">>,
   sni |-> <<name>>, alpn |-> <<>>]

\* No route of a configuration in force is dead: some client is served by its
\* endpoint.  So no other route shadows it under another spelling, and its
\* endpoint is left something to negotiate (RFC 011 7, RFC 039 4.5).
EveryRouteServes ==
  server # <<>> =>
    \A i \in DOMAIN server[1].routes :
      LET route == server[1].routes[i]
          label == [text |-> "any", upper |-> FALSE, form |-> "plain"]
          name == IF route.pattern.kind = "exact" THEN route.pattern.name
                  ELSE <<label>> \o route.pattern.name
          served == Negotiate(server[1], AnyClient(name))
      IN  Len(name) <= MaxLabels =>
            served.outcome = "negotiated" /\ served.cert = route.endpoint.chain
=============================================================================
