------------------------------ MODULE MC_Cert ------------------------------
(* Instances of Cert, and every small response for the functions of NodeInfo. *)
EXTENDS Cert

CertOf(mode, domain, inline, paths) ==
  [mode |-> mode, domain |-> domain, inline |-> inline, paths |-> paths]
Node(protocol, tls, sni, cert) ==
  [protocol |-> protocol, version |-> 1, tls |-> tls, sni |-> sni, back |-> Absent,
   name |-> None, ech |-> "off", net |-> "ok", cert |-> cert]

AcmeA   == Node("vless", 1, "a", CertOf("dns", None, "none", "none"))
AcmeB   == Node("vless", 1, "b", CertOf("dns", None, "none", "none"))
DomainA == Node("trojan", 1, "a", CertOf("http", None, "none", "domain"))
SelfA   == Node("anytls", 1, "a", CertOf("", None, "none", "domain"))
NoMode  == Node("tuic", 1, "a", None)
Unknown == Node("socks", 0, None, None)

MCResponses   == {AcmeA, SelfA, NoMode, Unknown}
ScanResponses == {AcmeA, AcmeB, SelfA, DomainA}

AnyCert ==
  {None} \cup [mode : {"", "none", "file", "self", "http", "dns", "other"},
               domain : {None, "d"}, inline : {"none", "one", "both"},
               paths : {"none", "one", "own"}]
AnyResponse ==
  [protocol : Types \cup {"", "v2ray"}, version : {1, 2}, tls : 0..2,
   sni : {None, "s"}, back : {Absent, None, "b"}, name : {None, "n"},
   ech : {"off"}, net : {"ok"}, cert : AnyCert]

(* What a client that asks for a type makes of the responses, the ones it  *)
(* refuses left out: the node and its certificate's configuration.         *)
Configured ==
  {[asked |-> a.asked, node |-> Decode(a.asked, a.response),
    cert |-> Normal(CertConfig(a.response), Decode(a.asked, a.response))] :
     a \in {b \in [asked : Types \cup {"v2node"}, response : AnyResponse] :
              Decode(b.asked, b.response) # None}}

(* Those that pass requestCert, and of which no options can be made.       *)
Uncovered ==
  {c \in Configured :
     /\ c.node.security = Tls
     /\ \E exist \in BOOLEAN : Plan(c.cert, exist) # "fail"
     /\ LET options == TlsOptions(c.node, c.cert) IN
        \/ options \notin {"inline", "files"}
        \/ options = "files" /\ ~Named(c.cert)}

(* Whatever the panel answers to the type the client now asks for: when    *)
(* requestCert lets it pass, the inbound's options can be made of it, and  *)
(* a pair of files that is to be loaded has two names (node/cert.go and    *)
(* core/sing/node.go each have their own list of cases).                   *)
PlanCoversOptions == \A c \in Uncovered : c.asked # requested

=============================================================================
