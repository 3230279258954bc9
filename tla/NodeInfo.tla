------------------------------ MODULE NodeInfo ------------------------------
(***************************************************************************)
(* From the panel's answer to an inbound: what api/panel/node.go makes of  *)
(* the JSON of a node, what node/cert.go makes of its certificate          *)
(* configuration, and what core/sing/node.go makes of both.  The functions *)
(* are pure; Cert uses them in the order in which a reload calls them.     *)
(*                                                                         *)
(* A response has the fields that decide anything:                         *)
(*   protocol, version   what the node is;    tls   0, 1 (TLS), 2 (Reality)*)
(*   sni, back           server_name of tls_settings, and of tlsSettings   *)
(*                       (Absent when that object is not there)            *)
(*   name                server_name of the node itself                    *)
(*   ech                 "off", "key" (enabled, with a key), "nokey"       *)
(*   net                 network settings: "ok", "bad" (not decodable),    *)
(*                       "nopath" (an HTTP header whose request has none)  *)
(*   cert                cert_config, None when it is not there: mode,     *)
(*                       domain, inline ("none", "one", "both": Certificate*)
(*                       and Key), paths ("none", "one", or which pair of  *)
(*                       files CertFile and KeyFile name)                  *)
(***************************************************************************)
EXTENDS Naturals

CONSTANTS None, Absent

Off == 0
Tls == 1
Reality == 2

VAllss   == {"vmess", "vless"}
TlsTypes == {"trojan", "tuic", "anytls", "hysteria", "hysteria2"}
Types    == VAllss \cup TlsTypes \cup {"shadowsocks", "naive"}

(* normalizeResponseNodeType; None is its error. *)
NodeType(wanted, r) ==
  LET t == IF r.protocol = "" THEN wanted ELSE r.protocol IN
  CASE t = "v2ray"                        -> "vmess"
    [] t = "hysteria" /\ r.version = 2    -> "hysteria2"
    [] t \in {"", "v2node"}               -> None
    [] OTHER                              -> t

(* Trojan is TLS or Reality, whatever else tls says; vmess, vless and      *)
(* naive are what it says.                                                 *)
Security(type, tls) ==
  CASE type = "shadowsocks"                     -> Off
    [] type = "trojan" /\ tls = Reality         -> Reality
    [] type \in TlsTypes /\ ~(type = "trojan" /\ tls = Reality) -> Tls
    [] OTHER                                    -> tls

(* tlsSettings, the older spelling, replaces tls_settings where both are   *)
(* known.                                                                  *)
ServerName(type, r) ==
  CASE type = "shadowsocks"                                          -> None
    [] type \in VAllss \cup {"trojan", "naive"} /\ r.back # Absent   -> r.back
    [] OTHER                                                         -> r.sni

(* decodeNodeInfo: None when the response is refused.  VAllssNode has a    *)
(* field server_name of its own, which hides the one of CommonNode.        *)
Decode(wanted, r) ==
  LET t == NodeType(wanted, r) IN
  IF t \notin Types THEN None
  ELSE [type |-> t, security |-> Security(t, r.tls), sni |-> ServerName(t, r),
        name |-> IF t \in VAllss THEN None ELSE r.name,
        net |-> r.net, ech |-> IF t = "shadowsocks" THEN "off" ELSE r.ech]

-----------------------------------------------------------------------------
AcmeModes == {"dns", "http"}
EmptyCert == [mode |-> "", domain |-> None, inline |-> "none", paths |-> "none"]

(* The controller's CertConfig for a response. *)
CertConfig(r) == IF r.cert = None THEN EmptyCert ELSE r.cert

(* What requestCert fills in: the domain, the mode, the paths (a lone path *)
(* makes a pair with a default one; machines and nodes have positive ids). *)
WithDomain(cc, n) ==
  IF cc.domain # None THEN cc
  ELSE [cc EXCEPT !.domain = IF n.sni # None THEN n.sni ELSE n.name]
WithMode(cc) == IF cc.mode = "" THEN [cc EXCEPT !.mode = "self"] ELSE cc
WithPaths(cc) ==
  IF cc.mode \in AcmeModes \cup {"self"}
  THEN [cc EXCEPT !.paths = CASE @ = "none" -> "default"
                              [] @ = "one"  -> "mixed"
                              [] OTHER      -> @]
  ELSE cc
Normal(cc, n) ==
  IF cc.inline # "none" THEN cc ELSE WithPaths(WithMode(WithDomain(cc, n)))

(* Mutant of Plan: a lone path is enough where the files are the admin's. *)
PlanOnePath(cc, exist) ==
  CASE cc.inline # "none"      -> IF cc.inline = "both" THEN "ready" ELSE "fail"
    [] cc.inline = "none" /\ cc.mode \in {"none", "file"} ->
         IF cc.paths = "none" THEN "fail" ELSE "ready"
    [] cc.inline = "none" /\ cc.mode \in AcmeModes \cup {"self"} ->
         IF cc.domain = None THEN "fail"
         ELSE IF exist THEN "ready"
         ELSE IF cc.mode = "self" THEN "self" ELSE "acme"
    [] OTHER                   -> "fail"

(* What requestCert does with a configuration it has filled in, when both  *)
(* files exist or not.                                                     *)
Plan(cc, exist) ==
  CASE cc.inline # "none"      -> IF cc.inline = "both" THEN "ready" ELSE "fail"
    [] cc.inline = "none" /\ cc.mode \in {"none", "file"} ->
         IF cc.paths \in {"none", "one"} THEN "fail" ELSE "ready"
    [] cc.inline = "none" /\ cc.mode \in AcmeModes \cup {"self"} ->
         IF cc.domain = None THEN "fail"
         ELSE IF exist THEN "ready"
         ELSE IF cc.mode = "self" THEN "self" ELSE "acme"
    [] OTHER                   -> "fail"

-----------------------------------------------------------------------------
(* getInboundOptions: the TLS part of the options, or how it fails:        *)
(* "nocert" and "error" are errors, "panic" is a nil pointer (Reality is   *)
(* read from the fields of a VLESS node) or an index out of range.         *)
TlsOptions(n, cc) ==
  CASE n.security = Tls     ->
         IF cc.inline # "none"
         THEN IF cc.inline = "both" THEN "inline" ELSE "nocert"
         ELSE IF cc.mode \in {"none", ""} /\ cc.paths \in {"none", "one"}
         THEN "nocert" ELSE "files"
    [] n.security = Reality -> IF n.type \in VAllss THEN "reality" ELSE "panic"
    [] OTHER                   -> "off"

InboundOptions(n, cc) ==
  LET tls == TlsOptions(n, cc) IN
  IF tls \in {"nocert", "panic"} THEN tls
  ELSE IF n.ech = "nokey" THEN "error"
  ELSE IF n.type \in VAllss /\ n.net = "nopath" THEN "panic"
  ELSE IF n.type \in VAllss \cup {"trojan"} /\ n.net = "bad" THEN "error"
  ELSE tls

=============================================================================
