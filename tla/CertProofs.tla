----------------------------- MODULE CertProofs -----------------------------
(***************************************************************************)
(* Proofs about Cert, for any answers of the panel and any number of       *)
(* renewal goroutines, deaths and failed writes.  What the core is to load *)
(* loads, although a certificate and its key are two files, each opened    *)
(* and written in steps of its own: a pair that is there and that nobody   *)
(* writes belongs together, unless the writing over it was cut short or    *)
(* two wrote at once; and who writes alone has the key of the certificate  *)
(* he wrote.  And a start or a reload that comes to its end has made the   *)
(* renewal task its inbound needs.                                         *)
(***************************************************************************)
EXTENDS MC_Cert, TLAPS

(* The parts of TypeOK. *)
Around ==
  /\ panel \in Responses /\ events \in 0..MaxEvents /\ proc \in {"up", "down"}

OnDisk ==
  /\ files \in [Paths -> FileState]
  /\ dirs \subseteq Dirs /\ account \in [Dirs -> {"none", "torn", "ok"}]
  /\ spoiled \subseteq Paths

OfNode ==
  /\ node \in {"off", "starting", "up"} /\ requested \in Types \cup {"v2node"}
  /\ seen \in Responses \cup {None} /\ info \in Decoded \cup {None}
  /\ conf \in Confs \cup {EmptyCert}
  /\ inbound = None \/ inbound.tls \in {"off", "inline", "reality", "files"}
  /\ task \in Renewers \cup {None} /\ skipped \in BOOLEAN

(* What an actor may be doing when the configuration is c: whoever is past *)
(* NewLego has files with names, and a domain to ask for; and Main writes  *)
(* what requestCert found missing.                                         *)
Fit(a, x, c) ==
  /\ x \in ActState
  /\ IF a = Main THEN x.pc \in {"idle", "request", "addnode", "tasks"} \cup LegoPcs
                 ELSE x.pc \in {"gone", "wait", "read"} \cup LegoPcs
  /\ x.pc \in {"opencert"} \cup WritePcs => x.cert \in Certs
  /\ x.pc \in (LegoPcs \ {"lego"}) \cup {"read"} => Named(x.cfg)
  /\ x.pc = "obtain" => x.domain \in Domains
  /\ a = Main /\ x.pc \in LegoPcs => x.cfg = c /\ x.domain \in Domains

Acting ==
  /\ act \in [Actors -> ActState]
  /\ \A a \in Actors : Fit(a, act[a], conf)

(* A pair of files, and who writes it. *)
Belongs(p) ==
  Exists(p) /\ p \notin spoiled /\ Writing(p) = {} => Loads(p)
Alone(p) ==
  p \notin spoiled => \A a, b \in Writing(p) : a = b
Matches(p) ==
  p \notin spoiled =>
    \A a \in Writing(p) :
      act[a].pc # "cert" => /\ files[p].cert \in Certs
                            /\ files[p].cert.key = act[a].cert.key
Begun(p) ==
  \A a \in Writing(p) : /\ files[p].cert # None
                        /\ act[a].pc = "key" => files[p].key # None
Pair(p) == Belongs(p) /\ Alone(p) /\ Matches(p) /\ Begun(p)
Pairs   == \A p \in Paths : Pair(p)

(* requestCert has filled in the configuration, and leaves nothing out:    *)
(* what the core is to load is there.                                      *)
Requested ==
  /\ act[Main].pc = "request" /\ conf.inline = "none"
       /\ conf.mode \in AcmeModes \cup {"self"} => Named(conf)
  /\ act[Main].pc = "addnode" /\ InboundOptions(info, conf) = "files" =>
       conf.mode \in {"none", "file"} \/ (Named(conf) /\ Exists(PathOf(conf)))

(* The inbound goes first and comes last, with the task. *)
Served ==
  /\ act[Main].pc # "idle" => node # "off"
  /\ inbound # None => node # "off" /\ act[Main].pc \in {"idle", "tasks"}
  /\ RenewalFits

CInv == Around /\ OnDisk /\ OfNode /\ Acting /\ Pairs /\ Requested /\ Served

-----------------------------------------------------------------------------
(* The domains are those a response may name. *)
LEMMA NamedDomain ==
  ASSUME NEW q \in Responses
  PROVE  /\ q.sni \in Domains \cup {None} /\ q.name \in Domains \cup {None}
         /\ q.back = Absent \/ q.back \in Domains \cup {None}
<1> DEFINE Naming(r) == {r.sni, r.name, CertConfig(r).domain} \cup ({r.back} \ {Absent})
           All == UNION {Naming(r) : r \in Responses}
<1>1. Domains = All \ {None}
  BY DEF Domains
<1>2. \A x \in Naming(q) : x \in All
  <2> HIDE DEF Naming
  <2> QED
    OBVIOUS
<1>3. q.sni \in Naming(q) /\ q.name \in Naming(q)
  OBVIOUS
<1>4. q.back = Absent \/ q.back \in Naming(q)
  OBVIOUS
<1> HIDE DEF Naming, All
<1> QED
  BY <1>1, <1>2, <1>3, <1>4

(* What decodeNodeInfo makes of a response that asks for something. *)
LEMMA DecodedNode ==
  ASSUME NEW n \in Decoded, n # None
  PROVE  n.type \in Types /\ n.sni \in Domains \cup {None} /\ n.name \in Domains \cup {None}
<1>1. PICK t \in Types \cup {"v2node"}, r \in Responses : n = Decode(t, r)
  BY DEF Decoded
<1> DEFINE k == NodeType(t, r)
<1>2. /\ k \in Types
      /\ n.type = k /\ n.sni = ServerName(k, r)
      /\ n.name = IF k \in VAllss THEN None ELSE r.name
  BY <1>1 DEF Decode
<1>3. /\ r.sni \in Domains \cup {None} /\ r.name \in Domains \cup {None}
      /\ r.back = Absent \/ r.back \in Domains \cup {None}
  BY NamedDomain
<1>4. ServerName(k, r) \in Domains \cup {None}
  BY <1>3 DEF ServerName
<1> QED
  BY <1>2, <1>3, <1>4

(* The configurations requestCert comes to, and what it is given: their    *)
(* files are one of the pairs there are.                                   *)
FilledConfigs ==
  [mode : {"", "none", "file", "self", "other"} \cup AcmeModes,
   domain : Domains \cup {None}, inline : {"none", "one", "both"},
   paths : {"none", "own", "domain", "default"}]

LEMMA EmptyFilled == EmptyCert \in FilledConfigs
<1> QED
  BY DEF EmptyCert, FilledConfigs

LEMMA GivenFilled ==
  ASSUME NEW r \in Responses
  PROVE  CertConfig(r) \in FilledConfigs /\ CertConfig(r).paths # "default"
<1>1. CertConfig(r) \in CertConfigs
  BY CertAssumption
<1> HIDE DEF CertConfig
<1> QED
  BY <1>1 DEF CertConfigs, FilledConfigs

LEMMA NormalFilled ==
  ASSUME NEW r \in Responses, NEW n \in Decoded, n # None
  PROVE  LET c == Normal(CertConfig(r), n) IN
         /\ c \in FilledConfigs
         /\ c.inline = "none" /\ c.mode \in AcmeModes \cup {"self"} => Named(c)
<1> DEFINE g == CertConfig(r)
           d == WithDomain(g, n)
           m == WithMode(d)
           c == Normal(g, n)
<1>1. g \in FilledConfigs
  BY GivenFilled
<1>2. n.sni \in Domains \cup {None} /\ n.name \in Domains \cup {None}
  BY DecodedNode
<1>3. d \in FilledConfigs
  <2> HIDE DEF g
  <2> QED
    BY <1>1, <1>2 DEF WithDomain, FilledConfigs
<1>4. m \in FilledConfigs
  <2> HIDE DEF d
  <2> QED
    BY <1>3 DEF WithMode, FilledConfigs
<1>5. /\ WithPaths(m) \in FilledConfigs
      /\ WithPaths(m).mode \in AcmeModes \cup {"self"} => Named(WithPaths(m))
  <2> HIDE DEF m
  <2> QED
    BY <1>4 DEF WithPaths, FilledConfigs, Named, AcmeModes
<1>6. c = IF g.inline # "none" THEN g ELSE WithPaths(m)
  BY DEF Normal
<1> HIDE DEF g, m, c
<1> QED
  BY <1>1, <1>5, <1>6 DEF c, g

LEMMA ConfsFilled ==
  ASSUME NEW c \in Confs \cup {EmptyCert}
  PROVE  c \in FilledConfigs
<1> QED
  BY EmptyFilled, GivenFilled, NormalFilled DEF Confs

LEMMA NamedPath ==
  ASSUME NEW c \in Confs \cup {EmptyCert}, Named(c)
  PROVE  PathOf(c) \in Paths
<1>1. c \in FilledConfigs
  BY ConfsFilled
<1> QED
  BY <1>1 DEF FilledConfigs, Named, PathOf, Paths

(* What requestCert decides, and what the core's options are made of. *)
LEMMA PlanFacts ==
  ASSUME NEW c, NEW e \in BOOLEAN
  PROVE  /\ Plan(c, e) = "ready" /\ c.inline = "none" /\ c.mode \notin {"none", "file"}
              => e = TRUE
         /\ Plan(c, e) \in {"self", "acme"} =>
              /\ c.inline = "none" /\ c.domain # None
              /\ c.mode \in AcmeModes \cup {"self"}
<1> QED
  BY DEF Plan, AcmeModes

LEMMA FilesFacts ==
  ASSUME NEW n, NEW c, InboundOptions(n, c) = "files"
  PROVE  n.security = Tls /\ c.inline = "none"
<1>1. TlsOptions(n, c) = "files"
  BY DEF InboundOptions
<1> QED
  BY <1>1 DEF TlsOptions, Tls, Reality

(* The values that mark what is not there are none of the others. *)
LEMMA Marks ==
  /\ None # Torn /\ None \notin Actors /\ Torn \notin Actors
  /\ None \notin Certs /\ Torn \notin Certs
  /\ None # "stale" /\ Torn # "stale"
  /\ Main \in Actors /\ Main \notin Renewers
<1> QED
  BY CertAssumption DEF Keys, Actors

LEMMA NewCertState ==
  ASSUME NEW a \in Actors, NEW d \in Domains, NEW i \in {"self", "acme"}
  PROVE  NewCert(a, d, i) \in Certs
<1> QED
  BY DEF NewCert, Certs

-----------------------------------------------------------------------------
(* One actor moves: from what it held to x.                                *)
LEMMA FitMove ==
  ASSUME Acting, NEW a \in Actors, NEW x,
         act' = [act EXCEPT ![a] = x], Fit(a, x, conf'), conf' = conf \/ a = Main
  PROVE  /\ Acting' /\ act'[a] = x
         /\ \A b \in Actors \ {a} : act'[b] = act[b]
<1>1. x \in ActState
  BY DEF Fit
<1>2. act'[a] = x /\ act' \in [Actors -> ActState]
  BY <1>1 DEF Acting
<1>3. \A b \in Actors \ {a} : act'[b] = act[b]
  BY DEF Acting
<1>4. \A b \in Actors \ {a} : Fit(b, act[b], conf')
  BY DEF Acting, Fit
<1> QED
  BY <1>2, <1>3, <1>4 DEF Acting

LEMMA FitResting ==
  ASSUME NEW a \in Actors, NEW c, NEW pc,
         IF a = Main THEN pc \in {"idle", "request", "addnode", "tasks"}
                     ELSE pc \in {"gone", "wait"}
  PROVE  Fit(a, Resting(pc), c) /\ Resting(pc).pc = pc
<1>1. Resting(pc).pc = pc
  BY DEF Resting
<1>2. Resting(pc) \in ActState
  BY DEF Resting, ActState
<1>3. pc \notin {"opencert", "obtain", "read"} \cup LegoPcs \cup WritePcs
  BY DEF LegoPcs, WritePcs
<1> QED
  BY <1>1, <1>2, <1>3 DEF Fit

(* Goto keeps what the actor has in hand. *)
LEMMA GotoState ==
  ASSUME NEW y \in ActState, NEW x, NEW pc, x = [y EXCEPT !.pc = pc],
         pc \in {"idle", "request", "addnode", "tasks", "gone", "wait", "read"}
                  \cup LegoPcs
  PROVE  /\ x \in ActState /\ x.pc = pc
         /\ x.cfg = y.cfg /\ x.domain = y.domain /\ x.cert = y.cert
<1> QED
  BY DEF ActState

LEMMA FitGoto ==
  ASSUME NEW a \in Actors, NEW c, NEW y, Fit(a, y, c), NEW pc, NEW x,
         x = [y EXCEPT !.pc = pc],
         IF a = Main THEN pc \in {"idle", "request", "addnode", "tasks"} \cup LegoPcs
                     ELSE pc \in {"gone", "wait", "read"} \cup LegoPcs,
         pc \in {"opencert"} \cup WritePcs => y.cert \in Certs,
         pc \in (LegoPcs \ {"lego"}) \cup {"read"} => Named(y.cfg),
         pc = "obtain" => y.domain \in Domains,
         a = Main /\ pc \in LegoPcs => y.pc \in LegoPcs
  PROVE  /\ Fit(a, x, c) /\ x.pc = pc
         /\ x.cfg = y.cfg /\ x.domain = y.domain /\ x.cert = y.cert
<1>1. y \in ActState
  BY DEF Fit
<1>2. /\ x \in ActState /\ x.pc = pc
      /\ x.cfg = y.cfg /\ x.domain = y.domain /\ x.cert = y.cert
  BY <1>1, GotoState
<1> QED
  BY <1>2 DEF Fit

(* Every state of an actor that writes names a pair of files. *)
LEMMA PathInHand ==
  ASSUME Acting, NEW a \in Actors,
         act[a].pc \in (LegoPcs \ {"lego"}) \cup {"read"}
  PROVE  PathOf(act[a].cfg) \in Paths
<1>1. Fit(a, act[a], conf)
  BY DEF Acting
<1>2. act[a].cfg \in Confs \cup {EmptyCert} /\ Named(act[a].cfg)
  BY <1>1 DEF Fit, ActState
<1> QED
  BY <1>2, NamedPath

LEMMA PcFacts ==
  /\ WritePcs = {"cert", "openkey", "key"}
  /\ LegoPcs = {"lego", "openaccount", "account", "obtain", "opencert", "cert",
                "openkey", "key"}
<1> QED
  BY DEF WritePcs, LegoPcs

-----------------------------------------------------------------------------
(* What leaves the files and their writers alone leaves every pair alone.  *)
LEMMA QuietPairs ==
  ASSUME Pairs, UNCHANGED <<files, spoiled>>,
         \A a \in Actors : \/ act'[a] = act[a]
                           \/ act[a].pc \notin WritePcs /\ act'[a].pc \notin WritePcs
  PROVE  Pairs' /\ \A p \in Paths : Exists(p)' = Exists(p)
<1>1. \A p \in Paths : Exists(p)' = Exists(p) /\ Loads(p)' = Loads(p)
  BY DEF Exists, Loads
<1>2. ASSUME NEW p \in Paths
      PROVE  /\ Writing(p)' = Writing(p)
             /\ \A a \in Writing(p) : act'[a] = act[a]
  BY DEF Writing
<1>3. ASSUME NEW p \in Paths
      PROVE  Pair(p)'
  <2>1. Pair(p)
    BY DEF Pairs
  <2>2. Belongs(p)'
    BY <1>1, <1>2, <2>1 DEF Pair, Belongs
  <2>3. Alone(p)'
    BY <1>2, <2>1 DEF Pair, Alone
  <2>4. Matches(p)'
    BY <1>2, <2>1 DEF Pair, Matches
  <2>5. Begun(p)'
    BY <1>2, <2>1 DEF Pair, Begun
  <2> QED
    BY <2>2, <2>3, <2>4, <2>5 DEF Pair
<1> QED
  BY <1>1, <1>3 DEF Pairs

(* So does, for the other pairs, an actor that opens or writes one.        *)
LEMMA OtherPair ==
  ASSUME Pairs, NEW p \in Paths, NEW a \in Actors,
         files'[p] = files[p], p \in spoiled' <=> p \in spoiled,
         \A b \in Actors \ {a} : act'[b] = act[b],
         a \notin Writing(p), a \notin Writing(p)'
  PROVE  Pair(p)'
<1>1. Pair(p) /\ Exists(p)' = Exists(p) /\ Loads(p)' = Loads(p)
  BY DEF Pairs, Exists, Loads
<1>2. /\ Writing(p)' = Writing(p)
      /\ \A b \in Writing(p) : act'[b] = act[b]
  BY DEF Writing
<1>3. Belongs(p)'
  BY <1>1, <1>2 DEF Pair, Belongs
<1>4. Alone(p)'
  BY <1>1, <1>2 DEF Pair, Alone
<1>5. Matches(p)'
  BY <1>1, <1>2 DEF Pair, Matches
<1>6. Begun(p)'
  BY <1>1, <1>2 DEF Pair, Begun
<1> QED
  BY <1>3, <1>4, <1>5, <1>6 DEF Pair

-----------------------------------------------------------------------------
(* What a step of Lego(a) does, as far as the invariant is concerned: the  *)
(* pairs stay in order and none goes away, and only a moves; when it is    *)
(* Main that fails it is idle, when it is done the pair is there.          *)
LegoDone(a) ==
  /\ Acting' /\ OnDisk' /\ Pairs' /\ events' \in 0..MaxEvents
  /\ \A p \in Paths : Exists(p) => Exists(p)'
  /\ \A b \in Actors \ {a} : act'[b] = act[b]
  /\ UNCHANGED <<panel, proc, requested, seen, info, conf, inbound, task, skipped>>
  /\ node' = node \/ (a = Main /\ act'[Main].pc = "idle" /\ GiveUp)
  /\ a = Main => act'[Main].pc \in LegoPcs \cup {"idle", "addnode"}
  /\ a = Main /\ act'[Main].pc = "addnode" => Named(conf) /\ Exists(PathOf(conf))'

(* Whoever fails rests, and Main gives up what it was starting. *)
LEMMA FailsMove ==
  ASSUME Acting, NEW a \in Actors, Fails(a), UNCHANGED conf
  PROVE  /\ Acting'
         /\ \A b \in Actors \ {a} : act'[b] = act[b]
         /\ act'[a].pc \in {"idle", "wait"} /\ act'[a].pc \notin LegoPcs
         /\ a = Main => act'[a].pc = "idle"
         /\ node' = node \/ (a = Main /\ act'[Main].pc = "idle" /\ GiveUp)
<1> DEFINE pc == IF a = Main THEN "idle" ELSE "wait"
<1>1. act' = [act EXCEPT ![a] = Resting(pc)]
  BY DEF Fails, RenewalFails
<1>2. Fit(a, Resting(pc), conf') /\ Resting(pc).pc = pc
  BY FitResting
<1>3. /\ Acting' /\ act'[a] = Resting(pc)
      /\ \A b \in Actors \ {a} : act'[b] = act[b]
  BY <1>1, <1>2, FitMove
<1>4. node' = node \/ (a = Main /\ GiveUp)
  BY DEF Fails
<1> QED
  BY <1>2, <1>3, <1>4, PcFacts

(* A step that fails while no file of a is open. *)
LEMMA FailsDone ==
  ASSUME OnDisk, Acting, Pairs, Around, NEW a \in Actors, Fails(a),
         act[a].pc \notin WritePcs,
         UNCHANGED <<panel, events, proc, fileVars, requested, seen, info, conf,
                     inbound, task, skipped>>
  PROVE  LegoDone(a)
<1>1. UNCHANGED <<files, dirs, account, spoiled>>
  BY DEF fileVars
<1>2. /\ Acting'
      /\ \A b \in Actors \ {a} : act'[b] = act[b]
      /\ act'[a].pc \in {"idle", "wait"} /\ act'[a].pc \notin LegoPcs
      /\ a = Main => act'[a].pc = "idle"
      /\ node' = node \/ (a = Main /\ act'[Main].pc = "idle" /\ GiveUp)
  BY FailsMove
<1>3. OnDisk'
  BY <1>1 DEF OnDisk
<1>4. Pairs' /\ \A p \in Paths : Exists(p)' = Exists(p)
  BY <1>1, <1>2, QuietPairs, PcFacts
<1>5. events' \in 0..MaxEvents
  BY DEF Around
<1> QED
  BY <1>2, <1>3, <1>4, <1>5 DEF LegoDone

(* A step of a outside the pairs that goes on to the next one. *)
LEMMA GoesOn ==
  ASSUME OnDisk', Acting, Pairs, Around, NEW a \in Actors, NEW x,
         act' = [act EXCEPT ![a] = x], Fit(a, x, conf),
         act[a].pc \notin WritePcs, x.pc \notin WritePcs,
         a = Main => x.pc \in LegoPcs \cup {"idle"},
         UNCHANGED <<panel, events, proc, files, spoiled, nodeVars>>
  PROVE  LegoDone(a)
<1>1. UNCHANGED <<node, requested, seen, info, conf, inbound, task, skipped>>
  BY DEF nodeVars
<1>2. /\ Acting' /\ act'[a] = x
      /\ \A b \in Actors \ {a} : act'[b] = act[b]
  BY <1>1, FitMove
<1>3. Pairs' /\ \A p \in Paths : Exists(p)' = Exists(p)
  BY <1>2, QuietPairs
<1>4. events' \in 0..MaxEvents
  BY DEF Around
<1>5. a = Main => act'[Main].pc # "addnode"
  BY <1>2, PcFacts
<1> QED
  BY <1>1, <1>2, <1>3, <1>4, <1>5 DEF LegoDone

LEMMA NewLegoStep ==
  ASSUME OnDisk, Acting, Pairs, Around, NEW a \in Actors, NEW ok \in BOOLEAN,
         NewLego(a, ok)
  PROVE  LegoDone(a)
<1> DEFINE u == IF Named(act[a].cfg) THEN account[Dir(PathOf(act[a].cfg))] ELSE "torn"
           pc == IF u = "none" THEN "openaccount" ELSE IF a = Main THEN "obtain" ELSE "read"
           x == [act[a] EXCEPT !.pc = pc]
<1>0. /\ Fit(a, act[a], conf) /\ act[a].pc = "lego" /\ act[a].pc \notin WritePcs
      /\ UNCHANGED <<panel, events, proc, fileVars, requested, seen, info, conf,
                     inbound, task, skipped>>
  BY PcFacts DEF NewLego, Acting
<1>1. CASE u # "torn" /\ Goto(a, pc) /\ UNCHANGED node
  <2>1. Named(act[a].cfg)
    BY <1>1
  <2>2. a = Main => act[a].domain \in Domains
    BY <1>0, PcFacts DEF Fit
  <2>3. pc \in {"openaccount", "obtain", "read"} /\ (a = Main => pc # "read")
        /\ (pc = "obtain" => a = Main)
    OBVIOUS
  <2>4. act' = [act EXCEPT ![a] = x]
    BY <1>1 DEF Goto, Acting
  <2> HIDE DEF pc, x
  <2>5. Fit(a, x, conf) /\ x.pc = pc
    BY <1>0, <2>1, <2>2, <2>3, FitGoto, PcFacts DEF x
  <2>6. OnDisk'
    BY <1>0 DEF OnDisk, fileVars
  <2>7. x.pc \notin WritePcs /\ (a = Main => x.pc \in LegoPcs)
    BY <2>3, <2>5, PcFacts
  <2>8. UNCHANGED <<panel, events, proc, files, spoiled, nodeVars>>
    BY <1>0, <1>1 DEF fileVars, nodeVars
  <2> QED
    BY <1>0, <2>4, <2>5, <2>6, <2>7, <2>8, GoesOn
<1>2. CASE Fails(a)
  BY <1>0, <1>2, FailsDone
<1> QED
  BY <1>1, <1>2 DEF NewLego

LEMMA DirOf ==
  ASSUME NEW p
  PROVE  Dir(p) \in Dirs
<1> QED
  BY DEF Dir, Dirs

LEMMA OpenAccountStep ==
  ASSUME OnDisk, Acting, Pairs, Around, NEW a \in Actors, OpenAccount(a)
  PROVE  LegoDone(a)
<1> DEFINE d == Dir(PathOf(act[a].cfg))
           x == [act[a] EXCEPT !.pc = "account"]
<1>0. /\ Fit(a, act[a], conf) /\ act[a].pc = "openaccount"
      /\ UNCHANGED <<panel, events, proc, files, spoiled, nodeVars>>
      /\ dirs' = dirs \cup {d} /\ account' = [account EXCEPT ![d] = "torn"]
  BY DEF OpenAccount, Acting
<1>1. d \in Dirs
  BY DirOf
<1>2. OnDisk'
  BY <1>0, <1>1 DEF OnDisk
<1>3. act' = [act EXCEPT ![a] = x]
  BY DEF OpenAccount, Goto, Acting
<1>4. Named(act[a].cfg)
  BY <1>0, PcFacts DEF Fit
<1> HIDE DEF x
<1>5. Fit(a, x, conf) /\ x.pc = "account"
  BY <1>0, <1>4, FitGoto, PcFacts DEF x
<1> QED
  BY <1>0, <1>2, <1>3, <1>5, GoesOn, PcFacts

LEMMA WriteAccountStep ==
  ASSUME OnDisk, Acting, Pairs, Around, NEW a \in Actors, NEW ok \in BOOLEAN,
         WriteAccount(a, ok)
  PROVE  LegoDone(a)
<1> DEFINE d == Dir(PathOf(act[a].cfg))
           pc == IF a = Main THEN "obtain" ELSE "read"
           x == [act[a] EXCEPT !.pc = pc]
<1>0. /\ Fit(a, act[a], conf) /\ act[a].pc = "account" /\ act[a].pc \notin WritePcs
      /\ UNCHANGED <<panel, proc, files, dirs, requested, seen, info, conf, inbound,
                     task, skipped>>
  BY PcFacts DEF WriteAccount, Acting
<1>1. CASE /\ account' = [account EXCEPT ![d] = "ok"] /\ Goto(a, pc)
           /\ UNCHANGED <<node, events, spoiled>>
  <2>1. OnDisk'
    BY <1>0, <1>1, DirOf DEF OnDisk
  <2>2. act' = [act EXCEPT ![a] = x]
    BY <1>1 DEF Goto, Acting
  <2>3. Named(act[a].cfg) /\ (a = Main => act[a].domain \in Domains)
    BY <1>0, PcFacts DEF Fit
  <2>4. pc \in {"obtain", "read"} /\ (a = Main <=> pc = "obtain")
    OBVIOUS
  <2> HIDE DEF x, pc
  <2>5. Fit(a, x, conf) /\ x.pc = pc
    BY <1>0, <2>3, <2>4, FitGoto, PcFacts DEF x
  <2>6. UNCHANGED <<panel, events, proc, files, spoiled, nodeVars>>
    BY <1>0, <1>1 DEF nodeVars
  <2> QED
    BY <1>0, <2>1, <2>2, <2>4, <2>5, <2>6, GoesOn, PcFacts
<1>2. CASE WriteFails(a) /\ UNCHANGED account
  <2>1. CutShort({a}) = {}
    BY <1>0 DEF CutShort
  <2>2. spoiled' = spoiled /\ Fails(a) /\ events' \in 0..MaxEvents
    BY <1>2, <2>1, CertAssumption DEF WriteFails, Around
  <2>3. /\ Acting'
        /\ \A b \in Actors \ {a} : act'[b] = act[b]
        /\ act'[a].pc \in {"idle", "wait"} /\ act'[a].pc \notin LegoPcs
        /\ a = Main => act'[a].pc = "idle"
        /\ node' = node \/ (a = Main /\ act'[Main].pc = "idle" /\ GiveUp)
    BY <1>0, <2>2, FailsMove
  <2>4. OnDisk'
    BY <1>0, <1>2, <2>2 DEF OnDisk
  <2>5. Pairs' /\ \A p \in Paths : Exists(p)' = Exists(p)
    BY <1>0, <2>2, <2>3, QuietPairs, PcFacts
  <2> QED
    BY <1>0, <2>2, <2>3, <2>4, <2>5 DEF LegoDone
<1> QED
  BY <1>1, <1>2 DEF WriteAccount

LEMMA ObtainStep ==
  ASSUME OnDisk, Acting, Pairs, Around, NEW a \in Actors, NEW ok \in BOOLEAN,
         Obtain(a, ok)
  PROVE  LegoDone(a)
<1>0. /\ Fit(a, act[a], conf) /\ act[a] \in ActState
      /\ act[a].pc = "obtain" /\ act[a].pc \notin WritePcs
      /\ UNCHANGED <<panel, events, proc, fileVars, requested, seen, info, conf,
                     inbound, task, skipped>>
  BY PcFacts DEF Obtain, Acting
<1> DEFINE new == NewCert(a, act[a].domain, "acme")
           x == [act[a] EXCEPT !.pc = "opencert", !.cert = new]
<1>1. CASE /\ act' = [act EXCEPT ![a].pc = "opencert", ![a].cert = new]
           /\ UNCHANGED node
  <2>1. new \in Certs
    BY <1>0, NewCertState DEF Fit
  <2>2. act' = [act EXCEPT ![a] = x]
    BY <1>1 DEF Acting
  <2> HIDE DEF new
  <2>3. x \in ActState /\ x.pc = "opencert" /\ x.cert = new /\ x.cfg = act[a].cfg
        /\ x.domain = act[a].domain
    BY <1>0, <2>1, PcFacts DEF ActState
  <2> HIDE DEF x
  <2>4. Fit(a, x, conf)
    BY <1>0, <2>1, <2>3, PcFacts DEF Fit
  <2>5. OnDisk'
    BY <1>0 DEF OnDisk, fileVars
  <2>6. UNCHANGED <<panel, events, proc, files, spoiled, nodeVars>>
    BY <1>0, <1>1 DEF nodeVars, fileVars
  <2> QED
    BY <1>0, <2>2, <2>3, <2>4, <2>5, <2>6, GoesOn, PcFacts
<1>2. CASE Fails(a)
  BY <1>0, <1>2, FailsDone
<1> QED
  BY <1>1, <1>2 DEF Obtain

-----------------------------------------------------------------------------
(* Who writes a pair when only a moved. *)
LEMMA WritersMove ==
  ASSUME NEW a \in Actors, NEW p \in Paths,
         \A b \in Actors \ {a} : act'[b] = act[b]
  PROVE  /\ Writing(p)' \ {a} = Writing(p) \ {a}
         /\ a \in Writing(p) <=> act[a].pc \in WritePcs /\ PathOf(act[a].cfg) = p
         /\ a \in Writing(p)' <=> act'[a].pc \in WritePcs /\ PathOf(act'[a].cfg) = p
<1> QED
  BY DEF Writing

(* An actor that writes: what it has in hand, and its pair. *)
LEMMA Writer ==
  ASSUME OnDisk, Acting, Pairs, NEW a \in Actors,
         act[a].pc \in {"opencert"} \cup WritePcs
  PROVE  LET path == PathOf(act[a].cfg) IN
         /\ path \in Paths /\ files[path] \in FileState /\ Pair(path)
         /\ act[a] \in ActState /\ Fit(a, act[a], conf)
         /\ act[a].cert \in Certs /\ Named(act[a].cfg)
         /\ a = Main => act[a].cfg = conf
<1>1. act[a] \in ActState /\ Fit(a, act[a], conf)
  BY DEF Acting
<1>2. PathOf(act[a].cfg) \in Paths
  BY PathInHand, PcFacts
<1> QED
  BY <1>1, <1>2, PcFacts DEF OnDisk, Pairs, Fit

(* What an actor with an open file comes to: the others' pairs, and its    *)
(* own when it is in order.                                                *)
LEMMA WritesDone ==
  ASSUME OnDisk', Acting, Pairs, Around, NEW a \in Actors, NEW x,
         act[a].pc \in {"opencert"} \cup WritePcs,
         act' = [act EXCEPT ![a] = x], Fit(a, x, conf),
         (x.pc \in WritePcs /\ x.cfg = act[a].cfg) \/ x.pc \in {"addnode", "wait"},
         a = Main => x.pc # "wait",
         NEW path, path = PathOf(act[a].cfg),
         \A p \in Paths \ {path} : /\ files'[p] = files[p]
                                   /\ p \in spoiled' <=> p \in spoiled,
         Pair(path)', Exists(path) => Exists(path)',
         x.pc = "addnode" => Exists(path)',
         UNCHANGED <<panel, proc, events, nodeVars>>
  PROVE  LegoDone(a)
<1>1. UNCHANGED <<node, requested, seen, info, conf, inbound, task, skipped>>
  BY DEF nodeVars
<1>2. /\ Acting' /\ act'[a] = x
      /\ \A b \in Actors \ {a} : act'[b] = act[b]
  BY <1>1, FitMove
<1>3. /\ path \in Paths /\ Named(act[a].cfg)
      /\ (a = Main => act[a].cfg = conf)
  <2>1. Fit(a, act[a], conf)
    BY DEF Acting
  <2>2. path \in Paths
    BY PathInHand, PcFacts
  <2> QED
    BY <2>1, <2>2, PcFacts DEF Fit
<1>4. ASSUME NEW p \in Paths \ {path}
      PROVE  Pair(p)' /\ Exists(p)' = Exists(p)
  <2>1. a \notin Writing(p) /\ a \notin Writing(p)'
    BY <1>2, <1>4, PcFacts DEF Writing
  <2>2. Pair(p)'
    BY <1>2, <1>4, <2>1, OtherPair
  <2> QED
    BY <1>4, <2>2 DEF Exists
<1>5. Pairs' /\ \A p \in Paths : Exists(p) => Exists(p)'
  BY <1>3, <1>4 DEF Pairs
<1>6. events' \in 0..MaxEvents
  BY DEF Around
<1>7. a = Main => act'[Main].pc \in LegoPcs \cup {"idle", "addnode"}
  BY <1>2, PcFacts
<1>8. a = Main /\ act'[Main].pc = "addnode" => Named(conf) /\ Exists(PathOf(conf))'
  BY <1>1, <1>2, <1>3
<1> QED
  BY <1>1, <1>2, <1>5, <1>6, <1>7, <1>8 DEF LegoDone

(* The files are opened and written by Main, or by any renewal. *)
LEMMA OpenCertStep ==
  ASSUME OnDisk, Acting, Pairs, Around, NEW a \in Actors, OpenCert(a)
  PROVE  LegoDone(a)
<1>p. PICK path : path = PathOf(act[a].cfg)
  OBVIOUS
<1> DEFINE x == [act[a] EXCEPT !.pc = "cert"]
           f == [files[path] EXCEPT !.cert = Torn,
                                    !.key = IF @ \in Actors THEN "stale" ELSE @]
<1>0. /\ act[a].pc = "opencert" /\ act[a].pc \notin WritePcs
      /\ UNCHANGED <<panel, events, proc, requested, seen, info, conf, inbound, task, skipped>>
  BY PcFacts DEF OpenCert
<1>1. CASE Fails(a) /\ UNCHANGED fileVars
  BY <1>0, <1>1, FailsDone
<1>2. CASE /\ dirs' = dirs \cup {Dir(path)} /\ UNCHANGED <<account, node>>
           /\ files' = [files EXCEPT ![path].cert = Torn,
                          ![path].key = IF @ \in Actors THEN "stale" ELSE @]
           /\ spoiled' = IF Writing(path) # {} THEN spoiled \cup {path} ELSE spoiled
           /\ Goto(a, "cert")
  <2>1. /\ path \in Paths /\ files[path] \in FileState /\ Pair(path)
        /\ Fit(a, act[a], conf) /\ act[a].cert \in Certs /\ Named(act[a].cfg)
    BY <1>p, <1>0, Writer
  <2>2. act' = [act EXCEPT ![a] = x]
    BY <1>2 DEF Goto, Acting
  <2>3. Fit(a, x, conf) /\ x.pc = "cert" /\ x.cfg = act[a].cfg
    <3> HIDE DEF x
    <3> QED
      BY <1>0, <2>1, FitGoto, PcFacts DEF x
  <2> HIDE DEF x
  <2>4. files' = [files EXCEPT ![path] = f]
    BY <1>2 DEF OnDisk
  <2>5. /\ f \in FileState /\ f.cert = Torn
        /\ files[path].key # None => f.key # None
    BY <2>1, Marks DEF FileState, Keys
  <2> HIDE DEF f
  <2>6. /\ files'[path] = f /\ files' \in [Paths -> FileState]
        /\ \A p \in Paths \ {path} : files'[p] = files[p]
    BY <2>1, <2>4, <2>5 DEF OnDisk
  <2>7. OnDisk'
    BY <1>2, <2>1, <2>6, DirOf DEF OnDisk
  <2>8. /\ Writing(path)' = Writing(path) \cup {a} /\ a \notin Writing(path)
        /\ act'[a].pc = "cert"
        /\ \A b \in Writing(path) : act'[b] = act[b]
        /\ path \notin spoiled' => Writing(path) = {}
    <3>1. act'[a] = x /\ \A b \in Actors \ {a} : act'[b] = act[b]
      BY <1>0, <2>2, <2>3, FitMove
    <3> QED
      BY <1>p, <1>0, <1>2, <2>1, <2>3, <3>1, WritersMove, PcFacts DEF Writing
  <2>9. Pair(path)'
    <3>1. Belongs(path)'
      BY <2>8 DEF Belongs
    <3>2. Alone(path)' /\ Matches(path)'
      BY <2>8 DEF Alone, Matches
    <3>3. Begun(path)'
      BY <2>1, <2>5, <2>6, <2>8, Marks DEF Pair, Begun
    <3> QED
      BY <3>1, <3>2, <3>3 DEF Pair
  <2>10. Exists(path) => Exists(path)'
    BY <2>5, <2>6, Marks DEF Exists
  <2>11. /\ \A p \in Paths \ {path} : p \in spoiled' <=> p \in spoiled
         /\ UNCHANGED <<panel, proc, events, nodeVars>>
    BY <1>0, <1>2 DEF nodeVars
  <2> QED
    BY <1>p, <1>0, <2>2, <2>3, <2>6, <2>7, <2>9, <2>10, <2>11, WritesDone,
       PcFacts
<1> QED
  BY <1>p, <1>1, <1>2 DEF OpenCert

(* A write that fails half-way spoils the pair that was there. *)
LEMMA WriteFailsDone ==
  ASSUME OnDisk, Acting, Pairs, Around, NEW a \in Actors, WriteFails(a),
         act[a].pc \in WritePcs,
         UNCHANGED <<panel, proc, files, dirs, account, requested, seen, info, conf,
                     inbound, task, skipped>>
  PROVE  LegoDone(a)
<1>p. PICK path : path = PathOf(act[a].cfg)
  OBVIOUS
<1>1. path \in Paths /\ Pair(path)
  BY <1>p, Writer
<1>2. Fails(a) /\ events' \in 0..MaxEvents
  BY CertAssumption DEF WriteFails, Around
<1>3. /\ Acting'
      /\ \A b \in Actors \ {a} : act'[b] = act[b]
      /\ act'[a].pc \in {"idle", "wait"} /\ act'[a].pc \notin LegoPcs
      /\ a = Main => act'[a].pc = "idle"
      /\ node' = node \/ (a = Main /\ act'[Main].pc = "idle" /\ GiveUp)
  BY <1>2, FailsMove
<1>4. spoiled' = IF Exists(path) THEN spoiled \cup {path} ELSE spoiled
  <2>1. CutShort({a}) = IF Exists(path) THEN {path} ELSE {}
    BY <1>p, <1>1 DEF CutShort
  <2> QED
    BY <2>1 DEF WriteFails
<1>5. OnDisk'
  BY <1>1, <1>4 DEF OnDisk
<1>6. \A p \in Paths : Exists(p)' = Exists(p) /\ Loads(p)' = Loads(p)
  BY DEF Exists, Loads
<1>7. ASSUME NEW p \in Paths, p # path
      PROVE  Pair(p)'
  <2>1. a \notin Writing(p) /\ a \notin Writing(p)'
    BY <1>p, <1>3, <1>7, PcFacts DEF Writing
  <2> QED
    BY <1>3, <1>4, <1>7, <2>1, OtherPair
<1>8. Pair(path)'
  <2>1. /\ Writing(path)' = Writing(path) \ {a}
        /\ \A b \in Writing(path)' : b \in Writing(path) /\ act'[b] = act[b]
    BY <1>3, PcFacts DEF Writing
  <2>2. path \notin spoiled' => path \notin spoiled /\ ~Exists(path)
    BY <1>4
  <2>3. Belongs(path)'
    BY <1>1, <1>6, <2>2 DEF Belongs
  <2>4. Alone(path)'
    BY <1>1, <2>1, <2>2 DEF Pair, Alone
  <2>5. Matches(path)'
    BY <1>1, <2>1, <2>2 DEF Pair, Matches
  <2>6. Begun(path)'
    BY <1>1, <2>1 DEF Pair, Begun
  <2> QED
    BY <2>3, <2>4, <2>5, <2>6 DEF Pair
<1>9. Pairs'
  BY <1>7, <1>8 DEF Pairs
<1>10. act'[a].pc # "addnode"
  BY <1>3
<1> QED
  BY <1>2, <1>3, <1>5, <1>6, <1>9, <1>10 DEF LegoDone

LEMMA WriteCertStep ==
  ASSUME OnDisk, Acting, Pairs, Around, NEW a \in Actors, NEW ok \in BOOLEAN,
         WriteCert(a, ok)
  PROVE  LegoDone(a)
<1>p. PICK path : path = PathOf(act[a].cfg)
  OBVIOUS
<1>0. /\ act[a].pc = "cert" /\ act[a].pc \in WritePcs
      /\ UNCHANGED <<panel, proc, dirs, account, requested, seen, info, conf, inbound,
                     task, skipped>>
  BY PcFacts DEF WriteCert
<1>1. CASE WriteFails(a) /\ UNCHANGED files
  BY <1>0, <1>1, WriteFailsDone
<1>2. CASE /\ files' = [files EXCEPT ![path].cert = act[a].cert]
           /\ Goto(a, "openkey") /\ UNCHANGED <<events, spoiled, node>>
  <2> DEFINE x == [act[a] EXCEPT !.pc = "openkey"]
             f == [files[path] EXCEPT !.cert = act[a].cert]
  <2>1. /\ path \in Paths /\ files[path] \in FileState /\ Pair(path)
        /\ Fit(a, act[a], conf) /\ act[a].cert \in Certs /\ Named(act[a].cfg)
    BY <1>p, <1>0, Writer
  <2>2. act' = [act EXCEPT ![a] = x]
    BY <1>2 DEF Goto, Acting
  <2>3. /\ Fit(a, x, conf) /\ x.pc = "openkey" /\ x.cfg = act[a].cfg
        /\ x.cert = act[a].cert
    <3> HIDE DEF x
    <3> QED
      BY <1>0, <2>1, FitGoto, PcFacts DEF x
  <2> HIDE DEF x
  <2>4. files' = [files EXCEPT ![path] = f]
    BY <1>2 DEF OnDisk
  <2>5. f \in FileState /\ f.cert = act[a].cert /\ f.key = files[path].key
    BY <2>1 DEF FileState
  <2> HIDE DEF f
  <2>6. /\ files'[path] = f /\ files' \in [Paths -> FileState]
        /\ \A p \in Paths \ {path} : files'[p] = files[p]
    BY <2>1, <2>4, <2>5 DEF OnDisk
  <2>7. OnDisk'
    BY <1>0, <1>2, <2>6 DEF OnDisk
  <2>8. /\ Writing(path)' = Writing(path) /\ a \in Writing(path)
        /\ act'[a] = x
        /\ \A b \in Writing(path) \ {a} : act'[b] = act[b]
    <3>1. act'[a] = x /\ \A b \in Actors \ {a} : act'[b] = act[b]
      BY <1>0, <2>2, <2>3, FitMove
    <3> QED
      BY <1>p, <1>0, <2>1, <2>3, <3>1, WritersMove, PcFacts DEF Writing
  <2>9. Pair(path)'
    <3>1. Belongs(path)'
      BY <2>8 DEF Belongs
    <3>2. Alone(path)'
      BY <1>2, <2>1, <2>8 DEF Pair, Alone
    <3>3. Matches(path)'
      BY <1>2, <2>1, <2>3, <2>5, <2>6, <2>8 DEF Pair, Alone, Matches
    <3>4. Begun(path)'
      BY <2>1, <2>3, <2>5, <2>6, <2>8, Marks DEF Pair, Begun
    <3> QED
      BY <3>1, <3>2, <3>3, <3>4 DEF Pair
  <2>10. Exists(path) => Exists(path)'
    BY <2>1, <2>5, <2>6, Marks DEF Exists
  <2>11. /\ \A p \in Paths \ {path} : p \in spoiled' <=> p \in spoiled
         /\ UNCHANGED <<panel, proc, events, nodeVars>>
    BY <1>0, <1>2 DEF nodeVars
  <2> QED
    BY <1>p, <1>0, <2>2, <2>3, <2>6, <2>7, <2>9, <2>10, <2>11, WritesDone,
       PcFacts
<1> QED
  BY <1>p, <1>1, <1>2 DEF WriteCert

LEMMA OpenKeyStep ==
  ASSUME OnDisk, Acting, Pairs, Around, NEW a \in Actors, OpenKey(a)
  PROVE  LegoDone(a)
<1>p. PICK path : path = PathOf(act[a].cfg)
  OBVIOUS
<1> DEFINE x == [act[a] EXCEPT !.pc = "key"]
           f == [files[path] EXCEPT !.key = Torn]
<1>0. /\ act[a].pc = "openkey" /\ act[a].pc \in WritePcs
      /\ files' = [files EXCEPT ![path].key = Torn] /\ Goto(a, "key")
      /\ UNCHANGED <<panel, events, proc, dirs, account, spoiled, nodeVars>>
  BY <1>p, PcFacts DEF OpenKey
<1>1. /\ path \in Paths /\ files[path] \in FileState /\ Pair(path)
      /\ Fit(a, act[a], conf) /\ act[a].cert \in Certs /\ Named(act[a].cfg)
  BY <1>p, <1>0, Writer
<1>2. act' = [act EXCEPT ![a] = x]
  BY <1>0 DEF Goto, Acting
<1>3. Fit(a, x, conf) /\ x.pc = "key" /\ x.cfg = act[a].cfg /\ x.cert = act[a].cert
  <2> HIDE DEF x
  <2> QED
    BY <1>0, <1>1, FitGoto, PcFacts DEF x
<1> HIDE DEF x
<1>4. files' = [files EXCEPT ![path] = f]
  BY <1>0 DEF OnDisk
<1>5. f \in FileState /\ f.cert = files[path].cert /\ f.key = Torn
  BY <1>1 DEF FileState
<1> HIDE DEF f
<1>6. /\ files'[path] = f /\ files' \in [Paths -> FileState]
      /\ \A p \in Paths \ {path} : files'[p] = files[p]
  BY <1>1, <1>4, <1>5 DEF OnDisk
<1>7. OnDisk'
  BY <1>0, <1>6 DEF OnDisk
<1>8. /\ Writing(path)' = Writing(path) /\ a \in Writing(path)
      /\ act'[a] = x
      /\ \A b \in Writing(path) \ {a} : act'[b] = act[b]
  <2>1. act'[a] = x /\ \A b \in Actors \ {a} : act'[b] = act[b]
    BY <1>0, <1>2, <1>3, FitMove DEF nodeVars
  <2> QED
    BY <1>p, <1>0, <1>1, <1>3, <2>1, WritersMove, PcFacts DEF Writing
<1>9. Pair(path)'
  <2>1. Belongs(path)'
    BY <1>8 DEF Belongs
  <2>2. Alone(path)'
    BY <1>0, <1>1, <1>8 DEF Pair, Alone
  <2>3. Matches(path)'
    BY <1>0, <1>1, <1>3, <1>5, <1>6, <1>8 DEF Pair, Matches
  <2>4. Begun(path)'
    BY <1>1, <1>3, <1>5, <1>6, <1>8, Marks DEF Pair, Begun
  <2> QED
    BY <2>1, <2>2, <2>3, <2>4 DEF Pair
<1>10. Exists(path) => Exists(path)'
  BY <1>5, <1>6, Marks DEF Exists
<1> QED
  BY <1>p, <1>0, <1>2, <1>3, <1>6, <1>7, <1>9, <1>10, WritesDone, PcFacts

LEMMA WriteKeyStep ==
  ASSUME OnDisk, Acting, Pairs, Around, NEW a \in Actors, NEW ok \in BOOLEAN,
         WriteKey(a, ok)
  PROVE  LegoDone(a)
<1>p. PICK path : path = PathOf(act[a].cfg)
  OBVIOUS
<1>0. /\ act[a].pc = "key" /\ act[a].pc \in WritePcs
      /\ UNCHANGED <<panel, proc, dirs, account, requested, seen, info, conf, inbound,
                     task, skipped>>
  BY PcFacts DEF WriteKey
<1>1. CASE WriteFails(a) /\ UNCHANGED files
  BY <1>0, <1>1, WriteFailsDone
<1>2. CASE /\ files' = [files EXCEPT ![path].key = act[a].cert.key]
           /\ spoiled' = IF Writing(path) = {a} /\ files[path].cert = act[a].cert
                         THEN spoiled \ {path} ELSE spoiled
           /\ act' = [act EXCEPT ![a] = Written(a)] /\ UNCHANGED <<events, node>>
  <2> DEFINE f == [files[path] EXCEPT !.key = act[a].cert.key]
  <2>1. /\ path \in Paths /\ files[path] \in FileState /\ Pair(path)
        /\ act[a].cert \in Certs
    BY <1>p, <1>0, Writer
  <2>2. /\ Fit(a, Written(a), conf)
        /\ Written(a).pc = IF a = Main THEN "addnode" ELSE "wait"
    BY FitResting DEF Written
  <2>3. act[a].cert.key \in Actors
    BY <2>1 DEF Certs
  <2>4. files' = [files EXCEPT ![path] = f]
    BY <1>2 DEF OnDisk
  <2>5. f \in FileState /\ f.cert = files[path].cert /\ f.key = act[a].cert.key
    BY <2>1, <2>3 DEF FileState, Keys
  <2> HIDE DEF f
  <2>6. /\ files'[path] = f /\ files' \in [Paths -> FileState]
        /\ \A p \in Paths \ {path} : files'[p] = files[p]
    BY <2>1, <2>4, <2>5 DEF OnDisk
  <2>7. OnDisk'
    BY <1>0, <1>2, <2>6 DEF OnDisk
  <2>8. /\ Writing(path)' = Writing(path) \ {a} /\ a \in Writing(path)
        /\ \A b \in Writing(path)' : act'[b] = act[b]
    <3>1. act'[a] = Written(a) /\ \A b \in Actors \ {a} : act'[b] = act[b]
      BY <1>0, <1>2, <2>2, FitMove
    <3> QED
      BY <1>p, <1>0, <2>1, <2>2, <3>1, WritersMove, PcFacts DEF Writing
  <2>9. Pair(path)'
    <3>1. Belongs(path)'
      <4>1. SUFFICES ASSUME path \notin spoiled', Writing(path)' = {}
                     PROVE  Loads(path)'
        BY DEF Belongs
      <4>2. Writing(path) = {a}
        BY <2>8, <4>1
      <4>3. files[path].cert \in Certs /\ files[path].cert.key = act[a].cert.key
        <5>1. CASE path \notin spoiled
          BY <1>0, <2>1, <2>8, <5>1 DEF Pair, Matches
        <5>2. CASE path \in spoiled
          BY <1>2, <2>1, <4>1, <4>2, <5>2
        <5> QED
          BY <5>1, <5>2
      <4> QED
        BY <2>5, <2>6, <4>3, Marks DEF Loads
    <3>2. path \in spoiled \/ Writing(path)' = {}
      BY <2>1, <2>8 DEF Pair, Alone
    <3>3. path \in spoiled' \/ Writing(path)' = {}
      BY <1>2, <2>8, <3>2
    <3>4. Alone(path)' /\ Matches(path)'
      BY <3>3 DEF Alone, Matches
    <3>5. Begun(path)'
      BY <2>1, <2>3, <2>5, <2>6, <2>8, Marks DEF Pair, Begun
    <3> QED
      BY <3>1, <3>4, <3>5 DEF Pair
  <2>10. Exists(path)'
    BY <2>1, <2>3, <2>5, <2>6, <2>8, Marks DEF Exists, Pair, Begun
  <2>11. /\ \A p \in Paths \ {path} : p \in spoiled' <=> p \in spoiled
         /\ UNCHANGED <<panel, proc, events, nodeVars>>
    BY <1>0, <1>2 DEF nodeVars
  <2>12. Written(a).pc \in {"addnode", "wait"} /\ (a = Main => Written(a).pc # "wait")
    BY <2>2
  <2> QED
    BY <1>p, <1>0, <1>2, <2>2, <2>6, <2>7, <2>9, <2>10, <2>11, <2>12,
       WritesDone, PcFacts
<1> QED
  BY <1>p, <1>1, <1>2 DEF WriteKey

LEMMA LegoStep ==
  ASSUME OnDisk, Acting, Pairs, Around, NEW a \in Actors, Lego(a)
  PROVE  LegoDone(a) /\ act[a].pc \in LegoPcs
<1>1. LegoDone(a)
  BY OpenAccountStep, OpenCertStep, OpenKeyStep, NewLegoStep,
     WriteAccountStep, ObtainStep, WriteCertStep, WriteKeyStep
     DEF Lego
<1>2. act[a].pc \in LegoPcs
  BY PcFacts
     DEF Lego, OpenAccount, OpenCert, OpenKey, NewLego, WriteAccount, Obtain,
         WriteCert, WriteKey
<1> QED
  BY <1>1, <1>2

-----------------------------------------------------------------------------
(* What Main was asked for stays there. *)
LEMMA RequestedKept ==
  ASSUME OfNode, Requested, UNCHANGED <<info, conf>>, act'[Main] = act[Main],
         \A p \in Paths : Exists(p) => Exists(p)'
  PROVE  Requested'
<1>1. Named(conf) => PathOf(conf) \in Paths
  BY NamedPath DEF OfNode
<1>2. InboundOptions(info, conf)' = InboundOptions(info, conf)
  OBVIOUS
<1> QED
  BY <1>1, <1>2 DEF Requested

LEMMA ServedKept ==
  ASSUME Served, UNCHANGED nodeVars, act'[Main] = act[Main]
  PROVE  Served'
<1> QED
  BY DEF Served, RenewalFits, AcmeNode, Idle, nodeVars

(* A step of NewLego, Obtain or the writing of files keeps the invariant. *)
LEMMA LegoInv ==
  ASSUME CInv, NEW a \in Actors, Lego(a)
  PROVE  CInv'
<1>0. /\ LegoDone(a) /\ act[a].pc \in LegoPcs
      /\ Around /\ OnDisk /\ OfNode /\ Acting /\ Pairs /\ Requested /\ Served
  BY LegoStep DEF CInv
<1>1. /\ Acting' /\ OnDisk' /\ Pairs' /\ events' \in 0..MaxEvents
      /\ \A p \in Paths : Exists(p) => Exists(p)'
      /\ UNCHANGED <<panel, proc, requested, seen, info, conf, inbound, task, skipped>>
      /\ node' = node \/ (a = Main /\ GiveUp)
  BY <1>0 DEF LegoDone
<1>2. Around'
  BY <1>0, <1>1 DEF Around
<1>3. node' \in {"off", "starting", "up"}
  BY <1>0, <1>1 DEF GiveUp, OfNode
<1>4. OfNode'
  BY <1>0, <1>1, <1>3 DEF OfNode
<1>5. Requested' /\ Served'
  <2>1. CASE a = Main
    <3>1. inbound' = None
      BY <1>0, <1>1, <2>1, PcFacts DEF Served
    <3>2. Served'
      <4>1. act'[Main].pc = "idle" \/ node' # "off"
        BY <1>0, <2>1, PcFacts DEF LegoDone, Served
      <4> QED
        BY <3>1, <4>1 DEF Served, RenewalFits
    <3>3. /\ act'[Main].pc # "request"
          /\ act'[Main].pc = "addnode" => Named(conf) /\ Exists(PathOf(conf))'
      BY <1>0, <2>1, PcFacts DEF LegoDone
    <3>4. Requested'
      BY <1>1, <3>3 DEF Requested
    <3> QED
      BY <3>2, <3>4
  <2>2. CASE a # Main
    <3>1. act'[Main] = act[Main] /\ node' = node
      BY <1>0, <1>1, <2>2, Marks DEF LegoDone
    <3>2. Requested'
      BY <1>0, <1>1, <3>1, RequestedKept
    <3>3. Served'
      BY <1>0, <1>1, <3>1, ServedKept DEF nodeVars
    <3> QED
      BY <3>2, <3>3
  <2> QED
    BY <2>1, <2>2
<1> QED
  BY <1>1, <1>2, <1>4, <1>5 DEF CInv

-----------------------------------------------------------------------------
(* Around the process. *)
LEMMA QuietInv ==
  ASSUME CInv, UNCHANGED <<fileVars, nodeVars, act>>, Around'
  PROVE  CInv'
<1>1. UNCHANGED <<files, dirs, account, spoiled, info, conf>>
  BY DEF fileVars, nodeVars
<1>2. OnDisk' /\ OfNode'
  BY <1>1 DEF CInv, OnDisk, OfNode, nodeVars
<1>3. Acting'
  BY <1>1 DEF CInv, Acting
<1>4. Pairs' /\ \A p \in Paths : Exists(p)' = Exists(p)
  BY <1>1, QuietPairs DEF CInv
<1>5. Requested' /\ Served'
  BY <1>1, <1>4, RequestedKept, ServedKept DEF CInv
<1> QED
  BY <1>2, <1>3, <1>4, <1>5 DEF CInv

LEMMA PanelStep ==
  ASSUME CInv, (\E r \in Responses : ChangePanel(r)) \/ Restart
  PROVE  CInv'
<1>1. Around'
  BY CertAssumption DEF CInv, Around, ChangePanel, Restart
<1>2. UNCHANGED <<fileVars, nodeVars, act>>
  BY DEF ChangePanel, Restart
<1> QED
  BY <1>1, <1>2, QuietInv

LEMMA AgeStep ==
  ASSUME CInv, NEW path \in Paths, Age(path)
  PROVE  CInv'
<1> DEFINE c == [files[path].cert EXCEPT !.age = "due"]
           f == [files[path] EXCEPT !.cert = c]
<1>0. /\ Around /\ OnDisk /\ OfNode /\ Acting /\ Pairs /\ Requested /\ Served
      /\ files[path] \in FileState /\ files[path].cert \in Certs
      /\ UNCHANGED <<panel, events, proc, dirs, account, spoiled, nodeVars, act>>
  BY DEF CInv, Age, OnDisk, FileState
<1>1. c \in Certs /\ c.key = files[path].cert.key
  BY <1>0 DEF Certs
<1>2. files' = [files EXCEPT ![path] = f]
  BY <1>0 DEF Age, OnDisk
<1> HIDE DEF c
<1>3. f \in FileState /\ f.cert = c /\ f.key = files[path].key
  BY <1>0, <1>1 DEF FileState
<1> HIDE DEF f
<1>4. /\ files'[path] = f /\ files' \in [Paths -> FileState]
      /\ \A p \in Paths \ {path} : files'[p] = files[p]
  BY <1>0, <1>2, <1>3 DEF OnDisk
<1>5. OnDisk' /\ Around' /\ OfNode'
  <2>1. OnDisk'
    BY <1>0, <1>4 DEF OnDisk
  <2>2. Around'
    BY <1>0 DEF Around
  <2>3. OfNode'
    BY <1>0 DEF OfNode, nodeVars
  <2> QED
    BY <2>1, <2>2, <2>3
<1>6. Acting'
  BY <1>0 DEF Acting, nodeVars
<1>7. ASSUME NEW p \in Paths
      PROVE  Pair(p)' /\ Exists(p)' = Exists(p)
  <2>1. /\ Exists(p)' = Exists(p)
        /\ Loads(p) => Loads(p)'
    BY <1>0, <1>1, <1>3, <1>4, Marks DEF Exists, Loads
  <2>2. Pair(p) /\ Writing(p)' = Writing(p)
    BY <1>0 DEF Pairs, Writing
  <2>3. Belongs(p)'
    BY <1>0, <2>1, <2>2 DEF Pair, Belongs
  <2>4. Alone(p)'
    BY <1>0, <2>2 DEF Pair, Alone
  <2>5. Matches(p)' /\ Begun(p)'
    <3>1. CASE p = path
      BY <1>0, <1>1, <1>3, <1>4, <2>2, <3>1, Marks DEF Pair, Matches, Begun
    <3>2. CASE p # path
      BY <1>0, <1>4, <2>2, <3>2 DEF Pair, Matches, Begun
    <3> QED
      BY <3>1, <3>2
  <2> QED
    BY <2>1, <2>3, <2>4, <2>5 DEF Pair
<1>8. Requested' /\ Served'
  BY <1>0, <1>7, RequestedKept, ServedKept DEF nodeVars
<1> QED
  BY <1>5, <1>6, <1>7, <1>8 DEF CInv, Pairs

(* A process that starts. *)
LEMMA FreshActing ==
  ASSUME conf' = EmptyCert,
         act' = [a \in Actors |-> Resting(IF a = Main THEN "idle" ELSE "gone")]
  PROVE  /\ Acting' /\ act'[Main].pc = "idle"
         /\ \A a \in Actors : act'[a].pc \notin WritePcs
<1>1. \A a \in Actors : /\ Fit(a, act'[a], conf')
                        /\ act'[a].pc = IF a = Main THEN "idle" ELSE "gone"
  BY FitResting
<1>2. \A a \in Actors : act'[a] \in ActState
  BY <1>1 DEF Fit
<1>3. act' \in [Actors -> ActState]
  BY <1>2
<1> QED
  BY <1>1, <1>3, PcFacts, Marks DEF Acting

LEMMA DiesStep ==
  ASSUME CInv, Dies, events' \in 0..MaxEvents
  PROVE  CInv'
<1>0. /\ Around /\ OnDisk /\ Pairs
      /\ proc' = "down" /\ node' = "off" /\ requested' = "v2node" /\ seen' = None
      /\ info' = None /\ conf' = EmptyCert /\ inbound' = None /\ task' = None
      /\ skipped' = FALSE
      /\ act' = [a \in Actors |-> Resting(IF a = Main THEN "idle" ELSE "gone")]
      /\ spoiled' = spoiled \cup CutShort(Actors)
      /\ UNCHANGED <<panel, files, dirs, account>>
  BY DEF CInv, Dies
<1>1. Acting' /\ act'[Main].pc = "idle" /\ \A a \in Actors : act'[a].pc \notin WritePcs
  BY <1>0, FreshActing
<1>2. Around' /\ OnDisk' /\ OfNode'
  <2>1. Around'
    BY <1>0 DEF Around
  <2>2. OnDisk'
    BY <1>0 DEF OnDisk, CutShort
  <2>3. OfNode'
    BY <1>0 DEF OfNode
  <2> QED
    BY <2>1, <2>2, <2>3
<1>3. ASSUME NEW p \in Paths
      PROVE  Pair(p)'
  <2>1. Writing(p)' = {}
    BY <1>1 DEF Writing
  <2>2. Exists(p) /\ p \notin spoiled' => Writing(p) = {} /\ p \notin spoiled
    BY <1>0 DEF CutShort, Writing
  <2>3. Exists(p)' = Exists(p) /\ Loads(p)' = Loads(p)
    BY <1>0 DEF Exists, Loads
  <2>4. Belongs(p)'
    BY <1>0, <2>2, <2>3 DEF Pairs, Pair, Belongs
  <2> QED
    BY <2>1, <2>4 DEF Pair, Alone, Matches, Begun
<1>4. Requested' /\ Served'
  BY <1>0, <1>1 DEF Requested, Served, RenewalFits
<1> QED
  BY <1>1, <1>2, <1>3, <1>4 DEF CInv, Pairs

LEMMA CrashStep ==
  ASSUME CInv, Crash
  PROVE  CInv'
<1>1. Dies /\ events' \in 0..MaxEvents
  BY CertAssumption DEF Crash, CInv, Around
<1> QED
  BY <1>1, DiesStep

-----------------------------------------------------------------------------
(* Main moves to x, and neither then nor now writes a file.                *)
LEMMA MainMove ==
  ASSUME OnDisk, Acting, Pairs, UNCHANGED fileVars, NEW x,
         act' = [act EXCEPT ![Main] = x], Fit(Main, x, conf'),
         act[Main].pc \notin WritePcs, x.pc \notin WritePcs
  PROVE  /\ OnDisk' /\ Acting' /\ Pairs' /\ act'[Main] = x
         /\ \A p \in Paths : Exists(p)' = Exists(p)
<1>1. UNCHANGED <<files, dirs, account, spoiled>>
  BY DEF fileVars
<1>2. OnDisk'
  BY <1>1 DEF OnDisk
<1>3. /\ Acting' /\ act'[Main] = x
      /\ \A b \in Actors \ {Main} : act'[b] = act[b]
  BY FitMove, Marks
<1>4. Pairs' /\ \A p \in Paths : Exists(p)' = Exists(p)
  BY <1>1, <1>3, QuietPairs
<1> QED
  BY <1>2, <1>3, <1>4

(* Start and a reload take the node that was decoded. *)
LEMMA TakeStep ==
  ASSUME CInv, NEW t \in Types \cup {"v2node"}, NEW n, n = Decode(t, panel), n # None,
         Take(n), Idle, UNCHANGED <<panel, events, proc, fileVars, task, skipped>>,
         inbound' = None, seen' = panel, node' \in {"starting", "up"}
  PROVE  CInv'
<1> DEFINE pc == IF n.security = Tls THEN "request" ELSE "addnode"
           x == [act[Main] EXCEPT !.pc = pc]
<1>0. /\ Around /\ OnDisk /\ OfNode /\ Acting /\ Pairs
      /\ info' = n /\ requested' = n.type
      /\ conf' = IF n.security = Tls THEN Normal(CertConfig(panel), n)
                                     ELSE CertConfig(panel)
  BY DEF CInv, Take
<1>1. panel \in Responses /\ n \in Decoded /\ n.type \in Types
  <2>1. panel \in Responses
    BY <1>0 DEF Around
  <2>2. n \in Decoded
    BY <2>1 DEF Decoded
  <2> QED
    BY <2>1, <2>2, DecodedNode
<1>2. conf' \in Confs
  BY <1>0, <1>1 DEF Confs
<1>3. act' = [act EXCEPT ![Main] = x]
  BY <1>0 DEF Take, Acting
<1>4. pc \in {"request", "addnode"} /\ (pc = "addnode" => n.security # Tls)
      /\ (pc = "request" => n.security = Tls)
  OBVIOUS
<1> HIDE DEF pc
<1>5. Fit(Main, x, conf') /\ x.pc = pc
  <2>1. Fit(Main, act[Main], conf') /\ act[Main].pc = "idle"
    BY <1>0, Marks, PcFacts DEF Acting, Fit, Idle
  <2> HIDE DEF x
  <2> QED
    BY <1>4, <2>1, FitGoto, PcFacts, Marks DEF x
<1> HIDE DEF x
<1>6. /\ OnDisk' /\ Acting' /\ Pairs' /\ act'[Main] = x
      /\ \A p \in Paths : Exists(p)' = Exists(p)
  BY <1>0, <1>3, <1>4, <1>5, MainMove, PcFacts DEF Idle
<1>7. Around'
  BY <1>0 DEF Around
<1>8. OfNode'
  BY <1>0, <1>1, <1>2 DEF OfNode
<1>9. Requested'
  <2>1. ASSUME pc = "request", conf'.inline = "none",
               conf'.mode \in AcmeModes \cup {"self"}
        PROVE  Named(conf')
    BY <1>0, <1>1, <1>4, <2>1, NormalFilled
  <2>2. ASSUME pc = "addnode"
        PROVE  InboundOptions(info', conf') # "files"
    BY <1>0, <1>4, <2>2, FilesFacts
  <2> QED
    BY <1>5, <1>6, <2>1, <2>2 DEF Requested
<1>10. Served'
  BY DEF Served, RenewalFits
<1> QED
  BY <1>6, <1>7, <1>8, <1>9, <1>10 DEF CInv

LEMMA StartStep ==
  ASSUME CInv, Start
  PROVE  CInv'
<1>1. PICK n : n = Decode("v2node", panel) /\ n # None /\ Take(n)
  BY DEF Start
<1>2. inbound' = None
  BY DEF Start, CInv, Served
<1> QED
  BY <1>1, <1>2, TakeStep DEF Start

LEMMA ReloadStep ==
  ASSUME CInv, Reload
  PROVE  CInv'
<1> DEFINE n == Decode(requested, panel)
<1>1. CASE /\ n = None /\ seen' = panel
           /\ UNCHANGED <<panel, events, proc, fileVars, node, requested,
                          info, conf, inbound, task, skipped, act>>
  <2>1. panel \in Responses /\ UNCHANGED <<files, dirs, account, spoiled>>
    BY <1>1 DEF CInv, Around, fileVars
  <2>2. Around' /\ OnDisk' /\ OfNode' /\ Acting'
    <3>1. Around'
      BY <1>1 DEF CInv, Around
    <3>2. OnDisk'
      BY <1>1, <2>1 DEF CInv, OnDisk
    <3>3. OfNode'
      BY <1>1, <2>1 DEF CInv, OfNode
    <3>4. Acting'
      BY <1>1 DEF CInv, Acting
    <3> QED
      BY <3>1, <3>2, <3>3, <3>4
  <2>3. Pairs' /\ \A p \in Paths : Exists(p)' = Exists(p)
    BY <1>1, <2>1, QuietPairs DEF CInv
  <2>4. Requested'
    BY <1>1, <2>3, RequestedKept DEF CInv
  <2>5. Served'
    BY <1>1 DEF CInv, Served, RenewalFits, AcmeNode, Idle
  <2> QED
    BY <2>2, <2>3, <2>4, <2>5 DEF CInv
<1>2. CASE n # None /\ inbound = None /\ Dies /\ UNCHANGED events
  <2>1. events' \in 0..MaxEvents
    BY <1>2 DEF CInv, Around
  <2> QED
    BY <1>2, <2>1, DiesStep
<1>3. CASE /\ n # None /\ Take(n) /\ seen' = panel /\ inbound' = None
           /\ UNCHANGED <<panel, events, proc, fileVars, node, task, skipped>>
  <2>1. requested \in Types \cup {"v2node"} /\ node' \in {"starting", "up"} /\ Idle
    BY <1>3 DEF Reload, CInv, OfNode
  <2> QED
    BY <1>3, <2>1, TakeStep
<1> QED
  BY <1>1, <1>2, <1>3 DEF Reload

(* requestCert: what is there is left, and what is missing taken in hand.  *)
LEMMA RequestCertStep ==
  ASSUME CInv, RequestCert
  PROVE  CInv'
<1> DEFINE e == Named(conf) /\ conf.inline = "none" /\ BothExist(PathOf(conf))
           plan == Plan(conf, e)
           cert == NewCert(Main, conf.domain, "self")
<1>0. /\ Around /\ OnDisk /\ OfNode /\ Acting /\ Pairs /\ Requested /\ Served
      /\ act[Main].pc = "request" /\ Fit(Main, act[Main], conf)
      /\ UNCHANGED <<panel, events, proc, fileVars, requested, seen, info,
                     conf, inbound, task, skipped>>
  BY Marks DEF CInv, RequestCert, Acting
<1>1. inbound' = None /\ node # "off"
  BY <1>0 DEF Served
<1>2. conf \in Confs \cup {EmptyCert} /\ conf.domain \in Domains \cup {None}
  BY <1>0, ConfsFilled DEF OfNode, FilledConfigs
<1>3. Around'
  BY <1>0 DEF Around
<1>4. ASSUME NEW x, act' = [act EXCEPT ![Main] = x], Fit(Main, x, conf),
             x.pc \in {"idle", "addnode", "opencert", "lego"},
             x.pc = "addnode" /\ InboundOptions(info, conf) = "files" =>
               conf.mode \in {"none", "file"} \/ e,
             node' = node \/ (x.pc = "idle" /\ GiveUp)
      PROVE  CInv'
  <2>1. /\ OnDisk' /\ Acting' /\ Pairs' /\ act'[Main] = x
        /\ \A p \in Paths : Exists(p)' = Exists(p)
    BY <1>0, <1>4, MainMove, PcFacts
  <2>2. OfNode'
    <3>1. node' \in {"off", "starting", "up"}
      BY <1>0, <1>4 DEF GiveUp, OfNode
    <3> QED
      BY <1>0, <3>1 DEF OfNode
  <2>3. Requested'
    <3>1. ASSUME x.pc = "addnode", InboundOptions(info, conf) = "files",
                 conf.mode \notin {"none", "file"}
          PROVE  Named(conf) /\ Exists(PathOf(conf))'
      <4>1. Named(conf) /\ Exists(PathOf(conf))
        BY <1>4, <3>1 DEF BothExist
      <4>2. PathOf(conf) \in Paths
        BY <1>2, <4>1, NamedPath
      <4> QED
        BY <1>0, <2>1, <4>1, <4>2
    <3> QED
      BY <1>0, <1>4, <2>1, <3>1 DEF Requested
  <2>4. Served'
    BY <1>1, <1>4, <2>1 DEF Served, RenewalFits
  <2> QED
    BY <1>3, <2>1, <2>2, <2>3, <2>4 DEF CInv
<1>5. CASE plan = "ready" /\ Goto(Main, "addnode") /\ UNCHANGED node
  <2> DEFINE x == [act[Main] EXCEPT !.pc = "addnode"]
  <2>1. act' = [act EXCEPT ![Main] = x]
    BY <1>0, <1>5 DEF Goto, Acting
  <2> HIDE DEF x
  <2>2. Fit(Main, x, conf) /\ x.pc = "addnode"
    BY <1>0, FitGoto, PcFacts, Marks DEF x
  <2>3. InboundOptions(info, conf) = "files" => conf.mode \in {"none", "file"} \/ e
    <3>1. e \in BOOLEAN
      OBVIOUS
    <3> HIDE DEF e
    <3> QED
      BY <1>5, <3>1, FilesFacts, PlanFacts
  <2> HIDE DEF e
  <2> QED
    BY <1>4, <1>5, <2>1, <2>2, <2>3
<1>6. CASE plan = "fail" /\ Goto(Main, "idle") /\ GiveUp
  <2> DEFINE x == [act[Main] EXCEPT !.pc = "idle"]
  <2>1. act' = [act EXCEPT ![Main] = x]
    BY <1>0, <1>6 DEF Goto, Acting
  <2> HIDE DEF x
  <2>2. Fit(Main, x, conf) /\ x.pc = "idle"
    BY <1>0, FitGoto, PcFacts, Marks DEF x
  <2> HIDE DEF e
  <2> QED
    BY <1>4, <1>6, <2>1, <2>2
<1>7. ASSUME plan \in {"self", "acme"}
      PROVE  /\ conf.domain \in Domains /\ conf.inline = "none"
             /\ conf.mode \in AcmeModes \cup {"self"} /\ Named(conf)
  <2>1. e \in BOOLEAN
    OBVIOUS
  <2> HIDE DEF e
  <2> QED
    BY <1>0, <1>2, <1>7, <2>1, PlanFacts DEF Requested
<1>8. CASE /\ plan = "self" /\ UNCHANGED node
           /\ act' = [act EXCEPT ![Main] = [pc |-> "opencert", cfg |-> conf,
                        domain |-> conf.domain, cert |-> cert]]
  <2> DEFINE x == [pc |-> "opencert", cfg |-> conf, domain |-> conf.domain,
                   cert |-> cert]
  <2>1. cert \in Certs
    BY <1>7, <1>8, NewCertState, Marks
  <2> HIDE DEF cert
  <2>2. x \in ActState
    BY <1>2, <2>1, PcFacts DEF ActState
  <2>3. Fit(Main, x, conf)
    BY <1>7, <1>8, <2>1, <2>2, PcFacts DEF Fit
  <2>4. x.pc = "opencert"
    OBVIOUS
  <2>5. act' = [act EXCEPT ![Main] = x]
    BY <1>8
  <2> HIDE DEF x, e
  <2> QED
    BY <1>4, <1>8, <2>3, <2>4, <2>5
<1>9. CASE /\ plan = "acme" /\ UNCHANGED node
           /\ act' = [act EXCEPT ![Main] = [pc |-> "lego", cfg |-> conf,
                        domain |-> conf.domain, cert |-> None]]
  <2> DEFINE x == [pc |-> "lego", cfg |-> conf, domain |-> conf.domain, cert |-> None]
  <2>1. x \in ActState
    BY <1>2, PcFacts DEF ActState
  <2>2. Fit(Main, x, conf)
    BY <1>7, <1>9, <2>1, PcFacts DEF Fit
  <2>3. x.pc = "lego"
    OBVIOUS
  <2>4. act' = [act EXCEPT ![Main] = x]
    BY <1>9
  <2> HIDE DEF x, e
  <2> QED
    BY <1>4, <1>9, <2>2, <2>3, <2>4
<1> QED
  BY <1>5, <1>6, <1>8, <1>9 DEF RequestCert

(* The core makes the inbound, or the node is given up, or the process.    *)
LEMMA AddNodeStep ==
  ASSUME CInv, AddNode
  PROVE  CInv'
<1> DEFINE tls == InboundOptions(info, conf)
<1>0. /\ Around /\ OnDisk /\ OfNode /\ Acting /\ Pairs /\ Requested /\ Served
      /\ act[Main].pc = "addnode" /\ Fit(Main, act[Main], conf)
      /\ inbound = None /\ node # "off"
  BY Marks DEF CInv, AddNode, Acting, Served
<1>1. ASSUME NEW pc \in {"tasks", "idle"}, Goto(Main, pc), UNCHANGED fileVars,
             UNCHANGED conf
      PROVE  /\ OnDisk' /\ Acting' /\ Pairs' /\ act'[Main].pc = pc
             /\ Requested'
  <2> DEFINE x == [act[Main] EXCEPT !.pc = pc]
  <2>1. act' = [act EXCEPT ![Main] = x]
    BY <1>0, <1>1 DEF Goto, Acting
  <2> HIDE DEF x
  <2>2. Fit(Main, x, conf) /\ x.pc = pc
    BY <1>0, FitGoto, PcFacts, Marks DEF x
  <2>3. OnDisk' /\ Acting' /\ Pairs' /\ act'[Main] = x
    BY <1>0, <1>1, <2>1, <2>2, MainMove, PcFacts
  <2> QED
    BY <2>2, <2>3 DEF Requested
<1>2. CASE /\ tls \in {"off", "inline", "reality", "files"}
           /\ \E c : inbound' = [tls |-> tls, cert |-> c]
           /\ Goto(Main, "tasks")
           /\ UNCHANGED <<panel, events, proc, fileVars, node, requested,
                          seen, info, conf, task, skipped>>
  <2>1. OnDisk' /\ Acting' /\ Pairs' /\ act'[Main].pc = "tasks" /\ Requested'
    BY <1>1, <1>2
  <2>2. inbound'.tls \in {"off", "inline", "reality", "files"}
    <3> HIDE DEF tls
    <3> QED
      BY <1>2
  <2>3. Around' /\ OfNode'
    BY <1>0, <1>2, <2>2 DEF Around, OfNode
  <2>4. Served'
    BY <1>0, <1>2, <2>1 DEF Served, RenewalFits, Idle
  <2> QED
    BY <2>1, <2>3, <2>4 DEF CInv
<1>3. CASE /\ Goto(Main, "idle") /\ GiveUp
           /\ UNCHANGED <<panel, events, proc, fileVars, requested, seen,
                          info, conf, inbound, task, skipped>>
  <2>1. OnDisk' /\ Acting' /\ Pairs' /\ act'[Main].pc = "idle" /\ Requested'
    BY <1>1, <1>3
  <2>2. Around' /\ OfNode'
    BY <1>0, <1>3 DEF Around, OfNode, GiveUp
  <2>3. Served'
    BY <1>0, <1>3, <2>1 DEF Served, RenewalFits
  <2> QED
    BY <2>1, <2>2, <2>3 DEF CInv
<1>4. CASE Dies /\ UNCHANGED events
  <2>1. events' \in 0..MaxEvents
    BY <1>0, <1>4 DEF Around
  <2> QED
    BY <1>4, <2>1, DiesStep
<1> QED
  BY <1>2, <1>3, <1>4 DEF AddNode

(* The end of Start and of a reload: the inbound gets its renewal task. *)
LEMMA StartTasksStep ==
  ASSUME CInv, StartTasks
  PROVE  CInv'
<1>0. /\ Around /\ OnDisk /\ OfNode /\ Acting /\ Pairs /\ Requested /\ Served
      /\ act[Main].pc = "tasks" /\ node' = "up" /\ skipped' = FALSE
      /\ UNCHANGED <<panel, events, proc, files, dirs, account, spoiled, requested,
                     seen, info, conf, inbound>>
  BY DEF CInv, StartTasks, fileVars
<1>1. /\ Fit(Main, Resting("idle"), conf) /\ Resting("idle").pc = "idle"
      /\ \A r \in Renewers :
           Fit(r, Resting("wait"), conf) /\ Resting("wait").pc = "wait"
  <2>1. \A r \in Renewers : r \in Actors /\ r # Main
    BY Marks DEF Actors
  <2> QED
    BY <2>1, FitResting, Marks
<1>2. /\ Acting' /\ act'[Main].pc = "idle"
      /\ \A a \in Actors :
           \/ act'[a] = act[a]
           \/ act[a].pc \notin WritePcs /\ act'[a].pc \notin WritePcs
      /\ task' \in Renewers \cup {None} /\ (task' # None <=> AcmeNode)
  <2>1. CASE /\ AcmeNode
             /\ \E r \in Renewers :
                  /\ act[r].pc = "gone" /\ task' = r
                  /\ act' = [act EXCEPT ![Main] = Resting("idle"), ![r] = Resting("wait")]
    <3>1. PICK r \in Renewers :
            /\ act[r].pc = "gone" /\ task' = r
            /\ act' = [act EXCEPT ![Main] = Resting("idle"), ![r] = Resting("wait")]
      BY <2>1
    <3>2. r \in Actors /\ r # Main /\ r # None
      BY Marks DEF Actors
    <3>3. /\ act'[Main] = Resting("idle") /\ act'[r] = Resting("wait")
          /\ \A a \in Actors \ {Main, r} : act'[a] = act[a]
      BY <1>0, <3>1, <3>2, Marks DEF Acting
    <3>4. \A a \in Actors : Fit(a, act'[a], conf')
      BY <1>0, <1>1, <3>3 DEF Acting
    <3>5. act' \in [Actors -> ActState]
      <4>1. \A a \in Actors : act'[a] \in ActState
        BY <3>4 DEF Fit
      <4>2. act' = [a \in Actors |-> act'[a]]
        BY <1>0, <3>1 DEF Acting
      <4> QED
        BY <4>1, <4>2
    <3>6. Acting'
      BY <3>4, <3>5 DEF Acting
    <3>7. \A a \in Actors : \/ act'[a] = act[a]
                            \/ act[a].pc \notin WritePcs /\ act'[a].pc \notin WritePcs
      <4>1. /\ act[Main].pc \notin WritePcs /\ act'[Main].pc \notin WritePcs
            /\ act[r].pc \notin WritePcs
        BY <1>0, <1>1, <3>1, <3>3, PcFacts
      <4>2. act'[r].pc \notin WritePcs
        BY <1>1, <3>3, PcFacts
      <4> QED
        BY <3>3, <4>1, <4>2
    <3> QED
      BY <1>1, <2>1, <3>1, <3>2, <3>3, <3>6, <3>7
  <2>2. CASE ~AcmeNode /\ task' = None /\ act' = [act EXCEPT ![Main] = Resting("idle")]
    <3>1. /\ Acting' /\ act'[Main] = Resting("idle")
          /\ \A b \in Actors \ {Main} : act'[b] = act[b]
      BY <1>0, <1>1, <2>2, FitMove, Marks
    <3> QED
      BY <1>0, <1>1, <2>2, <3>1, PcFacts
  <2> QED
    BY <2>1, <2>2 DEF StartTasks, RenewalTask
<1>3. Around' /\ OnDisk'
  BY <1>0 DEF Around, OnDisk
<1>4. OfNode'
  BY <1>0, <1>2 DEF OfNode
<1>5. Pairs'
  BY <1>0, <1>2, QuietPairs
<1>6. Requested'
  BY <1>2 DEF Requested
<1>7. Served'
  BY <1>0, <1>2 DEF Served, RenewalFits, AcmeNode
<1> QED
  BY <1>2, <1>3, <1>4, <1>5, <1>6, <1>7 DEF CInv

(* An early return leaves the task alone, and RenewalFits says nothing.    *)
LEMMA AddUsersFailsStep ==
  ASSUME CInv, AddUsersFails
  PROVE  CInv'
<1> DEFINE x == [act[Main] EXCEPT !.pc = "idle"]
<1>0. /\ Around /\ OnDisk /\ OfNode /\ Acting /\ Pairs /\ Requested /\ Served
      /\ act[Main].pc = "tasks" /\ act' = [act EXCEPT ![Main] = x]
      /\ UNCHANGED <<panel, events, proc, files, dirs, account, spoiled, requested,
                     seen, info, conf, task>>
  BY DEF CInv, AddUsersFails, fileVars, Goto, Acting
<1>1. Fit(Main, act[Main], conf)
  BY <1>0, Marks DEF Acting
<1>2. Fit(Main, x, conf) /\ x.pc = "idle"
  <2> DEFINE pc == "idle"
  <2>1. /\ pc \in {"idle", "request", "addnode", "tasks"} \cup LegoPcs
        /\ pc \notin LegoPcs \cup {"opencert", "obtain", "read"} \cup WritePcs
    BY PcFacts
  <2>2. x = [act[Main] EXCEPT !.pc = pc]
    OBVIOUS
  <2> HIDE DEF x, pc
  <2>3. Fit(Main, x, conf) /\ x.pc = pc
    BY <1>1, <2>1, <2>2, FitGoto, PcFacts, Marks
  <2> QED
    BY <2>3 DEF pc
<1> HIDE DEF x
<1>3. /\ Acting' /\ act'[Main] = x
      /\ \A b \in Actors \ {Main} : act'[b] = act[b]
  BY <1>0, <1>2, FitMove, Marks
<1>4. \/ /\ node = "up" /\ skipped' = TRUE /\ UNCHANGED <<node, inbound>>
      \/ /\ node = "starting" /\ node' = "off" /\ inbound' = None
         /\ UNCHANGED skipped
  BY DEF AddUsersFails, GiveUp
<1>5. Around' /\ OnDisk'
  BY <1>0 DEF Around, OnDisk
<1>6. OfNode'
  BY <1>0, <1>4 DEF OfNode
<1>7. Pairs'
  BY <1>0, <1>2, <1>3, QuietPairs, PcFacts
<1>8. Requested'
  BY <1>2, <1>3 DEF Requested
<1>9. Served'
  BY <1>2, <1>3, <1>4 DEF Served, RenewalFits
<1> QED
  BY <1>3, <1>5, <1>6, <1>7, <1>8, <1>9 DEF CInv

LEMMA RemoveStep ==
  ASSUME CInv, Remove
  PROVE  CInv'
<1>0. /\ node' = "off" /\ inbound' = None /\ task' = None /\ skipped' = FALSE
      /\ act[Main].pc = "idle"
      /\ events' \in 0..MaxEvents
      /\ UNCHANGED <<panel, proc, files, dirs, account, spoiled, requested, seen, info,
                     conf, act>>
  BY CertAssumption DEF Remove, fileVars, Idle, CInv, Around
<1>1. Around' /\ OnDisk'
  BY <1>0 DEF CInv, Around, OnDisk
<1>2. OfNode'
  BY <1>0 DEF CInv, OfNode
<1>3. Acting'
  BY <1>0 DEF CInv, Acting
<1>4. Pairs'
  BY <1>0, QuietPairs DEF CInv
<1>5. Requested' /\ Served'
  BY <1>0 DEF Requested, Served, RenewalFits
<1> QED
  BY <1>1, <1>2, <1>3, <1>4, <1>5 DEF CInv

(* A renewal that does not write. *)
LEMMA RenewalMove ==
  ASSUME CInv, NEW r \in Renewers, NEW x, act' = [act EXCEPT ![r] = x],
         Fit(r, x, conf), act[r].pc \notin WritePcs, x.pc \notin WritePcs,
         UNCHANGED <<panel, events, proc, fileVars, nodeVars>>
  PROVE  CInv'
<1>0. /\ UNCHANGED <<files, dirs, account, spoiled>>
      /\ UNCHANGED <<node, requested, seen, info, conf, inbound, task, skipped>>
      /\ r \in Actors /\ r # Main
  BY Marks DEF fileVars, nodeVars, Actors
<1>1. /\ Acting' /\ act'[r] = x
      /\ \A b \in Actors \ {r} : act'[b] = act[b]
  BY <1>0, FitMove DEF CInv
<1>2. Around' /\ OnDisk'
  BY <1>0 DEF CInv, Around, OnDisk
<1>3. OfNode'
  BY <1>0 DEF CInv, OfNode
<1>4. Pairs' /\ \A p \in Paths : Exists(p)' = Exists(p)
  BY <1>0, <1>1, QuietPairs DEF CInv
<1>5. Requested' /\ Served'
  BY <1>0, <1>1, <1>4, RequestedKept, ServedKept, Marks DEF CInv
<1> QED
  BY <1>1, <1>2, <1>3, <1>4, <1>5 DEF CInv

LEMMA RenewalStep ==
  ASSUME CInv, NEW r \in Renewers, Tick(r) \/ Stop(r) \/ Read(r)
  PROVE  CInv'
<1>0. /\ Acting /\ OnDisk /\ r \in Actors /\ r # Main
      /\ Fit(r, act[r], conf) /\ act[r] \in ActState
      /\ conf \in Confs \cup {EmptyCert}
  BY Marks DEF CInv, Acting, OfNode, Actors
<1>1. CASE Tick(r)
  <2> DEFINE x == [Resting("lego") EXCEPT !.cfg = conf]
  <2>1. x \in ActState /\ x.pc = "lego"
    BY <1>0, PcFacts DEF Resting, ActState
  <2>2. Fit(r, x, conf)
    BY <1>0, <2>1, PcFacts DEF Fit
  <2>3. act' = [act EXCEPT ![r] = x]
    BY <1>1 DEF Tick
  <2> HIDE DEF x
  <2> QED
    BY <1>1, <2>1, <2>2, <2>3, RenewalMove, PcFacts DEF Tick
<1>2. CASE Stop(r)
  <2> DEFINE x == [act[r] EXCEPT !.pc = "gone"]
  <2>1. act' = [act EXCEPT ![r] = x]
    BY <1>0, <1>2 DEF Stop, Goto
  <2> HIDE DEF x
  <2>2. Fit(r, x, conf) /\ x.pc = "gone"
    BY <1>0, FitGoto, PcFacts DEF x
  <2> QED
    BY <1>2, <2>1, <2>2, RenewalMove, PcFacts DEF Stop
<1>3. CASE Read(r)
  <2> DEFINE c == files[PathOf(act[r].cfg)].cert
  <2>0. Fit(r, Resting("wait"), conf) /\ Resting("wait").pc = "wait"
    BY <1>0, FitResting
  <2>1. CASE act' = [act EXCEPT ![r] = Resting("wait")]
    BY <1>3, <2>0, <2>1, RenewalMove, PcFacts DEF Read
  <2>2. CASE /\ c \notin {None, Torn}
             /\ act' = [act EXCEPT ![r].pc = "obtain", ![r].domain = c.domain]
    <3> DEFINE x == [act[r] EXCEPT !.pc = "obtain", !.domain = c.domain]
    <3>1. PathOf(act[r].cfg) \in Paths /\ Named(act[r].cfg)
      BY <1>0, <1>3, PathInHand DEF Read, Fit
    <3>2. c \in Certs
      BY <1>0, <2>2, <3>1 DEF OnDisk, FileState
    <3>3. c.domain \in Domains
      BY <3>2 DEF Certs
    <3>4. act' = [act EXCEPT ![r] = x]
      BY <1>0, <2>2
    <3> HIDE DEF c
    <3>5. x \in ActState /\ x.pc = "obtain" /\ x.cfg = act[r].cfg /\ x.domain \in Domains
      BY <1>0, <3>3, PcFacts DEF ActState
    <3> HIDE DEF x
    <3>6. Fit(r, x, conf)
      BY <1>0, <3>1, <3>5, PcFacts DEF Fit
    <3> QED
      BY <1>3, <3>4, <3>5, <3>6, RenewalMove, PcFacts DEF Read
  <2> QED
    BY <1>3, <2>1, <2>2 DEF Read, RenewalFails
<1> QED
  BY <1>1, <1>2, <1>3

-----------------------------------------------------------------------------
LEMMA CInvInit ==
  ASSUME Init
  PROVE  CInv
<1>1. \A a \in Actors : /\ Fit(a, act[a], conf)
                        /\ act[a].pc = IF a = Main THEN "idle" ELSE "gone"
  BY FitResting DEF Init, FreshProcess
<1>2. Acting
  <2>1. \A a \in Actors : act[a] \in ActState
    BY <1>1 DEF Fit
  <2>2. act = [a \in Actors |-> act[a]]
    BY DEF Init, FreshProcess
  <2> QED
    BY <1>1, <2>1, <2>2 DEF Acting
<1>3. act[Main].pc = "idle" /\ \A p \in Paths : Writing(p) = {}
  BY <1>1, PcFacts, Marks DEF Writing
<1>4. Around /\ OfNode
  <2>1. skipped \in BOOLEAN
    BY DEF Init, FreshProcess
  <2> QED
    BY <2>1, CertAssumption DEF Init, FreshProcess, Around, OfNode
<1> DEFINE c == [domain |-> CHOOSE d \in Domains : TRUE, issuer |-> "acme",
                 age |-> "fresh", key |-> Main]
<1>5. Admin => c \in Certs /\ c.key = Main
  <2>1. Admin => (CHOOSE d \in Domains : TRUE) \in Domains
    BY CertAssumption
  <2> QED
    BY <2>1, Marks DEF Certs
<1>6. \A p \in Paths : files[p] = IF p = "own" /\ Admin THEN [cert |-> c, key |-> Main]
                                                        ELSE NoFiles
  BY DEF Init
<1> HIDE DEF c
<1>7. \A p \in Paths : /\ files[p] \in FileState
                       /\ Exists(p) => Loads(p)
  BY <1>5, <1>6, Marks DEF NoFiles, FileState, Keys, Exists, Loads
<1>8. OnDisk
  <2>1. files = [p \in Paths |-> files[p]]
    BY DEF Init
  <2>2. dirs \subseteq Dirs /\ account \in [Dirs -> {"none", "torn", "ok"}]
        /\ spoiled \subseteq Paths
    BY DEF Init, Dirs
  <2> QED
    BY <1>7, <2>1, <2>2 DEF OnDisk
<1>9. Pairs
  BY <1>3, <1>7 DEF Pairs, Pair, Belongs, Alone, Matches, Begun
<1>10. Requested /\ Served
  BY <1>3 DEF Requested, Served, RenewalFits, Init, FreshProcess
<1> QED
  BY <1>2, <1>4, <1>8, <1>9, <1>10 DEF CInv

LEMMA CInvStep ==
  ASSUME CInv, [Next]_vars
  PROVE  CInv'
<1>1. CASE UNCHANGED vars
  <2>1. UNCHANGED <<fileVars, nodeVars, act>> /\ Around'
    BY <1>1 DEF vars, CInv, Around
  <2> QED
    BY <2>1, QuietInv
<1>2. CASE MainStep
  BY <1>2, StartStep, ReloadStep, RequestCertStep, AddNodeStep,
     StartTasksStep, AddUsersFailsStep, LegoInv, Marks
     DEF MainStep
<1>3. ASSUME NEW r \in Renewers, Renewal(r)
      PROVE  CInv'
  BY <1>3, RenewalStep, LegoInv DEF Renewal, Actors
<1> QED
  BY <1>1, <1>2, <1>3, PanelStep, AgeStep, CrashStep, RemoveStep DEF Next

LEMMA CInvAlways == Spec => []CInv
<1> QED
  BY CInvInit, CInvStep, PTL DEF Spec

(* Every variable of node/cert.go and node/lego.go's model holds a value   *)
(* of its kind: a renewal never reads, writes or asks for what has no      *)
(* name, and only Main comes to the core.                                  *)
THEOREM TypeCorrect == Spec => []TypeOK
<1>1. CInv => TypeOK
  <2>1. ASSUME CInv
        PROVE  /\ act \in [Actors -> ActState]
               /\ act[Main].pc \in {"idle", "request", "addnode", "tasks"} \cup LegoPcs
               /\ \A r \in Renewers : act[r].pc \in {"gone", "wait", "read"} \cup LegoPcs
               /\ \A a \in Actors :
                    act[a].pc \in {"opencert"} \cup WritePcs => act[a].cert \in Certs
    BY <2>1, Marks DEF CInv, Acting, Fit, Actors
  <2> QED
    BY <2>1 DEF CInv, Around, OnDisk, OfNode, TypeOK
<1> QED
  BY <1>1, CInvAlways, PTL

(* A renewal task is open just when the inbound's certificate comes from   *)
(* the authority, after every Start and after every reload of              *)
(* nodeInfoMonitor whose AddUsers worked, whatever else fails; one whose   *)
(* AddUsers fails returns before it looks at the task.                     *)
THEOREM TaskWhenNeeded == Spec => []RenewalFits
<1>1. CInv => RenewalFits
  BY DEF CInv, Served
<1> QED
  BY <1>1, CInvAlways, PTL

(* What requestCert leaves for the core has a certificate and a key that   *)
(* belong together, whatever died, failed or renewed before, but for the   *)
(* pairs it was spoiled for.                                               *)
THEOREM LoadsWhatIsThere == Spec => []CertLoads
<1>1. ASSUME CInv
      PROVE  CertLoads
  <2>1. SUFFICES ASSUME act[Main].pc = "addnode", InboundOptions(info, conf) = "files",
                        conf.mode \notin {"none", "file"}
                 PROVE  \/ PathOf(conf) \in spoiled \/ Writing(PathOf(conf)) # {}
                        \/ Loads(PathOf(conf))
    BY DEF CertLoads
  <2>2. Named(conf) /\ Exists(PathOf(conf))
    BY <1>1, <2>1 DEF CInv, Requested
  <2>3. PathOf(conf) \in Paths
    BY <1>1, <2>2, NamedPath DEF CInv, OfNode
  <2> QED
    BY <1>1, <2>2, <2>3 DEF CInv, Pairs, Pair, Belongs
<1> QED
  BY <1>1, CInvAlways, PTL

-----------------------------------------------------------------------------
(* A configuration has its four fields, whatever they hold. *)
IsConfig(c) ==
  c = [mode |-> c.mode, domain |-> c.domain, inline |-> c.inline, paths |-> c.paths]

LEMMA FilledIn ==
  ASSUME NEW g, IsConfig(g), g.inline = "none", NEW n
  PROVE  /\ Normal(g, n).inline = "none" /\ Normal(g, n).mode # ""
         /\ Normal(g, n).mode \in AcmeModes \cup {"self"} => Named(Normal(g, n))
<1> DEFINE d == WithDomain(g, n)
           m == WithMode(d)
<1>1. IsConfig(d) /\ d.inline = "none"
  BY DEF WithDomain, IsConfig
<1>2. IsConfig(m) /\ m.inline = "none" /\ m.mode # ""
  <2> HIDE DEF d
  <2> QED
    BY <1>1 DEF WithMode, IsConfig
<1>3. /\ WithPaths(m).inline = "none" /\ WithPaths(m).mode = m.mode
      /\ m.mode \in AcmeModes \cup {"self"} => Named(WithPaths(m))
  <2> HIDE DEF m
  <2> QED
    BY <1>2 DEF WithPaths, Named, AcmeModes, IsConfig
<1>4. Normal(g, n) = WithPaths(m)
  BY DEF Normal
<1> HIDE DEF m
<1> QED
  BY <1>2, <1>3, <1>4

LEMMA PassesNamed ==
  ASSUME NEW c, NEW e \in BOOLEAN, c.inline = "none", Plan(c, e) # "fail"
  PROVE  c.mode \in AcmeModes \cup {"self"} \/ Named(c)
BY DEF Plan, Named, AcmeModes

LEMMA InlineBoth ==
  ASSUME NEW c, NEW e \in BOOLEAN, c.inline # "none", Plan(c, e) # "fail"
  PROVE  c.inline = "both"
BY DEF Plan

LEMMA OptionsOf ==
  ASSUME NEW n, n.security = Tls, NEW c
  PROVE  /\ c.inline = "both" => TlsOptions(n, c) = "inline"
         /\ c.inline = "none" /\ Named(c) => TlsOptions(n, c) = "files"
<1>1. TlsOptions(n, c) = IF c.inline # "none"
                         THEN IF c.inline = "both" THEN "inline" ELSE "nocert"
                         ELSE IF c.mode \in {"none", ""} /\ c.paths \in {"none", "one"}
                         THEN "nocert" ELSE "files"
  BY DEF TlsOptions, Tls, Reality, Off
<1> QED
  BY <1>1 DEF Named

(* What requestCert lets pass has the paths or the inline pair that        *)
(* getInboundOptions asks for, whatever is in the configuration.           *)
LEMMA PlanEnough ==
  ASSUME NEW g, IsConfig(g), NEW n, n.security = Tls,
         NEW e \in BOOLEAN, Plan(Normal(g, n), e) # "fail"
  PROVE  /\ TlsOptions(n, Normal(g, n)) \in {"inline", "files"}
         /\ TlsOptions(n, Normal(g, n)) = "files" => Named(Normal(g, n))
<1>1. CASE g.inline # "none"
  <2>1. Normal(g, n) = g
    BY <1>1 DEF Normal
  <2>2. TlsOptions(n, g) = "inline"
    BY <1>1, <2>1, InlineBoth, OptionsOf
  <2> QED
    BY <2>1, <2>2
<1>2. CASE g.inline = "none"
  <2>1. Normal(g, n).inline = "none" /\ Named(Normal(g, n))
    BY <1>2, FilledIn, PassesNamed
  <2> QED
    BY <2>1, OptionsOf
<1> QED
  BY <1>1, <1>2

(* The cases of node/cert.go and those of core/sing/node.go agree: no      *)
(* configuration passes requestCert that getInboundOptions has no options  *)
(* for, or only half a pair of files.                                      *)
THEOREM CasesAgree == Spec => []PlanCoversOptions
<1>1. ASSUME NEW x \in Configured, x.node.security = Tls,
             NEW e \in BOOLEAN, Plan(x.cert, e) # "fail"
      PROVE  /\ TlsOptions(x.node, x.cert) \in {"inline", "files"}
             /\ TlsOptions(x.node, x.cert) = "files" => Named(x.cert)
  <2>1. PICK a \in [asked : Types \cup {"v2node"}, response : AnyResponse] :
          x = [asked |-> a.asked, node |-> Decode(a.asked, a.response),
               cert |-> Normal(CertConfig(a.response), Decode(a.asked, a.response))]
    BY DEF Configured
  <2> DEFINE n == Decode(a.asked, a.response)
             g == CertConfig(a.response)
  <2>2. x.node = n /\ x.cert = Normal(g, n)
    BY <2>1
  <2>3. IsConfig(g)
    <3>1. a.response.cert \in AnyCert
      BY <2>1 DEF AnyResponse
    <3> QED
      BY <3>1 DEF CertConfig, EmptyCert, AnyCert, IsConfig
  <2> HIDE DEF n, g
  <2> QED
    BY <1>1, <2>2, <2>3, PlanEnough
<1>2. Uncovered = {}
  BY <1>1 DEF Uncovered
<1>3. PlanCoversOptions
  BY <1>2 DEF PlanCoversOptions
<1> QED
  BY <1>3, PTL
=============================================================================
