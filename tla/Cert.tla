-------------------------------- MODULE Cert --------------------------------
(***************************************************************************)
(* The certificate of a node: node/cert.go and node/lego.go, called by     *)
(* Controller.Start, by the reload of nodeInfoMonitor and by the renewal   *)
(* task.  Main starts, reloads and closes the node; each Renewer is the    *)
(* goroutine of a renewal task.  They share the controller's CertConfig    *)
(* and the files: the certificates, their keys, the ACME account.          *)
(*                                                                         *)
(* A file is opened (and truncated) in one step and written in the next;   *)
(* the process may die between any two steps, and what it wrote stays.     *)
(* Assigning CertConfig and filling it in are one step: a renewal that ran *)
(* between them would find no file of that name and do nothing.            *)
(***************************************************************************)
EXTENDS NodeInfo

CONSTANTS
  Responses,   \* what the panel may answer
  Renewers,    \* goroutines of renewal tasks (bounds the model)
  MaxEvents,   \* changes of the panel's answer, deaths of the process and
               \*   failed writes, together (bounds the model)
  Faults,      \* what may fail: "acme" (the certificate authority), "write",
               \*   "users" (AddUsers)
  Admin,       \* whether the files of file mode are there
  Torn         \* a file that was opened for writing, and not written

Main    == "main"
Actors  == {Main} \cup Renewers
Domains == (UNION {{r.sni, r.name, CertConfig(r).domain} \cup ({r.back} \ {Absent}) :
                     r \in Responses}) \ {None}

(* Pairs of files: the default ones (their directory is the machine's,     *)
(* nobody creates it beforehand), the administrator's, and the ones of     *)
(* paths with {domain} in them, of which resolveCertPath makes one for     *)
(* each domain and, as None, one without.                                  *)
Paths == {"default", "own", None} \cup Domains
PathOf(cc) == IF cc.paths = "domain" THEN cc.domain ELSE cc.paths
Named(cc)  == cc.paths \notin {"none", "one"}
Dir(path)  == IF path = "default" THEN "default" ELSE "cert"
Dirs       == {"default", "cert"}

(* Keys are told apart, never looked into: a key is known by the actor     *)
(* that made it, and "stale" once its certificate has been truncated.      *)
Keys  == Actors \cup {"stale"}
Certs == [domain : Domains, issuer : {"self", "acme"},
          age : {"fresh", "due"}, key : Actors]

(* What a response may ask for: every mode (one that is not known is       *)
(* "other"), and no two pairs that share a file.                           *)
CertConfigs == [mode : {"", "none", "file", "self", "other"} \cup AcmeModes,
                domain : Domains \cup {None}, inline : {"none", "one", "both"},
                paths : {"none", "own", "domain"}]

ASSUME CertAssumption ==
  /\ MaxEvents \in Nat /\ Admin \in BOOLEAN
  /\ Faults \subseteq {"acme", "write", "users"}
  /\ Main \notin Renewers
  /\ None # Torn /\ {None, Torn} \cap (Certs \cup Keys) = {}
  /\ \A r \in Responses : CertConfig(r) \in CertConfigs
  /\ Admin => Domains # {}  \* the administrator's certificate has one

VARIABLES
  panel,      \* what the panel answers
  events,     \* how many changes, deaths and failed writes there were
  proc,       \* "up", or "down": systemd will start another
  files,      \* path -> certificate file and key file
  dirs,       \* the directories there are
  account,    \* directory -> its ACME account file
  spoiled,    \* history: paths where writing over a pair was cut short, or
              \*   two actors wrote at once
  node,       \* "off", "starting" (in Controller.Start), "up"
  requested,  \* Client.NodeType
  seen,       \* Client.responseBodyHash
  info, conf, \* the controller's info and CertConfig
  inbound,    \* the core's inbound: its TLS and the certificate it loaded
  task,       \* renewCertPeriodic: the goroutine of the open task, or None
  skipped,    \* history: whether the last inbound came with a reload that
              \*   returned before it came to the task
  act         \* what each actor is doing: pc, the configuration it has in
              \*   hand, the domain to obtain, and the certificate to write

fileVars  == <<files, dirs, account, spoiled>>
nodeVars  == <<node, requested, seen, info, conf, inbound, task, skipped>>
vars == <<panel, events, proc, fileVars, nodeVars, act>>

Resting(pc)  == [pc |-> pc, cfg |-> EmptyCert, domain |-> None, cert |-> None]
Idle         == act[Main].pc = "idle"
Exists(path) == files[path].cert # None /\ files[path].key # None
Loads(path)  == /\ files[path].cert \notin {None, Torn}
                /\ files[path].key = files[path].cert.key
WritePcs     == {"cert", "openkey", "key"}
Writing(path)== {a \in Actors : act[a].pc \in WritePcs /\ PathOf(act[a].cfg) = path}
AcmeNode     == info.security = Tls /\ conf.inline = "none" /\ conf.mode \in AcmeModes

NewCert(a, domain, issuer) ==
  [domain |-> domain, issuer |-> issuer, age |-> "fresh", key |-> a]

LegoPcs == {"lego", "openaccount", "account", "obtain", "opencert"} \cup WritePcs

Decoded  == {Decode(t, r) : t \in Types \cup {"v2node"}, r \in Responses}
Confs    == {CertConfig(r) : r \in Responses}
            \cup {Normal(CertConfig(r), i) : r \in Responses, i \in Decoded \ {None}}

FileState == [cert : Certs \cup {None, Torn}, key : Keys \cup {None, Torn}]
ActState  == [pc : {"idle", "request", "addnode", "tasks", "gone", "wait", "read"}
                   \cup LegoPcs,
              cfg : Confs \cup {EmptyCert}, domain : Domains \cup {None},
              cert : Certs \cup {None}]

(* Every variable holds a value of its kind; only Main loads a pair of     *)
(* files into an inbound, only a renewal reads one to see how old it is.   *)
TypeOK ==
  /\ panel \in Responses /\ events \in 0..MaxEvents
  /\ proc \in {"up", "down"}
  /\ files \in [Paths -> FileState]
  /\ dirs \subseteq Dirs /\ account \in [Dirs -> {"none", "torn", "ok"}]
  /\ spoiled \subseteq Paths
  /\ node \in {"off", "starting", "up"} /\ requested \in Types \cup {"v2node"}
  /\ seen \in Responses \cup {None} /\ info \in Decoded \cup {None}
  /\ conf \in Confs \cup {EmptyCert}
  /\ inbound = None \/ inbound.tls \in {"off", "inline", "reality", "files"}
  /\ task \in Renewers \cup {None} /\ skipped \in BOOLEAN
  /\ act \in [Actors -> ActState]
  /\ act[Main].pc \in {"idle", "request", "addnode", "tasks"} \cup LegoPcs
  /\ \A r \in Renewers : act[r].pc \in {"gone", "wait", "read"} \cup LegoPcs
  /\ \A a \in Actors :
       act[a].pc \in {"opencert"} \cup WritePcs => act[a].cert \in Certs

NoFiles == [cert |-> None, key |-> None]

(* A process that has just started. *)
FreshProcess ==
  /\ node = "off" /\ requested = "v2node" /\ seen = None /\ info = None
  /\ conf = EmptyCert /\ inbound = None /\ task = None /\ skipped = FALSE
  /\ act = [a \in Actors |-> Resting(IF a = Main THEN "idle" ELSE "gone")]

Init ==
  /\ panel \in Responses /\ events = 0 /\ proc = "up"
  /\ files = [p \in Paths |->
       IF p = "own" /\ Admin
       THEN [cert |-> [domain |-> CHOOSE d \in Domains : TRUE, issuer |-> "acme",
                       age |-> "fresh", key |-> Main], key |-> Main]
       ELSE NoFiles]
  /\ dirs = {"cert"} /\ account = [d \in Dirs |-> "none"] /\ spoiled = {}
  /\ FreshProcess

-----------------------------------------------------------------------------
(* Around the process: the panel, time, death and restart.                 *)
ChangePanel(r) ==
  /\ events < MaxEvents /\ r # panel
  /\ events' = events + 1 /\ panel' = r
  /\ UNCHANGED <<proc, fileVars, nodeVars, act>>

(* An ACME certificate comes within 30 days of its end; a self-signed one  *)
(* is good for 30 years.                                                   *)
Age(path) ==
  /\ files[path].cert \notin {None, Torn} /\ files[path].cert.issuer = "acme"
  /\ files[path].cert.age = "fresh" /\ path # "own"
  /\ files' = [files EXCEPT ![path].cert.age = "due"]
  /\ UNCHANGED <<panel, events, proc, dirs, account, spoiled, nodeVars, act>>

(* Paths whose pair is there, but left half written by the actors in as.   *)
CutShort(as) ==
  {p \in Paths : Exists(p) /\ \E a \in as : act[a].pc \in WritePcs /\ PathOf(act[a].cfg) = p}

(* The process ends, by log.Panic or otherwise. *)
Dies ==
  /\ proc' = "down"
  /\ node' = "off" /\ requested' = "v2node" /\ seen' = None /\ info' = None
  /\ conf' = EmptyCert /\ inbound' = None /\ task' = None /\ skipped' = FALSE
  /\ act' = [a \in Actors |-> Resting(IF a = Main THEN "idle" ELSE "gone")]
  /\ spoiled' = spoiled \cup CutShort(Actors)
  /\ UNCHANGED <<panel, files, dirs, account>>

Crash ==
  /\ proc = "up" /\ events < MaxEvents
  /\ events' = events + 1
  /\ Dies

Restart ==
  /\ proc = "down"
  /\ proc' = "up"
  /\ UNCHANGED <<panel, events, fileVars, nodeVars, act>>

-----------------------------------------------------------------------------
(* Main: Start and reload.                                                 *)
Goto(a, pc) == act' = [act EXCEPT ![a].pc = pc]

(* What both do with a node that was decoded, up to requestCert.           *)
Take(n) ==
  /\ info' = n /\ requested' = n.type
  /\ conf' = IF n.security = Tls THEN Normal(CertConfig(panel), n) ELSE CertConfig(panel)
  /\ act' = [act EXCEPT ![Main].pc = IF n.security = Tls THEN "request" ELSE "addnode"]

(* Controller.Start, by the machine, with a new client.                    *)
Start ==
  /\ proc = "up" /\ node = "off" /\ Idle
  /\ LET n == Decode("v2node", panel) IN
     /\ n # None
     /\ Take(n)
  /\ node' = "starting" /\ seen' = panel
  /\ UNCHANGED <<panel, events, proc, fileVars, inbound, task, skipped>>

(* nodeInfoMonitor finds a new answer.  One it cannot decode is not looked *)
(* at again; for another one the old inbound goes first, and it is fatal   *)
(* when there is none.                                                     *)
Reload ==
  /\ proc = "up" /\ node = "up" /\ Idle /\ panel # seen
  /\ LET n == Decode(requested, panel) IN
     \/ /\ n = None
        /\ seen' = panel
        /\ UNCHANGED <<panel, events, proc, fileVars, node, requested,
                       info, conf, inbound, task, skipped, act>>
     \/ /\ n # None /\ inbound = None
        /\ Dies /\ UNCHANGED events
     \/ /\ n # None /\ inbound # None
        /\ Take(n)
        /\ seen' = panel /\ inbound' = None
        /\ UNCHANGED <<panel, events, proc, fileVars, node, task, skipped>>

(* requestCert, NewLego or the core returned an error: Start gives up (the *)
(* machine's next sync starts over), a reload leaves the node without its  *)
(* inbound.                                                                *)
GiveUp == node' = IF node = "starting" THEN "off" ELSE node

(* Mutant of BothExist: one of the two files is enough.                    *)
EitherExists(path) == files[path].cert # None \/ files[path].key # None

(* What requestCert asks before it requests anything.                      *)
BothExist(path) == Exists(path)

RequestCert ==
  /\ act[Main].pc = "request"
  /\ LET plan == Plan(conf, Named(conf) /\ conf.inline = "none" /\ BothExist(PathOf(conf))) IN
     \/ plan = "ready" /\ Goto(Main, "addnode") /\ UNCHANGED node
     \/ plan = "fail" /\ Goto(Main, "idle") /\ GiveUp
     \/ /\ plan = "self"
        /\ act' = [act EXCEPT ![Main] = [pc |-> "opencert", cfg |-> conf,
                     domain |-> conf.domain, cert |-> NewCert(Main, conf.domain, "self")]]
        /\ UNCHANGED node
     \/ /\ plan = "acme"
        /\ act' = [act EXCEPT ![Main] = [pc |-> "lego", cfg |-> conf,
                     domain |-> conf.domain, cert |-> None]]
        /\ UNCHANGED node
  /\ UNCHANGED <<panel, events, proc, fileVars, requested, seen, info,
                 conf, inbound, task, skipped>>

(* AddNode: the core loads the files as it makes the inbound.              *)
AddNode ==
  /\ act[Main].pc = "addnode"
  /\ LET tls == InboundOptions(info, conf)
         ok  == \/ tls \in {"off", "inline", "reality"}
                \/ tls = "files" /\ Named(conf) /\ Loads(PathOf(conf)) IN
     \/ /\ ok
        /\ inbound' = [tls |-> tls, cert |-> IF tls = "files"
                                             THEN files[PathOf(conf)].cert ELSE None]
        /\ Goto(Main, "tasks")
        /\ UNCHANGED <<panel, events, proc, fileVars, node, requested,
                       seen, info, conf, task, skipped>>
     \/ /\ ~ok /\ node = "starting" /\ tls # "panic"
        /\ Goto(Main, "idle") /\ GiveUp
        /\ UNCHANGED <<panel, events, proc, fileVars, requested, seen,
                       info, conf, inbound, task, skipped>>
     \/ /\ ~ok /\ (node = "up" \/ tls = "panic")
        /\ Dies /\ UNCHANGED events

(* Mutant of RenewalTask: a task that there is goes on.                    *)
KeepTask ==
  IF AcmeNode /\ task = None
  THEN \E r \in Renewers :
         /\ act[r].pc = "gone"
         /\ task' = r
         /\ act' = [act EXCEPT ![Main] = Resting("idle"), ![r] = Resting("wait")]
  ELSE act' = [act EXCEPT ![Main] = Resting("idle")] /\ UNCHANGED task

(* The end of Start and of a reload: the old renewal task is closed, and   *)
(* an ACME node gets a new one, which runs at once.                        *)
RenewalTask ==
  IF AcmeNode
  THEN \E r \in Renewers :
         /\ act[r].pc = "gone"
         /\ task' = r
         /\ act' = [act EXCEPT ![Main] = Resting("idle"), ![r] = Resting("wait")]
  ELSE task' = None /\ act' = [act EXCEPT ![Main] = Resting("idle")]

StartTasks ==
  /\ act[Main].pc = "tasks"
  /\ RenewalTask
  /\ node' = "up" /\ skipped' = FALSE
  /\ UNCHANGED <<panel, events, proc, fileVars, requested, seen, info,
                 conf, inbound>>

(* Before that, AddUsers may fail.  A reload then leaves the inbound up,   *)
(* and the task as it was for the configuration before, or none.  A Start  *)
(* gives up; the inbound it leaves behind is no controller's (Controller   *)
(* has it).                                                                *)
AddUsersFails ==
  /\ act[Main].pc = "tasks" /\ "users" \in Faults
  /\ Goto(Main, "idle")
  /\ \/ node = "up" /\ skipped' = TRUE /\ UNCHANGED <<node, inbound>>
     \/ node = "starting" /\ GiveUp /\ inbound' = None /\ UNCHANGED skipped
  /\ UNCHANGED <<panel, events, proc, fileVars, requested, seen, info, conf,
                 task>>

(* The panel takes the node off its list and puts it back; in between the  *)
(* machine closes it.  (Without its inbound Close fails and is tried       *)
(* again: Controller has that.)                                            *)
Remove ==
  /\ proc = "up" /\ node = "up" /\ Idle /\ inbound # None
  /\ events < MaxEvents /\ events' = events + 1
  /\ node' = "off" /\ inbound' = None /\ task' = None /\ skipped' = FALSE
  /\ UNCHANGED <<panel, proc, fileVars, requested, seen, info,
                 conf, act>>

-----------------------------------------------------------------------------
(* The renewal task: renewCertTask takes the configuration there is now.   *)
(* A closed one may still run once more, its ticker having fired.          *)
Tick(r) ==
  /\ act[r].pc = "wait"
  /\ act' = [act EXCEPT ![r] = [Resting("lego") EXCEPT !.cfg = conf]]
  /\ UNCHANGED <<panel, events, proc, fileVars, nodeVars>>

Stop(r) ==
  /\ act[r].pc = "wait" /\ task # r
  /\ Goto(r, "gone")
  /\ UNCHANGED <<panel, events, proc, fileVars, nodeVars>>

(* Mutant of RenewalFails: the error is returned, and that ends the task.  *)
RenewalEnds(r) == act' = [act EXCEPT ![r] = Resting("gone")]

(* renewCertTask logs its errors and returns nil. *)
RenewalFails(r) == act' = [act EXCEPT ![r] = Resting("wait")]

Fails(a) ==
  IF a = Main THEN act' = [act EXCEPT ![Main] = Resting("idle")] /\ GiveUp
              ELSE RenewalFails(a) /\ UNCHANGED node

(* RenewCert reads the certificate and looks at its end (CheckCert): one   *)
(* that is missing or cannot be parsed is an error, one with more than 30  *)
(* days is left alone.  It is the certificate's domain that is renewed.    *)
Read(r) ==
  /\ act[r].pc = "read"
  /\ LET c == files[PathOf(act[r].cfg)].cert IN
     IF c \in {None, Torn} THEN RenewalFails(r)
     ELSE IF c.age = "fresh" THEN act' = [act EXCEPT ![r] = Resting("wait")]
     ELSE act' = [act EXCEPT ![r].pc = "obtain", ![r].domain = c.domain]
  /\ UNCHANGED <<panel, events, proc, fileVars, nodeVars>>

(* NewLego, NewLegoUser: an account file that is there is used, or is an   *)
(* error; when there is none an account is registered, to be saved.  (The  *)
(* file is named for the e-mail it holds, and never is another's.)  Making *)
(* the client and its provider may fail.  Without a path there is no       *)
(* certificate to renew.                                                   *)
NewLego(a, ok) ==
  /\ act[a].pc = "lego"
  /\ LET u == IF Named(act[a].cfg) THEN account[Dir(PathOf(act[a].cfg))] ELSE "torn" IN
     \/ /\ ok /\ u # "torn"
        /\ Goto(a, IF u = "none" THEN "openaccount" ELSE IF a = Main THEN "obtain" ELSE "read")
        /\ UNCHANGED node
     \/ /\ ~ok /\ (u = "torn" \/ "acme" \in Faults)
        /\ Fails(a)
  /\ UNCHANGED <<panel, events, proc, fileVars, requested, seen, info,
                 conf, inbound, task, skipped>>

(* User.Save creates the directory, truncates the file, writes it.         *)
OpenAccount(a) ==
  /\ act[a].pc = "openaccount"
  /\ LET d == Dir(PathOf(act[a].cfg)) IN
     /\ dirs' = dirs \cup {d}
     /\ account' = [account EXCEPT ![d] = "torn"]
  /\ Goto(a, "account")
  /\ UNCHANGED <<panel, events, proc, files, spoiled, nodeVars>>

(* A write fails half-way: what was truncated stays so. *)
WriteFails(a) ==
  /\ "write" \in Faults /\ events < MaxEvents
  /\ events' = events + 1
  /\ Fails(a)
  /\ spoiled' = spoiled \cup CutShort({a})

WriteAccount(a, ok) ==
  /\ act[a].pc = "account"
  /\ \/ /\ ok
        /\ account' = [account EXCEPT ![Dir(PathOf(act[a].cfg))] = "ok"]
        /\ Goto(a, IF a = Main THEN "obtain" ELSE "read") /\ UNCHANGED node
        /\ UNCHANGED <<events, spoiled>>
     \/ ~ok /\ WriteFails(a) /\ UNCHANGED account
  /\ UNCHANGED <<panel, proc, files, dirs, requested,
                 seen, info, conf, inbound, task, skipped>>

(* Obtain and Renew of the ACME client: a new key and a new certificate.   *)
Obtain(a, ok) ==
  /\ act[a].pc = "obtain"
  /\ \/ /\ ok
        /\ act' = [act EXCEPT ![a].pc = "opencert",
                              ![a].cert = NewCert(a, act[a].domain, "acme")]
        /\ UNCHANGED node
     \/ ~ok /\ "acme" \in Faults /\ Fails(a)
  /\ UNCHANGED <<panel, events, proc, fileVars, requested, seen, info,
                 conf, inbound, task, skipped>>

(* writeCert and generateSelfSslCertificate: the certificate, then its     *)
(* key.  Only writeCert creates the directory.                             *)
OpenCert(a) ==
  /\ act[a].pc = "opencert"
  /\ LET path == PathOf(act[a].cfg)
         d    == Dir(path) IN
     \/ /\ act[a].cert.issuer = "self" /\ d \notin dirs
        /\ Fails(a) /\ UNCHANGED fileVars
     \/ /\ act[a].cert.issuer = "acme" \/ d \in dirs
        /\ dirs' = dirs \cup {d}
        /\ files' = [files EXCEPT ![path].cert = Torn,
                                  ![path].key  = IF @ \in Actors THEN "stale" ELSE @]
        /\ spoiled' = IF Writing(path) # {} THEN spoiled \cup {path} ELSE spoiled
        /\ Goto(a, "cert") /\ UNCHANGED <<account, node>>
  /\ UNCHANGED <<panel, events, proc, requested, seen, info, conf,
                 inbound, task, skipped>>

WriteCert(a, ok) ==
  /\ act[a].pc = "cert"
  /\ \/ /\ ok
        /\ files' = [files EXCEPT ![PathOf(act[a].cfg)].cert = act[a].cert]
        /\ Goto(a, "openkey") /\ UNCHANGED <<events, spoiled, node>>
     \/ ~ok /\ WriteFails(a) /\ UNCHANGED files
  /\ UNCHANGED <<panel, proc, dirs, account, requested, seen,
                 info, conf, inbound, task, skipped>>

OpenKey(a) ==
  /\ act[a].pc = "openkey"
  /\ files' = [files EXCEPT ![PathOf(act[a].cfg)].key = Torn]
  /\ Goto(a, "key")
  /\ UNCHANGED <<panel, events, proc, dirs, account, spoiled, nodeVars>>

(* Mutant of Written: a renewal goes on as requestCert does.               *)
WrittenByMain(a) == Resting("addnode")

(* Main goes on to the core, a renewal waits for its next day.             *)
Written(a) == Resting(IF a = Main THEN "addnode" ELSE "wait")

WriteKey(a, ok) ==
  /\ act[a].pc = "key"
  /\ LET path == PathOf(act[a].cfg) IN
     \/ /\ ok
        /\ files' = [files EXCEPT ![path].key = act[a].cert.key]
        /\ spoiled' = IF Writing(path) = {a} /\ files[path].cert = act[a].cert
                      THEN spoiled \ {path} ELSE spoiled
        /\ act' = [act EXCEPT ![a] = Written(a)] /\ UNCHANGED <<events, node>>
     \/ ~ok /\ WriteFails(a) /\ UNCHANGED files
  /\ UNCHANGED <<panel, proc, dirs, account, requested, seen,
                 info, conf, inbound, task, skipped>>

-----------------------------------------------------------------------------
(* The steps of NewLego, Obtain and the writing of files, by whom they may *)
(* be; every choice of ok is the outside world's.                          *)
Lego(a) ==
  \/ OpenAccount(a) \/ OpenCert(a) \/ OpenKey(a)
  \/ \E ok \in BOOLEAN : \/ NewLego(a, ok) \/ WriteAccount(a, ok) \/ Obtain(a, ok)
                         \/ WriteCert(a, ok) \/ WriteKey(a, ok)

MainStep    ==
  \/ Start \/ Reload \/ RequestCert \/ AddNode \/ StartTasks \/ AddUsersFails
  \/ Lego(Main)
Renewal(r)  == Tick(r) \/ Stop(r) \/ Read(r) \/ Lego(r)

Next ==
  \/ \E r \in Responses : ChangePanel(r)
  \/ \E p \in Paths : Age(p)
  \/ Crash \/ Restart \/ MainStep \/ Remove
  \/ \E r \in Renewers : Renewal(r)

Spec == Init /\ [][Next]_vars

(* Goroutines run, systemd restarts, the ticker ticks; the certificate     *)
(* authority does not refuse for ever.                                     *)
Fairness ==
  /\ WF_vars(Restart) /\ WF_vars(MainStep)
  /\ \A r \in Renewers : WF_vars(Renewal(r))
  /\ SF_vars(\E a \in Actors : NewLego(a, TRUE))
  /\ SF_vars(\E a \in Actors : Obtain(a, TRUE))

FairSpec == Spec /\ Fairness

-----------------------------------------------------------------------------
(* Whatever crashed or failed before: the files requestCert leaves for the *)
(* core load, and their certificate and key belong together, unless the    *)
(* writing over a pair that was there was cut short, or two wrote at once. *)
(* (A first pair that was cut short before its key is requested again.)    *)
CertLoads ==
  act[Main].pc = "addnode" /\ InboundOptions(info, conf) = "files" =>
    \/ conf.mode \in {"none", "file"}
    \/ PathOf(conf) \in spoiled \/ Writing(PathOf(conf)) # {}
    \/ Loads(PathOf(conf))

(* Between two reloads, a node with an inbound has an open renewal task    *)
(* just when its certificate comes from the authority, unless the last     *)
(* reload returned early: then the task is the one of an earlier           *)
(* configuration, or there is none.                                        *)
RenewalFits ==
  Idle /\ node = "up" /\ inbound # None /\ ~skipped => (task # None <=> AcmeNode)

(* Certificates of Let's Encrypt do not run out under a node that is up:   *)
(* when one is due, it is renewed (or the node changes), unless its pair   *)
(* or the account file was left half written, or the last reload returned  *)
(* before it made the renewal task.                                        *)
Overdue ==
  /\ node = "up" /\ Idle /\ inbound # None /\ AcmeNode /\ ~skipped
  /\ PathOf(conf) \notin spoiled /\ account[Dir(PathOf(conf))] # "torn"
  /\ files[PathOf(conf)].cert \notin {None, Torn}
  /\ files[PathOf(conf)].cert.age = "due"

CertRenewed == []<>~Overdue

(* What README.md and README.en.md say of the start: certificates that are *)
(* self-signed or of another domain are replaced, so that a node that      *)
(* starts in an ACME mode has loaded an ACME certificate of its domain.    *)
DomainServed ==
  node = "starting" /\ act[Main].pc = "tasks" /\ AcmeNode =>
    inbound.cert.issuer = "acme" /\ inbound.cert.domain = conf.domain

=============================================================================
