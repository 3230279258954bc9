----------------------------- MODULE Controller -----------------------------
(***************************************************************************)
(* One node of a machine: node/controller.go and node/task.go, which keep  *)
(* an inbound of the core, its users and its limiter equal to what the     *)
(* panel says, through the caching requests of api/panel.                  *)
(*                                                                         *)
(* Start fetches everything and builds the node; nodeInfoMonitor, run by a *)
(* periodic task, fetches again and either reloads the node or applies the *)
(* difference of the user lists; Close takes the node down.  Start and     *)
(* Close are called by the machine, under its mutex; the monitor is not    *)
(* under it, so that Close and a monitor interleave.  Every request, every *)
(* call into the core and every call into the limiter is one step.         *)
(*                                                                         *)
(* Restarting the monitor's task from within the monitor leaves the old    *)
(* goroutine in its loop (see Task): the second goroutine of mon.          *)
(***************************************************************************)
EXTENDS Naturals

CONSTANTS
  NodeCfgs,    \* the node configurations the panel may hold: records with
               \*   tag (the type, host and id make the inbound's tag),
               \*   tls (whether a certificate is requested), pull (interval)
  UserLists,   \* the user lists the panel may hold: sets of User records
  Monitors,    \* goroutines that run the monitor (bounds the model)
  MaxChanges,  \* changes of the panel's configuration (bounds the model)
  Faults,      \* what may fail: see FaultKinds
  MayUnlist,   \* whether the panel may take the node off the machine
  None         \* no configuration, no list, no tag

FaultKinds ==
  {"node",      \* GetNodeInfo: the request fails
   "decode",    \* GetNodeInfo: the response cannot be decoded
   "user",      \* GetUserList: the request, or decoding its response, fails
   "cert",      \* requestCert
   "addnode", "addusers", "delusers",   \* the core's operations
   "startusers"}  \* AddUsers in Start

Tags     == {n.tag : n \in NodeCfgs}
Pulls    == {n.pull : n \in NodeCfgs}
Users    == UNION UserLists
UuidsIn(us) == {u.uuid : u \in us}

(* A user record has a uuid, a speed limit and a device limit; a list has  *)
(* one record per uuid.                                                    *)
ASSUME ControllerAssumption ==
  /\ Faults \subseteq FaultKinds
  /\ MaxChanges \in Nat /\ MayUnlist \in BOOLEAN
  /\ None \notin NodeCfgs /\ None \notin UserLists /\ None \notin Tags
  /\ \A us \in SUBSET Users : us # None

VARIABLES
  panelNode, panelUsers,  \* what the panel holds for this node
  changes,                \* how often that changed
  listed,                 \* whether the panel lists the node
  proc,       \* the process: "boot" (Machine.Start), "up", "down" (panicked,
              \*   systemd will restart it), "exited" (it will not)
  nodeSeen,   \* Client.responseBodyHash and nodeEtag
  userSeen,   \* Client.userEtag
  ctl,        \* where the machine is in this controller's Start or Close
  tag, info, userList,    \* the controller's fields
  running, chan, interval,\* its nodeInfoMonitorPeriodic: flag, channel, Interval
  mon,                    \* the monitor goroutines
  inbounds,               \* the core: tag -> the inbound of that tag, if any
  limiters                \* limiter's registry: tag -> its users, if any

panelVars   == <<panelNode, panelUsers, changes, listed>>
clientVars  == <<nodeSeen, userSeen>>
fieldVars   == <<tag, info, userList>>
taskVars    == <<running, chan, interval>>
vars == <<panelVars, proc, clientVars, ctl, fieldVars, taskVars, mon, inbounds,
          limiters>>

Gone        == [pc |-> "gone", ch |-> 0, node |-> None, users |-> None,
                old |-> {}]
NoInbound   == [cfg |-> None, users |-> {}]
Present(t)  == inbounds[t].cfg # None
Limited(t)  == limiters[t] # None
Idle        == \A m \in Monitors : mon[m].pc \in {"gone", "wait"}

MonitorState ==
  [pc : {"gone", "wait", "user", "reload", "limiter", "cert", "addnode",
         "addusers", "tasks", "diff", "delete", "add", "update"},
   ch : Nat, node : NodeCfgs \cup {None},
   users : UserLists \cup {None, {}}, old : SUBSET Users]

(* Every field, cache, inbound and limiter holds a value of its kind. *)
TypeOK ==
  /\ panelNode \in NodeCfgs /\ panelUsers \in UserLists
  /\ changes \in 0..MaxChanges /\ listed \in BOOLEAN
  /\ proc \in {"boot", "up", "down", "exited"}
  /\ nodeSeen \in NodeCfgs \cup {None}
  /\ userSeen \in UserLists \cup {None}
  /\ ctl \in {"none", "user", "limiter", "cert", "addnode", "addusers",
              "tasks", "up", "closing", "delnode"}
  /\ tag \in Tags \cup {None}
  /\ info \in NodeCfgs \cup {None}
  /\ userList # None /\ userList \in SUBSET Users
  /\ running \in BOOLEAN /\ chan \in Nat
  /\ interval \in Pulls \cup {0}
  /\ mon \in [Monitors -> MonitorState]
  /\ inbounds \in [Tags -> [cfg : NodeCfgs \cup {None},
                            users : SUBSET UuidsIn(Users)]]
  /\ limiters \in [Tags -> (SUBSET Users) \cup {None}]

(* A process that has just started: no node yet. *)
FreshProcess ==
  /\ nodeSeen = None /\ userSeen = None
  /\ ctl = "none"
  /\ tag = None /\ info = None /\ userList = {}
  /\ running = FALSE /\ chan = 0 /\ interval = 0
  /\ mon = [m \in Monitors |-> Gone]
  /\ inbounds = [t \in Tags |-> NoInbound]
  /\ limiters = [t \in Tags |-> None]

(* The node is among those of Machine.Start, or is listed later on. *)
Init ==
  /\ panelNode \in NodeCfgs /\ panelUsers \in UserLists
  /\ changes = 0 /\ listed = TRUE
  /\ proc \in {"boot", "up"}
  /\ FreshProcess

-----------------------------------------------------------------------------
(* The panel. *)
ChangeNode(n) ==
  /\ changes < MaxChanges /\ n # panelNode
  /\ changes' = changes + 1 /\ panelNode' = n
  /\ UNCHANGED <<panelUsers, listed, proc, clientVars, ctl, fieldVars,
                 taskVars, mon, inbounds, limiters>>

ChangeUsers(us) ==
  /\ changes < MaxChanges /\ us # panelUsers
  /\ changes' = changes + 1 /\ panelUsers' = us
  /\ UNCHANGED <<panelNode, listed, proc, clientVars, ctl, fieldVars,
                 taskVars, mon, inbounds, limiters>>

Unlist ==
  /\ MayUnlist /\ listed
  /\ listed' = FALSE
  /\ UNCHANGED <<panelNode, panelUsers, changes, proc, clientVars, ctl,
                 fieldVars, taskVars, mon, inbounds, limiters>>

(* log.Panic in a goroutine: the process dies, and systemd starts another. *)
Panic ==
  /\ proc' = "down"
  /\ nodeSeen' = None /\ userSeen' = None
  /\ ctl' = "none"
  /\ tag' = None /\ info' = None /\ userList' = {}
  /\ running' = FALSE /\ chan' = 0 /\ interval' = 0
  /\ mon' = [m \in Monitors |-> Gone]
  /\ inbounds' = [t \in Tags |-> NoInbound]
  /\ limiters' = [t \in Tags |-> None]
  /\ UNCHANGED panelVars

Restart ==
  /\ proc = "down"
  /\ proc' = "boot"
  /\ UNCHANGED <<panelVars, clientVars, ctl, fieldVars, taskVars, mon,
                 inbounds, limiters>>

-----------------------------------------------------------------------------
(* Controller.Start, called for a listed node that has no controller.  The *)
(* client is new.  A failure drops the controller: while the machine boots *)
(* that ends the process (with status 0), later on the next sync retries.  *)
StartFails ==
  /\ ctl' = "none"
  /\ proc' = IF proc = "boot" THEN "exited" ELSE proc

StartNode(ok, decoded) ==
  /\ proc \in {"boot", "up"} /\ ctl = "none" /\ listed
  /\ userSeen' = None
  /\ tag' = None /\ info' = None /\ userList' = {}
  /\ \/ /\ ok /\ decoded
        /\ nodeSeen' = panelNode
        /\ ctl' = "user" /\ UNCHANGED proc
     \/ /\ ok /\ ~decoded /\ "decode" \in Faults
        /\ nodeSeen' = panelNode /\ StartFails
     \/ /\ ~ok /\ decoded /\ "node" \in Faults
        /\ nodeSeen' = None /\ StartFails
  /\ UNCHANGED <<panelVars, taskVars, mon, inbounds, limiters>>

StartUsers(ok) ==
  /\ ctl = "user"
  /\ \/ /\ ok
        /\ userSeen' = panelUsers /\ userList' = panelUsers
        /\ IF panelUsers = {} THEN StartFails
                              ELSE ctl' = "limiter" /\ UNCHANGED proc
     \/ /\ ~ok /\ "user" \in Faults
        /\ StartFails /\ UNCHANGED <<userSeen, userList>>
  /\ UNCHANGED <<panelVars, nodeSeen, tag, info, taskVars, mon, inbounds,
                 limiters>>

(* The node in hand is the one the request returned. *)
StartLimiter ==
  /\ ctl = "limiter"
  /\ info' = nodeSeen /\ tag' = nodeSeen.tag
  /\ limiters' = [limiters EXCEPT ![nodeSeen.tag] = userList]
  /\ ctl' = IF nodeSeen.tls THEN "cert" ELSE "addnode"
  /\ UNCHANGED <<panelVars, proc, clientVars, userList, taskVars, mon, inbounds>>

StartCert(ok) ==
  /\ ctl = "cert"
  /\ \/ ok /\ ctl' = "addnode" /\ UNCHANGED proc
     \/ ~ok /\ "cert" \in Faults /\ StartFails
  /\ UNCHANGED <<panelVars, clientVars, fieldVars, taskVars, mon, inbounds,
                 limiters>>

StartAddNode(ok) ==
  /\ ctl = "addnode"
  /\ \/ /\ ok
        /\ inbounds' = [inbounds EXCEPT ![tag] = [cfg |-> info, users |-> {}]]
        /\ ctl' = "addusers" /\ UNCHANGED proc
     \/ /\ ~ok /\ "addnode" \in Faults
        /\ StartFails /\ UNCHANGED inbounds
  /\ UNCHANGED <<panelVars, clientVars, fieldVars, taskVars, mon, limiters>>

StartAddUsers(ok) ==
  /\ ctl = "addusers"
  /\ \/ /\ ok
        /\ inbounds' = [inbounds EXCEPT ![tag].users = @ \cup UuidsIn(userList)]
        /\ ctl' = "tasks" /\ UNCHANGED proc
     \/ /\ ~ok /\ "startusers" \in Faults
        /\ StartFails /\ UNCHANGED inbounds
  /\ UNCHANGED <<panelVars, clientVars, fieldVars, taskVars, mon, limiters>>

(* Task.Start: a new channel and a new goroutine, unless it is running. *)
Spawn(mons) ==
  /\ running' = TRUE /\ chan' = chan + 1
  /\ \E m \in Monitors :
       /\ mons[m].pc = "gone"
       /\ mon' = [mons EXCEPT ![m] = [Gone EXCEPT !.pc = "wait", !.ch = chan + 1]]

StartTasks ==
  /\ ctl = "tasks"
  /\ interval' = info.pull
  /\ Spawn(mon)
  /\ ctl' = "up" /\ proc' = "up"
  /\ UNCHANGED <<panelVars, clientVars, fieldVars, inbounds, limiters>>

-----------------------------------------------------------------------------
(* Controller.Close: the limiter goes first, then the tasks, then the      *)
(* inbound.  When the core has no such inbound Close fails, and the next   *)
(* sync calls it again.                                                    *)
CloseLimiter ==
  /\ ctl = "up" /\ ~listed
  /\ limiters' = [limiters EXCEPT ![tag] = None]
  /\ ctl' = "closing"
  /\ UNCHANGED <<panelVars, proc, clientVars, fieldVars, taskVars, mon, inbounds>>

CloseTasks ==
  /\ ctl = "closing"
  /\ running' = FALSE
  /\ ctl' = "delnode"
  /\ UNCHANGED <<panelVars, proc, clientVars, fieldVars, chan, interval, mon,
                 inbounds, limiters>>

(* Mutant of CloseNode: the controller is dropped though Close failed. *)
CloseNodeGivesUp ==
  /\ ctl = "delnode"
  /\ ctl' = "none"
  /\ inbounds' = [inbounds EXCEPT ![tag] = NoInbound]
  /\ UNCHANGED <<panelVars, proc, clientVars, fieldVars, taskVars, mon, limiters>>

CloseNode ==
  /\ ctl = "delnode"
  /\ ctl' = IF Present(tag) THEN "none" ELSE "up"
  /\ inbounds' = [inbounds EXCEPT ![tag] = NoInbound]
  /\ UNCHANGED <<panelVars, proc, clientVars, fieldVars, taskVars, mon, limiters>>

-----------------------------------------------------------------------------
(* nodeInfoMonitor, by the goroutine m.  Done: Execute returns, and the    *)
(* goroutine waits on the channel the task has now.                        *)
Waiting(m)     == [mon EXCEPT ![m] = [Gone EXCEPT !.pc = "wait", !.ch = chan]]
Goto(m, pc)    == [mon EXCEPT ![m].pc = pc]
Done(m)        == mon' = Waiting(m)

(* The stop case of the task's select. *)
Stop(m) ==
  /\ mon[m].pc = "wait"
  /\ mon[m].ch # chan \/ ~running
  /\ mon' = [mon EXCEPT ![m] = Gone]
  /\ UNCHANGED <<panelVars, proc, clientVars, ctl, fieldVars, taskVars,
                 inbounds, limiters>>

(* Mutant of GetNodeInfo: an unchanged response is taken for a new one. *)
AlwaysNewNode(m) ==
  /\ nodeSeen' = panelNode
  /\ mon' = [mon EXCEPT ![m].pc = "user", ![m].node = panelNode]

(* GetNodeInfo succeeds: nothing new when the response is the one already  *)
(* seen (the ETag, or else the hash of the body, says so).                 *)
GetNodeInfo(m) ==
  /\ nodeSeen' = panelNode
  /\ mon' = [mon EXCEPT ![m].pc = "user",
                        ![m].node = IF panelNode = nodeSeen THEN None
                                                            ELSE panelNode]

Fetch(m) ==
  /\ mon[m].pc = "wait"
  /\ GetNodeInfo(m)
  /\ UNCHANGED <<panelVars, proc, userSeen, ctl, fieldVars, taskVars, inbounds,
                 limiters>>

(* It fails; when it fails in decoding, the response has been seen.        *)
FetchFails(m) ==
  /\ mon[m].pc = "wait"
  /\ \/ "node" \in Faults /\ UNCHANGED nodeSeen
     \/ "decode" \in Faults /\ nodeSeen # panelNode /\ nodeSeen' = panelNode
  /\ Done(m)
  /\ UNCHANGED <<panelVars, proc, userSeen, ctl, fieldVars, taskVars, inbounds,
                 limiters>>

(* GetUserList succeeds.  An empty list is nil in the JSON format and not  *)
(* nil in msgpack; the panel chooses the format.                           *)
FetchUsers(m) ==
  /\ mon[m].pc = "user"
  /\ userSeen' = panelUsers
  /\ \E us \in IF panelUsers = userSeen THEN {None}
               ELSE IF panelUsers = {} THEN {None, {}} ELSE {panelUsers} :
       mon' = [mon EXCEPT ![m].users = us,
                          ![m].pc = IF mon[m].node # None THEN "reload" ELSE "diff"]
  /\ UNCHANGED <<panelVars, proc, nodeSeen, ctl, fieldVars, taskVars, inbounds,
                 limiters>>

(* Mutant of FetchUsersFails: the old inbound has been deleted already. *)
FetchUsersFailsLate(m) ==
  /\ mon[m].pc = "user"
  /\ "user" \in Faults
  /\ inbounds' = IF mon[m].node = None THEN inbounds
                  ELSE [inbounds EXCEPT ![tag] = NoInbound]
  /\ Done(m)
  /\ UNCHANGED <<panelVars, proc, clientVars, ctl, fieldVars, taskVars, limiters>>

FetchUsersFails(m) ==
  /\ mon[m].pc = "user"
  /\ "user" \in Faults
  /\ Done(m)
  /\ UNCHANGED <<panelVars, proc, clientVars, ctl, fieldVars, taskVars,
                 inbounds, limiters>>

-----------------------------------------------------------------------------
(* Mutant of DelNode: the unchanged (nil) list replaces the known one. *)
DelNodeTakesNil(m) ==
  /\ mon[m].pc = "reload" /\ Present(tag)
  /\ info' = mon[m].node
  /\ userList' = mon[m].users
  /\ inbounds' = [inbounds EXCEPT ![tag] = NoInbound]
  /\ mon' = Goto(m, "limiter")
  /\ UNCHANGED <<panelVars, proc, clientVars, ctl, tag, taskVars, limiters>>

(* Mutant of DelNode: the new tag's inbound is deleted, not the old one's. *)
DelNodeOfNewTag(m) ==
  /\ mon[m].pc = "reload" /\ Present(tag)
  /\ info' = mon[m].node
  /\ userList' = IF mon[m].users # None THEN mon[m].users ELSE userList
  /\ inbounds' = [inbounds EXCEPT ![mon[m].node.tag] = NoInbound]
  /\ mon' = Goto(m, "limiter")
  /\ UNCHANGED <<panelVars, proc, clientVars, ctl, tag, taskVars, limiters>>

(* The node's configuration is new: reload.  First the old inbound goes.   *)
DelNode(m) ==
  /\ mon[m].pc = "reload" /\ Present(tag)
  /\ info' = mon[m].node
  /\ userList' = IF mon[m].users # None THEN mon[m].users ELSE userList
  /\ inbounds' = [inbounds EXCEPT ![tag] = NoInbound]
  /\ mon' = Goto(m, "limiter")
  /\ UNCHANGED <<panelVars, proc, clientVars, ctl, tag, taskVars, limiters>>

DelNodePanics(m) ==
  /\ mon[m].pc = "reload" /\ ~Present(tag)
  /\ Panic

(* Mutant of NewLimiter: the old limiter is deleted last. *)
NewLimiterFirst(m) ==
  LET t == mon[m].node.tag IN
  /\ mon[m].pc = "limiter"
  /\ tag' = t
  /\ limiters' = [[limiters EXCEPT ![t] = userList] EXCEPT ![tag] = None]
  /\ mon' = Goto(m, IF mon[m].node.tls THEN "cert" ELSE "addnode")
  /\ UNCHANGED <<panelVars, proc, clientVars, ctl, info, userList, taskVars,
                 inbounds>>

(* DeleteLimiter of the old tag, then AddLimiter of the new one. *)
NewLimiter(m) ==
  LET t == mon[m].node.tag IN
  /\ mon[m].pc = "limiter"
  /\ tag' = t
  /\ limiters' = [[limiters EXCEPT ![tag] = None] EXCEPT ![t] = userList]
  /\ mon' = Goto(m, IF mon[m].node.tls THEN "cert" ELSE "addnode")
  /\ UNCHANGED <<panelVars, proc, clientVars, ctl, info, userList, taskVars,
                 inbounds>>

(* requestCert; when it fails the monitor returns, with no inbound. *)
Cert(m, ok) ==
  /\ mon[m].pc = "cert"
  /\ \/ ok /\ mon' = Goto(m, "addnode")
     \/ ~ok /\ "cert" \in Faults /\ Done(m)
  /\ UNCHANGED <<panelVars, proc, clientVars, ctl, fieldVars, taskVars,
                 inbounds, limiters>>

AddNode(m) ==
  /\ mon[m].pc = "addnode"
  /\ inbounds' = [inbounds EXCEPT ![tag] = [cfg |-> mon[m].node, users |-> {}]]
  /\ mon' = Goto(m, "addusers")
  /\ UNCHANGED <<panelVars, proc, clientVars, ctl, fieldVars, taskVars, limiters>>

AddNodePanics(m) ==
  /\ mon[m].pc = "addnode" /\ "addnode" \in Faults
  /\ Panic

(* The core converts the inbound to the type the given configuration says: *)
(* it panics when the inbound is of another type.                          *)
SameType(cfg) == Present(tag) => inbounds[tag].cfg.tag = cfg.tag

AddAllUsers(m) ==
  /\ mon[m].pc = "addusers"
  /\ \/ /\ Present(tag) /\ SameType(mon[m].node)
        /\ inbounds' = [inbounds EXCEPT ![tag].users = @ \cup UuidsIn(userList)]
        /\ mon' = Goto(m, "tasks")
     \/ /\ ~Present(tag) \/ "addusers" \in Faults
        /\ UNCHANGED inbounds /\ Done(m)
  /\ UNCHANGED <<panelVars, proc, clientVars, ctl, fieldVars, taskVars, limiters>>

(* Mutant of NewInterval: it starts the task without closing it, and ends. *)
RestartWithoutClose(m) ==
  /\ mon[m].pc = "tasks"
  /\ mon[m].node.pull \notin {interval, 0}
  /\ interval' = mon[m].node.pull
  /\ mon' = [mon EXCEPT ![m] = Gone]
  /\ UNCHANGED <<panelVars, proc, clientVars, ctl, fieldVars, running, chan,
                 inbounds, limiters>>

(* A new interval restarts the task that runs this very goroutine, which   *)
(* goes on beside the one Start makes.  (Close does nothing, and Start     *)
(* still does its work, when the controller has been closed meanwhile.)    *)
NewInterval(m) ==
  /\ mon[m].pc = "tasks"
  /\ mon[m].node.pull \notin {interval, 0}
  /\ interval' = mon[m].node.pull
  /\ Spawn([mon EXCEPT ![m] = [Gone EXCEPT !.pc = "wait", !.ch = chan + 1]])
  /\ UNCHANGED <<panelVars, proc, clientVars, ctl, fieldVars, inbounds, limiters>>

SameInterval(m) ==
  /\ mon[m].pc = "tasks"
  /\ mon[m].node.pull \in {interval, 0}
  /\ Done(m)
  /\ UNCHANGED <<panelVars, proc, clientVars, ctl, fieldVars, taskVars,
                 inbounds, limiters>>

-----------------------------------------------------------------------------
(* The configuration is not new: apply what compareUserList finds changed. *)

(* Mutant of Key: the uuid alone. *)
UuidKey(u) == u.uuid

(* compareUserList tells users apart by uuid and speed limit. *)
Key(u) == <<u.uuid, u.speed>>
Without(us, vs) == {u \in us : \A v \in vs : Key(u) # Key(v)}
Deleted(m) == Without(mon[m].old, mon[m].users)
Added(m)   == Without(mon[m].users, mon[m].old)

NothingToDo(m) ==
  /\ mon[m].pc = "diff" /\ mon[m].users \in {None, {}}
  /\ Done(m)
  /\ UNCHANGED <<panelVars, proc, clientVars, ctl, fieldVars, taskVars,
                 inbounds, limiters>>

Compare(m) ==
  /\ mon[m].pc = "diff" /\ mon[m].users \notin {None, {}}
  /\ mon' = [mon EXCEPT ![m].old = userList, ![m].pc = "delete"]
  /\ UNCHANGED <<panelVars, proc, clientVars, ctl, fieldVars, taskVars,
                 inbounds, limiters>>

DelUsers(m) ==
  LET del == Deleted(m) IN
  /\ mon[m].pc = "delete"
  /\ \/ /\ del = {}
        /\ UNCHANGED inbounds /\ mon' = Goto(m, "add")
     \/ /\ del # {} /\ Present(tag) /\ SameType(info)
        /\ inbounds' = [inbounds EXCEPT ![tag].users = @ \ UuidsIn(del)]
        /\ mon' = Goto(m, "add")
     \/ /\ del # {} /\ (~Present(tag) \/ "delusers" \in Faults)
        /\ UNCHANGED inbounds /\ Done(m)
  /\ UNCHANGED <<panelVars, proc, clientVars, ctl, fieldVars, taskVars, limiters>>

AddUsers(m) ==
  LET add == Added(m) IN
  /\ mon[m].pc = "add"
  /\ \/ /\ add = {}
        /\ UNCHANGED inbounds /\ mon' = Goto(m, "update")
     \/ /\ add # {} /\ Present(tag) /\ SameType(info)
        /\ inbounds' = [inbounds EXCEPT ![tag].users = @ \cup UuidsIn(add)]
        /\ mon' = Goto(m, "update")
     \/ /\ add # {} /\ (~Present(tag) \/ "addusers" \in Faults)
        /\ UNCHANGED inbounds /\ Done(m)
  /\ UNCHANGED <<panelVars, proc, clientVars, ctl, fieldVars, taskVars, limiters>>

(* The conversions' panics, in both branches. *)
WrongType(m) ==
  /\ \/ mon[m].pc = "addusers" /\ ~SameType(mon[m].node)
     \/ mon[m].pc = "delete" /\ Deleted(m) # {} /\ ~SameType(info)
     \/ mon[m].pc = "add" /\ Added(m) # {} /\ ~SameType(info)
  /\ Present(tag)
  /\ Panic

(* Mutant of UpdateUser: the deleted users are removed last. *)
UpdateUserAddFirst(m) ==
  /\ mon[m].pc = "update"
  /\ limiters' = [limiters EXCEPT ![tag] =
       IF Limited(tag)
       THEN {u \in @ \cup Added(m) : u.uuid \notin UuidsIn(Deleted(m))}
       ELSE @]
  /\ userList' = mon[m].users
  /\ Done(m)
  /\ UNCHANGED <<panelVars, proc, clientVars, ctl, tag, info, taskVars, inbounds>>

(* Limiter.UpdateUser, by uuid, on the limiter the controller holds (when  *)
(* Close took it out of the registry nobody sees the change); then the new *)
(* list becomes the known one.                                             *)
UpdateUser(m) ==
  LET gone == UuidsIn(Deleted(m)) \cup UuidsIn(Added(m)) IN
  /\ mon[m].pc = "update"
  /\ limiters' = [limiters EXCEPT ![tag] =
       IF Limited(tag) THEN {u \in @ : u.uuid \notin gone} \cup Added(m)
                       ELSE @]
  /\ userList' = mon[m].users
  /\ Done(m)
  /\ UNCHANGED <<panelVars, proc, clientVars, ctl, tag, info, taskVars, inbounds>>

-----------------------------------------------------------------------------
PanelStep ==
  \/ \E n \in NodeCfgs : ChangeNode(n)
  \/ \E us \in UserLists : ChangeUsers(us)
  \/ Unlist

StartStep ==
  \/ \E ok, decoded \in BOOLEAN : StartNode(ok, decoded)
  \/ \E ok \in BOOLEAN :
       StartUsers(ok) \/ StartCert(ok) \/ StartAddNode(ok) \/ StartAddUsers(ok)
  \/ StartLimiter
  \/ StartTasks

CloseStep == CloseLimiter \/ CloseTasks \/ CloseNode

Reload(m) ==
  \/ DelNode(m) \/ DelNodePanics(m)
  \/ NewLimiter(m)
  \/ \E ok \in BOOLEAN : Cert(m, ok)
  \/ AddNode(m) \/ AddNodePanics(m)
  \/ AddAllUsers(m)
  \/ NewInterval(m) \/ SameInterval(m)

Diff(m) ==
  \/ NothingToDo(m) \/ Compare(m) \/ DelUsers(m) \/ AddUsers(m) \/ UpdateUser(m)

MonitorStep(m) ==
  \/ Stop(m)
  \/ Fetch(m) \/ FetchFails(m) \/ FetchUsers(m) \/ FetchUsersFails(m)
  \/ Reload(m) \/ Diff(m)
  \/ WrongType(m)

Next ==
  \/ PanelStep
  \/ Restart \/ StartStep \/ CloseStep
  \/ \E m \in Monitors : MonitorStep(m)

Spec == Init /\ [][Next]_vars

(***************************************************************************)
(* The machine polls, each task ticks (Task, RunningTaskExecutes), every   *)
(* call returns, and systemd restarts the process.  A request repeated     *)
(* for ever succeeds now and then, and so does adding the users of a node  *)
(* that starts.  The panel is not obliged to change anything.              *)
(***************************************************************************)
Fairness ==
  /\ WF_vars(Restart) /\ WF_vars(StartStep) /\ WF_vars(CloseStep)
  /\ SF_vars(StartNode(TRUE, TRUE)) /\ SF_vars(StartUsers(TRUE))
  /\ SF_vars(StartAddUsers(TRUE))
  /\ \A m \in Monitors :
       /\ WF_vars(MonitorStep(m))
       /\ SF_vars(Fetch(m)) /\ SF_vars(FetchUsers(m))

FairSpec == Spec /\ Fairness

-----------------------------------------------------------------------------
(* The node has at most one inbound: a reload that changes its tag leaves  *)
(* none behind under the old one.                                          *)
SingleInbound == \A t, u \in Tags : Present(t) /\ Present(u) => t = u

(* While the node is on the machine every inbound has a limiter: without   *)
(* one the hook lets connections through unlimited and uncounted           *)
(* (core/sing/hook.go: GetLimiter fails).  Close deletes the limiter first *)
(* and does break this.                                                    *)
InboundHasLimiter == listed => \A t \in Tags : Present(t) => Limited(t)

(* Between two runs of the monitor, whoever the inbound lets in is a user  *)
(* of the limiter, which refuses those it does not know, whichever calls   *)
(* have failed and whichever updates were lost before, as long as the      *)
(* monitor's task was not restarted: two monitors do break this.           *)
ServedUsersKnown ==
  Idle /\ chan <= 1 =>
    \A t \in Tags : Present(t) /\ Limited(t) /\ ctl = "up"
                      => inbounds[t].users \subseteq UuidsIn(limiters[t])

(* A monitor that is alone, and not beside a Close, ends the process only  *)
(* where the core refuses the new inbound, or where the last reload failed *)
(* for want of a certificate: no failed request, no failed change of the   *)
(* users and no change of type leads to a panic, at once or later.         *)
NoOtherPanic ==
  [][proc # "down" /\ proc' = "down" /\ listed /\ chan <= 1 =>
       \E m \in Monitors : \/ mon[m].pc = "addnode"
                           \/ mon[m].pc = "reload" /\ ~Present(tag) /\ info.tls]_vars

(* The running monitor task always has a goroutine that the next Close     *)
(* reaches, whatever restarts and Closes came together.                    *)
MonitorReachable ==
  running => \E m \in Monitors : /\ mon[m].pc # "gone"
                                 /\ mon[m].pc = "wait" => mon[m].ch = chan

(* The node runs what the panel says. *)
Applied ==
  /\ ctl = "up"
  /\ tag = panelNode.tag
  /\ inbounds[tag] = [cfg |-> panelNode, users |-> UuidsIn(panelUsers)]
  /\ limiters[tag] = panelUsers

(* Once the panel stops changing, a running node comes to run what it      *)
(* says, and keeps to it.                                                  *)
Converges == <>[](proc = "exited" \/ Applied)

(* A node that is up, between two runs of its monitor, has an inbound.     *)
NodeUp == ctl = "up" /\ Idle => Present(tag)

(* Once the node is off the machine and closed, it has no inbound.         *)
RemovedIsGone == ~listed /\ ctl = "none" => \A t \in Tags : ~Present(t)

=============================================================================
