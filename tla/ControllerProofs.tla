-------------------------- MODULE ControllerProofs --------------------------
(***************************************************************************)
(* Proofs about Controller, for any configurations and user lists of the   *)
(* panel and any number of goroutines that run the monitor.                *)
(*                                                                         *)
(* A reload deletes the inbound, and nobody adds one until this reload     *)
(* does: at most one monitor is between DelNode and AddNode, there is no   *)
(* inbound then (OneReloads), and the limiter is registered before the     *)
(* inbound (HasLimiter).  So there is at most one inbound, made from the   *)
(* controller's info under its tag (OwnInbound).                           *)
(***************************************************************************)
EXTENDS Controller, TLAPS

Started   == {"up", "closing", "delnode"}
Starting  == {"user", "limiter", "cert", "addnode", "addusers", "tasks"}
Owning    == {"cert", "addnode", "addusers", "tasks",
              "up", "closing", "delnode"}
Reloading == {"reload", "limiter", "cert", "addnode", "addusers", "tasks"}
Window    == {"limiter", "cert", "addnode"}

(* Whoever uses a field of the controller, or a response, has one.         *)
Placed ==
  /\ ctl \in {"user", "limiter"} => nodeSeen \in NodeCfgs
  /\ ctl \in Owning => tag \in Tags /\ info \in NodeCfgs
  /\ \A m \in Monitors :
       /\ mon[m].pc # "gone" => tag \in Tags /\ info \in NodeCfgs
       /\ mon[m].pc \in Reloading => mon[m].node \in NodeCfgs
       /\ mon[m].pc \in {"delete", "add", "update"} =>
            mon[m].users \in UserLists

(* A node is closed only once it is off the machine, and up to then no     *)
(* monitor runs, or has run, in a process unless the node is up.           *)
Quiet ==
  /\ ctl \in {"closing", "delnode"} => listed = FALSE
  /\ ctl \in Starting \/ (ctl = "none" /\ listed = TRUE) =>
       /\ running = FALSE /\ chan = 0
       /\ \A m \in Monitors : mon[m].pc = "gone"

Struct == TypeOK /\ Placed /\ Quiet

(* There is no inbound but the controller's own, made from its info.       *)
OwnInbound ==
  /\ \A t \in Tags :
       Present(t) => t = tag /\ inbounds[t].cfg = info /\ info.tag = tag
  /\ ctl \in {"none", "user", "limiter", "cert", "addnode"} =>
       \A t \in Tags : ~Present(t)
  /\ ctl \in {"cert", "addnode"} => tag = info.tag
  /\ ctl \in {"addusers", "tasks"} => Present(tag)

(* One monitor at most is between the old inbound and the new one.         *)
OneReloads ==
  /\ \A m \in Monitors : mon[m].pc \in Window =>
       /\ \A t \in Tags : ~Present(t)
       /\ ctl \in Started
       /\ info = mon[m].node
       /\ mon[m].pc # "limiter" => tag = mon[m].node.tag
       /\ mon[m].pc = "cert" => mon[m].node.tls
  /\ \A m, n \in Monitors :
       mon[m].pc \in Window /\ mon[n].pc \in Window => m = n

(* The limiter is there before the inbound is.                             *)
HasLimiter ==
  /\ InboundHasLimiter
  /\ ctl \in {"cert", "addnode"} => Limited(tag)
  /\ \A m \in Monitors :
       listed /\ mon[m].pc \in {"cert", "addnode"} => Limited(tag)

-----------------------------------------------------------------------------
(* What a step does to the goroutines: one goes on, returns, or is new.    *)
Pcs == {"wait", "user", "reload", "limiter", "cert", "addnode", "addusers",
        "tasks", "diff", "delete", "add", "update"}

Others(m) ==
  /\ mon' \in [Monitors -> MonitorState]
  /\ \A n \in Monitors \ {m} : mon'[n] = mon[n]

GoesTo(m, p) ==
  /\ Others(m)
  /\ mon'[m].pc = p
  /\ mon'[m].node = mon[m].node /\ mon'[m].users = mon[m].users
  /\ mon'[m].old = mon[m].old

Returns(m) ==
  /\ Others(m)
  /\ mon'[m].pc = "wait" /\ mon'[m].ch = chan /\ mon'[m].node = None

LEMMA GotoState ==
  ASSUME TypeOK, NEW m \in Monitors, NEW p \in Pcs, mon' = Goto(m, p)
  PROVE  GoesTo(m, p)
<1>1. mon \in [Monitors -> MonitorState] /\ mon[m] \in MonitorState
  BY DEF TypeOK
<1> DEFINE s == [mon[m] EXCEPT !.pc = p]
<1>2. /\ s \in MonitorState /\ s.pc = p /\ s.node = mon[m].node
      /\ s.users = mon[m].users /\ s.old = mon[m].old
  BY <1>1 DEF MonitorState, Pcs
<1>3. mon' = [mon EXCEPT ![m] = s]
  BY DEF Goto
<1> HIDE DEF s
<1> QED
  BY <1>1, <1>2, <1>3 DEF GoesTo, Others

LEMMA WaitState ==
  ASSUME NEW c \in Nat
  PROVE  /\ [Gone EXCEPT !.pc = "wait", !.ch = c] \in MonitorState
         /\ [Gone EXCEPT !.pc = "wait", !.ch = c].pc = "wait"
         /\ [Gone EXCEPT !.pc = "wait", !.ch = c].ch = c
         /\ [Gone EXCEPT !.pc = "wait", !.ch = c].node = None
BY DEF Gone, MonitorState

LEMMA DoneState ==
  ASSUME TypeOK, NEW m \in Monitors, Done(m)
  PROVE  Returns(m)
<1>1. mon \in [Monitors -> MonitorState] /\ chan \in Nat
  BY DEF TypeOK
<1> QED
  BY <1>1, WaitState DEF Done, Waiting, Returns, Others

LEMMA SpawnState ==
  ASSUME NEW mons \in [Monitors -> MonitorState], chan \in Nat, Spawn(mons)
  PROVE  /\ running' = TRUE /\ chan' = chan + 1 /\ chan' \in Nat
         /\ mon' \in [Monitors -> MonitorState]
         /\ \E s \in Monitors :
              /\ mons[s].pc = "gone"
              /\ mon'[s].pc = "wait" /\ mon'[s].ch = chan'
              /\ mon'[s].node = None
              /\ \A n \in Monitors \ {s} : mon'[n] = mons[n]
<1>1. PICK s \in Monitors :
        /\ mons[s].pc = "gone"
        /\ mon' = [mons EXCEPT ![s] =
                     [Gone EXCEPT !.pc = "wait", !.ch = chan + 1]]
  BY DEF Spawn
<1>2. chan + 1 \in Nat
  OBVIOUS
<1> QED
  BY <1>1, <1>2, WaitState DEF Spawn

(* A new interval: the goroutine waits on the new channel, as the new one. *)
LEMMA IntervalState ==
  ASSUME TypeOK, NEW m \in Monitors, NewInterval(m)
  PROVE  /\ running' = TRUE /\ chan' = chan + 1 /\ chan' \in Nat
         /\ mon' \in [Monitors -> MonitorState]
         /\ \E s \in Monitors \ {m} :
              /\ mon[s].pc = "gone"
              /\ \A n \in {s, m} : mon'[n].pc = "wait" /\ mon'[n].ch = chan'
              /\ \A n \in Monitors \ {s, m} : mon'[n] = mon[n]
<1> DEFINE w == [Gone EXCEPT !.pc = "wait", !.ch = chan + 1]
           mons == [mon EXCEPT ![m] = w]
<1>1. mon \in [Monitors -> MonitorState] /\ chan \in Nat /\ chan + 1 \in Nat
  BY DEF TypeOK
<1>2. w \in MonitorState /\ w.pc = "wait" /\ w.ch = chan + 1
  BY <1>1, WaitState
<1>3. /\ mons \in [Monitors -> MonitorState]
      /\ mons[m].pc = "wait" /\ mons[m].ch = chan + 1
      /\ \A n \in Monitors \ {m} : mons[n] = mon[n]
  <2> HIDE DEF w
  <2> QED
    BY <1>1, <1>2
<1>4. Spawn(mons)
  BY DEF NewInterval
<1> HIDE DEF mons, w
<1>5. PICK s \in Monitors :
        /\ mons[s].pc = "gone"
        /\ mon'[s].pc = "wait" /\ mon'[s].ch = chan'
        /\ \A n \in Monitors \ {s} : mon'[n] = mons[n]
  BY <1>1, <1>3, <1>4, SpawnState
<1>6. s # m /\ mon[s].pc = "gone" /\ chan' = chan + 1
  BY <1>1, <1>3, <1>4, <1>5, SpawnState
<1>7. mon'[m].pc = "wait" /\ mon'[m].ch = chan'
  BY <1>3, <1>5, <1>6
<1>8. \A n \in Monitors \ {s, m} : mon'[n] = mon[n]
  BY <1>3, <1>5
<1>9. /\ running' = TRUE /\ chan' \in Nat
      /\ mon' \in [Monitors -> MonitorState]
  BY <1>1, <1>3, <1>4, SpawnState
<1>10. s \in Monitors \ {m}
  BY <1>6
<1> QED
  BY <1>5, <1>6, <1>7, <1>8, <1>9, <1>10

LEMMA FetchState ==
  ASSUME TypeOK, NEW m \in Monitors, Fetch(m)
  PROVE  /\ Others(m) /\ mon'[m].pc = "user"
         /\ mon'[m].node = IF panelNode = nodeSeen THEN None ELSE panelNode
<1> DEFINE x == IF panelNode = nodeSeen THEN None ELSE panelNode
           s == [mon[m] EXCEPT !.pc = "user", !.node = x]
<1>1. x \in NodeCfgs \cup {None} /\ mon \in [Monitors -> MonitorState]
  BY DEF TypeOK
<1>2. s \in MonitorState /\ s.pc = "user" /\ s.node = x
  <2> HIDE DEF x
  <2> QED
    BY <1>1 DEF MonitorState
<1>3. mon' = [mon EXCEPT ![m] = s]
  BY <1>1 DEF Fetch, GetNodeInfo
<1> HIDE DEF s
<1> QED
  BY <1>1, <1>2, <1>3 DEF Others

LEMMA FetchUsersState ==
  ASSUME TypeOK, NEW m \in Monitors, FetchUsers(m)
  PROVE  /\ Others(m) /\ mon'[m].node = mon[m].node
         /\ mon'[m].pc = IF mon[m].node # None THEN "reload" ELSE "diff"
<1>1. PICK us \in UserLists \cup {None, {}} :
        mon' = [mon EXCEPT ![m].users = us,
                  ![m].pc = IF mon[m].node # None THEN "reload" ELSE "diff"]
  BY DEF FetchUsers, TypeOK
<1> DEFINE p == IF mon[m].node # None THEN "reload" ELSE "diff"
           s == [mon[m] EXCEPT !.users = us, !.pc = p]
<1>2. p \in {"reload", "diff"} /\ mon \in [Monitors -> MonitorState]
  BY DEF TypeOK
<1>3. s \in MonitorState /\ s.pc = p /\ s.node = mon[m].node
  <2> HIDE DEF p
  <2> QED
    BY <1>2 DEF MonitorState
<1>4. mon' = [mon EXCEPT ![m] = s]
  BY <1>1, <1>2
<1> HIDE DEF s
<1> QED
  BY <1>2, <1>3, <1>4 DEF Others

LEMMA CompareState ==
  ASSUME TypeOK, NEW m \in Monitors, Compare(m)
  PROVE  /\ Others(m) /\ mon'[m].pc = "delete"
         /\ mon'[m].users = mon[m].users /\ mon'[m].old = userList
<1> DEFINE s == [mon[m] EXCEPT !.old = userList, !.pc = "delete"]
<1>1. mon \in [Monitors -> MonitorState] /\ userList \in SUBSET Users
  BY DEF TypeOK
<1>2. /\ s \in MonitorState /\ s.pc = "delete" /\ s.users = mon[m].users
      /\ s.old = userList
  BY <1>1 DEF MonitorState
<1>3. mon' = [mon EXCEPT ![m] = s]
  BY <1>1 DEF Compare
<1> HIDE DEF s
<1> QED
  BY <1>1, <1>2, <1>3 DEF Others

LEMMA StopState ==
  ASSUME TypeOK, NEW m \in Monitors, Stop(m)
  PROVE  Others(m) /\ mon'[m].pc = "gone" /\ mon'[m].node = None
<1>1. Gone \in MonitorState /\ Gone.pc = "gone" /\ Gone.node = None
  BY DEF Gone, MonitorState
<1> QED
  BY <1>1 DEF TypeOK, Stop, Others

-----------------------------------------------------------------------------
(* Struct: no assumption but the constants' types. *)
LEMMA AddedUsers ==
  ASSUME TypeOK, NEW m \in Monitors, mon[m].users \in UserLists
  PROVE  /\ Added(m) \in SUBSET Users
         /\ UuidsIn(Added(m)) \in SUBSET UuidsIn(Users)
BY DEF Added, Without, Users, UuidsIn

InboundStates ==
  [Tags -> [cfg : NodeCfgs \cup {None}, users : SUBSET UuidsIn(Users)]]

LimiterStates == [Tags -> (SUBSET Users) \cup {None}]

LEMMA StructInit ==
  ASSUME Init
  PROVE  Struct
<1>1. Gone \in MonitorState /\ Gone.pc = "gone"
  BY DEF Gone, MonitorState
<1>2. mon \in [Monitors -> MonitorState] /\ \A m \in Monitors : mon[m].pc = "gone"
  BY <1>1 DEF Init, FreshProcess
<1>3. inbounds \in InboundStates
  BY DEF Init, FreshProcess, NoInbound, InboundStates
<1>4. changes \in 0..MaxChanges /\ userList # None
  BY ControllerAssumption DEF Init, FreshProcess
<1>5. TypeOK
  BY <1>2, <1>3, <1>4 DEF Init, FreshProcess, TypeOK, InboundStates
<1> QED
  BY <1>2, <1>5
     DEF Init, FreshProcess, Struct, Placed, Quiet, Starting, Owning,
         Reloading

(* What a step of the panel, of the process, of Start or of Close does to  *)
(* the goroutines is little; each part of Struct is a step of its own.     *)
LEMMA StructPanel ==
  ASSUME Struct, PanelStep
  PROVE  Struct'
<1>1. /\ panelNode' \in NodeCfgs /\ panelUsers' \in UserLists
      /\ listed' \in BOOLEAN /\ (listed' = TRUE => listed = TRUE)
      /\ UNCHANGED <<proc, clientVars, ctl, fieldVars, taskVars, mon, inbounds,
                     limiters>>
  BY DEF PanelStep, ChangeNode, ChangeUsers, Unlist, Struct, TypeOK
<1>2. changes' \in 0..MaxChanges
  BY ControllerAssumption
     DEF PanelStep, ChangeNode, ChangeUsers, Unlist, Struct, TypeOK
<1>3. TypeOK'
  BY <1>1, <1>2 DEF Struct, TypeOK, clientVars, fieldVars, taskVars
<1>4. Placed'
  BY <1>1 DEF Struct, Placed, clientVars, fieldVars
<1>5. Quiet'
  BY <1>1 DEF Struct, Quiet, taskVars
<1> QED
  BY <1>3, <1>4, <1>5 DEF Struct

LEMMA StructPanic ==
  ASSUME Struct, Panic
  PROVE  Struct'
<1>1. Gone \in MonitorState /\ Gone.pc = "gone"
  BY DEF Gone, MonitorState
<1>2. /\ mon' \in [Monitors -> MonitorState]
      /\ \A m \in Monitors : mon'[m].pc = "gone"
  BY <1>1 DEF Panic
<1>3. inbounds' \in InboundStates /\ userList' # None
  BY ControllerAssumption DEF Panic, InboundStates, NoInbound
<1>4. TypeOK'
  BY <1>2, <1>3 DEF Panic, Struct, TypeOK, InboundStates, panelVars
<1>5. Placed' /\ Quiet'
  BY <1>2 DEF Panic, Placed, Quiet, Starting, Owning, Reloading
<1> QED
  BY <1>4, <1>5 DEF Struct

(* Up to StartTasks no monitor runs.                                       *)
LEMMA StructStart ==
  ASSUME Struct, StartStep
  PROVE  Struct'
<1>1. /\ ctl \in Starting \/ (ctl = "none" /\ listed = TRUE)
      /\ UNCHANGED panelVars
  BY DEF StartStep, StartNode, StartUsers, StartLimiter, StartCert,
         StartAddNode, StartAddUsers, StartTasks, Starting, Struct, TypeOK
<1>2. /\ running = FALSE /\ chan = 0 /\ \A m \in Monitors : mon[m].pc = "gone"
      /\ TypeOK /\ Placed
  BY <1>1 DEF Struct, Quiet
<1>3. ASSUME UNCHANGED <<taskVars, mon>>, ctl' \notin {"closing", "delnode"},
             ctl' \in {"user", "limiter"} => nodeSeen' \in NodeCfgs,
             ctl' \in Owning => tag' \in Tags /\ info' \in NodeCfgs
      PROVE  Placed' /\ Quiet'
  BY <1>1, <1>2, <1>3 DEF Placed, Quiet, Reloading, taskVars, panelVars
<1>4. ASSUME NEW ok \in BOOLEAN, NEW decoded \in BOOLEAN, StartNode(ok, decoded)
      PROVE  Struct'
  <2>1. TypeOK'
    BY <1>1, <1>2, <1>4, ControllerAssumption
       DEF StartNode, StartFails, TypeOK, panelVars, taskVars
  <2>2. Placed' /\ Quiet'
    BY <1>2, <1>3, <1>4 DEF StartNode, StartFails, TypeOK, Owning, panelVars
  <2> QED
    BY <2>1, <2>2 DEF Struct
<1>5. ASSUME NEW ok \in BOOLEAN, StartUsers(ok)
      PROVE  Struct'
  <2>1. TypeOK'
    BY <1>1, <1>2, <1>5, ControllerAssumption
       DEF StartUsers, StartFails, TypeOK, Users, panelVars, taskVars
  <2>2. Placed' /\ Quiet'
    BY <1>2, <1>3, <1>5 DEF StartUsers, StartFails, Placed, Owning
  <2> QED
    BY <2>1, <2>2 DEF Struct
<1>6. CASE StartLimiter
  <2>1. nodeSeen \in NodeCfgs /\ nodeSeen.tag \in Tags
    BY <1>2, <1>6 DEF StartLimiter, Placed, Tags
  <2>2. TypeOK'
    BY <1>1, <1>2, <1>6, <2>1
       DEF StartLimiter, TypeOK, panelVars, clientVars, taskVars
  <2>3. Placed' /\ Quiet'
    BY <1>3, <1>6, <2>1 DEF StartLimiter, Owning
  <2> QED
    BY <2>2, <2>3 DEF Struct
<1>7. ASSUME NEW ok \in BOOLEAN, StartCert(ok) \/ StartAddNode(ok) \/ StartAddUsers(ok)
      PROVE  Struct'
  <2>1. /\ tag \in Tags /\ info \in NodeCfgs
        /\ UNCHANGED <<clientVars, fieldVars, taskVars, mon, limiters>>
        /\ ctl' \in {"none", "addnode", "addusers", "tasks"}
        /\ proc' \in {"boot", "up", "down", "exited"}
    BY <1>2, <1>7
       DEF StartCert, StartAddNode, StartAddUsers, StartFails, Placed, Owning,
           TypeOK
  <2>2. inbounds' \in InboundStates
    BY <1>2, <1>7, <2>1
       DEF StartCert, StartAddNode, StartAddUsers, TypeOK, InboundStates,
           UuidsIn
  <2>3. TypeOK'
    BY <1>1, <1>2, <2>1, <2>2
       DEF TypeOK, InboundStates, panelVars, clientVars, fieldVars, taskVars
  <2>4. Placed' /\ Quiet'
    BY <1>3, <2>1 DEF fieldVars
  <2> QED
    BY <2>3, <2>4 DEF Struct
<1>8. CASE StartTasks
  <2>1. /\ running' = TRUE /\ chan' \in Nat
        /\ mon' \in [Monitors -> MonitorState]
        /\ \A n \in Monitors : mon'[n].pc = "wait" \/ mon'[n] = mon[n]
    <3>1. Spawn(mon) /\ mon \in [Monitors -> MonitorState] /\ chan \in Nat
      BY <1>2, <1>8 DEF StartTasks, TypeOK
    <3> QED
      BY <3>1, SpawnState
  <2>2. info \in NodeCfgs /\ tag \in Tags /\ interval' \in Pulls
    BY <1>2, <1>8 DEF StartTasks, Placed, Owning, Pulls
  <2>3. TypeOK'
    BY <1>1, <1>2, <1>8, <2>1, <2>2
       DEF StartTasks, TypeOK, panelVars, clientVars, fieldVars
  <2>4. Placed' /\ Quiet'
    BY <1>2, <1>8, <2>1, <2>2
       DEF StartTasks, Placed, Quiet, Starting, Reloading, fieldVars
  <2> QED
    BY <2>3, <2>4 DEF Struct
<1> QED
  BY <1>4, <1>5, <1>6, <1>7, <1>8 DEF StartStep

LEMMA StructClose ==
  ASSUME Struct, CloseStep
  PROVE  Struct'
<1>1. /\ ctl \in {"up", "closing", "delnode"} /\ TypeOK /\ Placed /\ listed = FALSE
      /\ ctl' \in {"none", "up", "closing", "delnode"}
      /\ UNCHANGED <<panelVars, proc, clientVars, fieldVars, chan, interval, mon>>
  BY DEF CloseStep, CloseLimiter, CloseTasks, CloseNode, Struct, TypeOK, Quiet,
         taskVars
<1>2. /\ inbounds \in InboundStates /\ limiters \in LimiterStates
      /\ NoInbound \in [cfg : NodeCfgs \cup {None}, users : SUBSET UuidsIn(Users)]
  BY <1>1 DEF TypeOK, InboundStates, LimiterStates, NoInbound
<1>3. inbounds' \in InboundStates
  BY <1>2 DEF CloseStep, CloseLimiter, CloseTasks, CloseNode, InboundStates
<1>4. limiters' \in LimiterStates /\ running' \in BOOLEAN
  BY <1>1, <1>2
     DEF CloseStep, CloseLimiter, CloseTasks, CloseNode, LimiterStates, TypeOK,
         taskVars
<1>5. TypeOK'
  BY <1>1, <1>3, <1>4
     DEF TypeOK, InboundStates, LimiterStates, panelVars, clientVars, fieldVars
<1>6. Placed'
  BY <1>1 DEF Placed, Owning, clientVars, fieldVars
<1>7. Quiet'
  BY <1>1 DEF Quiet, Starting, panelVars
<1> QED
  BY <1>5, <1>6, <1>7 DEF Struct

(* A monitor's step keeps Struct when what it changes keeps its kind.      *)
LEMMA StructMonitor ==
  ASSUME Struct, NEW m \in Monitors, mon[m].pc # "gone", Others(m),
         UNCHANGED <<panelVars, proc, ctl, taskVars>>,
         nodeSeen' \in NodeCfgs \cup {None}, userSeen' \in UserLists \cup {None},
         tag' \in Tags, info' \in NodeCfgs,
         userList' # None, userList' \in SUBSET Users,
         inbounds' \in InboundStates, limiters' \in LimiterStates,
         mon'[m].pc \in Reloading => mon'[m].node \in NodeCfgs,
         mon'[m].pc \in {"delete", "add", "update"} => mon'[m].users \in UserLists
  PROVE  Struct'
<1>1. TypeOK'
  BY DEF Struct, TypeOK, Others, InboundStates, LimiterStates, panelVars,
         taskVars
<1>2. ctl \notin Starting /\ ~(ctl = "none" /\ listed = TRUE)
  BY DEF Struct, Quiet
<1>3. Quiet'
  BY <1>2 DEF Struct, Quiet, panelVars
<1>4. Placed'
  BY <1>2 DEF Struct, Placed, Others, Starting
<1> QED
  BY <1>1, <1>3, <1>4 DEF Struct

(* What a goroutine that runs the monitor may rely on.                     *)
LEMMA MonitorHas ==
  ASSUME Struct, NEW m \in Monitors, mon[m].pc # "gone"
  PROVE  /\ TypeOK /\ tag \in Tags /\ info \in NodeCfgs
         /\ nodeSeen \in NodeCfgs \cup {None}
         /\ userSeen \in UserLists \cup {None}
         /\ userList # None /\ userList \in SUBSET Users
         /\ inbounds \in InboundStates /\ limiters \in LimiterStates
         /\ mon[m].node \in NodeCfgs \cup {None}
         /\ mon[m].users \in UserLists \cup {None, {}}
         /\ mon[m].pc \in Reloading => mon[m].node \in NodeCfgs
         /\ mon[m].pc \in {"delete", "add", "update"} =>
              mon[m].users \in UserLists
BY DEF Struct, Placed, TypeOK, MonitorState, InboundStates, LimiterStates

(* The monitor's steps that only ask.                                      *)
LEMMA StructAsk ==
  ASSUME Struct, NEW m \in Monitors,
         \/ Stop(m) \/ Fetch(m) \/ FetchFails(m) \/ FetchUsers(m)
         \/ FetchUsersFails(m) \/ SameInterval(m) \/ NothingToDo(m)
         \/ Compare(m)
  PROVE  Struct'
<1>1. /\ mon[m].pc # "gone"
      /\ UNCHANGED <<panelVars, proc, ctl, taskVars, fieldVars, inbounds,
                     limiters>>
  BY DEF Stop, Fetch, FetchFails, FetchUsers, FetchUsersFails, SameInterval,
         NothingToDo, Compare
<1>2. /\ nodeSeen' \in NodeCfgs \cup {None}
      /\ userSeen' \in UserLists \cup {None}
  BY DEF Stop, Fetch, GetNodeInfo, FetchFails, FetchUsers, FetchUsersFails,
         SameInterval, NothingToDo, Compare, clientVars, Struct, TypeOK
<1>3. TypeOK
  BY DEF Struct
<1>4. /\ Others(m)
      /\ mon'[m].pc \in Reloading => mon'[m].node \in NodeCfgs
      /\ mon'[m].pc \in {"delete", "add", "update"} =>
           mon'[m].users \in UserLists
  <2>1. CASE Stop(m) \/ Fetch(m)
    BY <1>3, <2>1, StopState, FetchState DEF Reloading
  <2>2. CASE \/ FetchFails(m) \/ FetchUsersFails(m) \/ SameInterval(m)
             \/ NothingToDo(m)
    <3>1. Returns(m)
      BY <1>3, <2>2, DoneState
         DEF FetchFails, FetchUsersFails, SameInterval, NothingToDo
    <3> QED
      BY <3>1 DEF Returns, Reloading
  <2>3. CASE FetchUsers(m)
    BY <1>1, <1>3, <2>3, FetchUsersState, MonitorHas DEF Reloading
  <2>4. CASE Compare(m)
    <3>1. mon[m].users \in UserLists
      BY <1>1, <2>4, MonitorHas DEF Compare
    <3> QED
      BY <1>3, <2>4, <3>1, CompareState DEF Reloading
  <2> QED
    BY <2>1, <2>2, <2>3, <2>4
<1> QED
  BY <1>1, <1>2, <1>4, MonitorHas, StructMonitor DEF fieldVars

(* The steps of a reload.                                                  *)
LEMMA StructReload ==
  ASSUME Struct, NEW m \in Monitors,
         \/ DelNode(m) \/ NewLimiter(m) \/ (\E ok \in BOOLEAN : Cert(m, ok))
         \/ AddNode(m) \/ AddAllUsers(m) \/ NewInterval(m)
  PROVE  Struct'
<1>0. mon[m].pc \in Reloading /\ mon[m].pc # "gone"
  BY DEF DelNode, NewLimiter, Cert, AddNode, AddAllUsers, NewInterval,
         Reloading
<1>1. ASSUME \E p \in Reloading : GoesTo(m, p) \/ Returns(m)
      PROVE  /\ Others(m)
             /\ mon'[m].pc \in Reloading => mon'[m].node \in NodeCfgs
             /\ mon'[m].pc \notin {"delete", "add", "update"}
  BY <1>0, <1>1, MonitorHas DEF GoesTo, Returns, Reloading
<1>2. CASE DelNode(m)
  <2>1. GoesTo(m, "limiter")
    BY <1>0, <1>2, GotoState, MonitorHas DEF DelNode, Pcs
  <2>2. inbounds' \in InboundStates
    BY <1>0, <1>2, MonitorHas DEF DelNode, InboundStates, NoInbound
  <2>3. userList' # None /\ userList' \in SUBSET Users /\ info' \in NodeCfgs
    BY <1>0, <1>2, MonitorHas, ControllerAssumption DEF DelNode, Users
  <2> QED
    BY <1>0, <1>1, <1>2, <2>1, <2>2, <2>3, MonitorHas, StructMonitor
       DEF DelNode, clientVars, Reloading
<1>3. CASE NewLimiter(m)
  <2>1. GoesTo(m, "cert") \/ GoesTo(m, "addnode")
    BY <1>0, <1>3, GotoState, MonitorHas DEF NewLimiter, Pcs
  <2>2. tag' \in Tags /\ limiters' \in LimiterStates
    BY <1>0, <1>3, MonitorHas DEF NewLimiter, LimiterStates, Tags
  <2> QED
    BY <1>0, <1>1, <1>3, <2>1, <2>2, MonitorHas, StructMonitor
       DEF NewLimiter, clientVars, Reloading
<1>4. ASSUME NEW ok \in BOOLEAN, Cert(m, ok)
      PROVE  Struct'
  <2>1. GoesTo(m, "addnode") \/ Returns(m)
    BY <1>0, <1>4, GotoState, DoneState, MonitorHas DEF Cert, Pcs
  <2> QED
    BY <1>0, <1>1, <1>4, <2>1, MonitorHas, StructMonitor
       DEF Cert, clientVars, fieldVars, Reloading
<1>5. CASE AddNode(m)
  <2>1. GoesTo(m, "addusers")
    BY <1>0, <1>5, GotoState, MonitorHas DEF AddNode, Pcs
  <2>2. inbounds' \in InboundStates
    BY <1>0, <1>5, MonitorHas DEF AddNode, InboundStates
  <2> QED
    BY <1>0, <1>1, <1>5, <2>1, <2>2, MonitorHas, StructMonitor
       DEF AddNode, clientVars, fieldVars, Reloading
<1>6. CASE AddAllUsers(m)
  <2>1. GoesTo(m, "tasks") \/ Returns(m)
    BY <1>0, <1>6, GotoState, DoneState, MonitorHas DEF AddAllUsers, Pcs
  <2>2. inbounds' \in InboundStates
    BY <1>0, <1>6, MonitorHas DEF AddAllUsers, InboundStates, UuidsIn
  <2> QED
    BY <1>0, <1>1, <1>6, <2>1, <2>2, MonitorHas, StructMonitor
       DEF AddAllUsers, clientVars, fieldVars, Reloading
<1>7. CASE NewInterval(m)
  <2>1. /\ running' = TRUE /\ chan' \in Nat
        /\ mon' \in [Monitors -> MonitorState]
        /\ \A n \in Monitors : mon'[n].pc = "wait" \/ mon'[n] = mon[n]
    BY <1>0, <1>7, IntervalState, MonitorHas
  <2>2. /\ interval' \in Pulls /\ tag \in Tags /\ info \in NodeCfgs
        /\ UNCHANGED <<panelVars, proc, clientVars, ctl, fieldVars, inbounds,
                       limiters>>
    BY <1>0, <1>7, MonitorHas DEF NewInterval, Pulls
  <2>3. TypeOK'
    BY <2>1, <2>2 DEF Struct, TypeOK, panelVars, clientVars, fieldVars
  <2>4. Quiet'
    BY <1>0, <2>2 DEF Struct, Quiet, panelVars
  <2>5. Placed'
    BY <2>1, <2>2 DEF Struct, Placed, clientVars, fieldVars, Reloading
  <2> QED
    BY <2>3, <2>4, <2>5 DEF Struct
<1> QED
  BY <1>2, <1>3, <1>4, <1>5, <1>6, <1>7

(* The steps of a change of the users.                                     *)
LEMMA StructDiff ==
  ASSUME Struct, NEW m \in Monitors,
         DelUsers(m) \/ AddUsers(m) \/ UpdateUser(m)
  PROVE  Struct'
<1>0. /\ mon[m].pc \in {"delete", "add", "update"} /\ mon[m].pc # "gone"
      /\ UNCHANGED <<panelVars, proc, clientVars, ctl, taskVars>>
      /\ UNCHANGED <<tag, info>>
  BY DEF DelUsers, AddUsers, UpdateUser, fieldVars
<1>1. ASSUME \E p \in {"add", "update"} : GoesTo(m, p) \/ Returns(m)
      PROVE  /\ Others(m)
             /\ mon'[m].pc \in {"delete", "add", "update"} =>
                  mon'[m].users \in UserLists
             /\ mon'[m].pc \notin Reloading
  BY <1>0, <1>1, MonitorHas DEF GoesTo, Returns, Reloading
<1>2. CASE DelUsers(m)
  <2>1. GoesTo(m, "add") \/ Returns(m)
    BY <1>0, <1>2, GotoState, DoneState, MonitorHas DEF DelUsers, Pcs
  <2>2. inbounds' \in InboundStates
    BY <1>0, <1>2, MonitorHas DEF DelUsers, InboundStates
  <2> QED
    BY <1>0, <1>1, <1>2, <2>1, <2>2, MonitorHas, StructMonitor
       DEF DelUsers, clientVars, fieldVars
<1>3. CASE AddUsers(m)
  <2>1. GoesTo(m, "update") \/ Returns(m)
    BY <1>0, <1>3, GotoState, DoneState, MonitorHas DEF AddUsers, Pcs
  <2>2. inbounds' \in InboundStates
    BY <1>0, <1>3, MonitorHas, AddedUsers DEF AddUsers, InboundStates
  <2> QED
    BY <1>0, <1>1, <1>3, <2>1, <2>2, MonitorHas, StructMonitor
       DEF AddUsers, clientVars, fieldVars
<1>4. CASE UpdateUser(m)
  <2>1. Returns(m)
    BY <1>0, <1>4, DoneState, MonitorHas DEF UpdateUser
  <2>2. userList' # None /\ userList' \in SUBSET Users
    BY <1>0, <1>4, MonitorHas, ControllerAssumption DEF UpdateUser, Users
  <2>3. limiters' \in LimiterStates
    BY <1>0, <1>4, MonitorHas, AddedUsers DEF UpdateUser, LimiterStates, Limited
  <2> QED
    BY <1>0, <1>1, <1>4, <2>1, <2>2, <2>3, MonitorHas, StructMonitor
       DEF UpdateUser, clientVars
<1> QED
  BY <1>2, <1>3, <1>4

LEMMA StructStep ==
  ASSUME Struct, [Next]_vars
  PROVE  Struct'
<1>1. ASSUME NEW m \in Monitors, MonitorStep(m)
      PROVE  Struct'
  BY <1>1, StructAsk, StructReload, StructDiff, StructPanic
     DEF MonitorStep, Reload, Diff, DelNodePanics, AddNodePanics, WrongType
<1>2. CASE Restart \/ UNCHANGED vars
  <2>1. /\ UNCHANGED <<panelVars, clientVars, ctl, fieldVars, taskVars, mon,
                       inbounds, limiters>>
        /\ proc' \in {"boot", "up", "down", "exited"}
    BY <1>2 DEF Restart, vars, Struct, TypeOK
  <2>2. TypeOK'
    BY <2>1 DEF Struct, TypeOK, panelVars, clientVars, fieldVars, taskVars
  <2>3. Placed' /\ Quiet'
    BY <2>1 DEF Struct, Placed, Quiet, panelVars, clientVars, fieldVars, taskVars
  <2> QED
    BY <2>2, <2>3 DEF Struct
<1> QED
  BY <1>1, <1>2, StructPanel, StructStart, StructClose DEF Next

LEMMA StructInvariance == Spec => []Struct
<1> QED
  BY StructInit, StructStep, PTL DEF Spec

(* Every field, cache, goroutine, inbound and limiter holds a value of its *)
(* kind, for any panel and any number of monitors (node/controller.go and  *)
(* node/task.go).                                                          *)
THEOREM TypeCorrect == Spec => []TypeOK
<1>1. Struct => TypeOK
  BY DEF Struct
<1> QED
  BY <1>1, StructInvariance, PTL


-----------------------------------------------------------------------------
(* The inbound.  When AddUsers fails in Start the inbound stays in the     *)
(* core without a controller, and a later Start adds another one: what     *)
(* follows needs "startusers" \notin Faults.                               *)
CtlMoves ==
  \/ ctl' = ctl
  \/ ctl \in Started /\ ctl' \in Started
  \/ /\ ctl \in {"none", "user", "limiter", "cert", "addnode"}
     /\ ctl' \in {"none", "limiter"}
  \/ ctl = "cert" /\ ctl' = "addnode"
  \/ ctl = "addusers" /\ ctl' = "tasks"
  \/ ctl = "tasks" /\ ctl' = "up"

InboundInv == OwnInbound /\ OneReloads /\ HasLimiter

(* A step that adds and deletes no inbound, and starts or ends no reload.  *)
LEMMA Bystander ==
  ASSUME Struct, InboundInv, Struct', CtlMoves, UNCHANGED <<tag, info>>,
         \A t \in Tags : inbounds'[t].cfg = inbounds[t].cfg,
         listed' => listed,
         listed' \/ ctl' \in {"cert", "addnode"} =>
           \A t \in Tags : Limited(t) => Limited(t)',
         \A m \in Monitors : mon'[m] = mon[m] \/ mon'[m].pc \notin Window
  PROVE  InboundInv'
<1>1. \A t \in Tags : Present(t)' <=> Present(t)
  BY DEF Present
<1>2. OwnInbound'
  BY <1>1
     DEF Struct, Placed, InboundInv, OwnInbound, CtlMoves, Started, Owning
<1>3. OneReloads'
  BY <1>1 DEF InboundInv, OneReloads, CtlMoves, Started, Window
<1>4. HasLimiter'
  <2>1. InboundHasLimiter'
    BY <1>1 DEF InboundInv, HasLimiter, InboundHasLimiter
  <2>2. ctl' \in {"cert", "addnode"} => Limited(tag)'
    <3> SUFFICES ASSUME ctl' \in {"cert", "addnode"}
                 PROVE  Limited(tag)'
      OBVIOUS
    <3>1. ctl \in {"cert", "addnode"}
      BY DEF CtlMoves, Started
    <3> QED
      BY <3>1 DEF InboundInv, HasLimiter, Struct, Placed, Owning
  <2>3. ASSUME NEW m \in Monitors, listed', mon'[m].pc \in {"cert", "addnode"}
        PROVE  Limited(tag)'
    BY <2>3 DEF InboundInv, HasLimiter, Struct, Placed, Window
  <2> QED
    BY <2>1, <2>2, <2>3 DEF HasLimiter
<1> QED
  BY <1>2, <1>3, <1>4 DEF InboundInv

LEMMA InboundPanel ==
  ASSUME Struct, InboundInv, Struct', PanelStep \/ Restart
  PROVE  InboundInv'
<1>1. /\ UNCHANGED <<tag, info, inbounds, limiters, mon, ctl>>
      /\ listed' => listed
  BY DEF PanelStep, Restart, ChangeNode, ChangeUsers, Unlist, fieldVars,
         panelVars, Struct, TypeOK
<1> QED
  BY <1>1, Bystander DEF CtlMoves, Limited

LEMMA InboundPanic ==
  ASSUME Struct, InboundInv, Struct', Panic
  PROVE  InboundInv'
<1>1. /\ ctl' = "none" /\ \A m \in Monitors : mon'[m].pc = "gone"
      /\ \A t \in Tags : ~Present(t)'
  BY DEF Panic, Gone, Present, NoInbound
<1> QED
  BY <1>1
     DEF InboundInv, OwnInbound, OneReloads, HasLimiter, InboundHasLimiter,
         Window

LEMMA InboundStart ==
  ASSUME Struct, InboundInv, Struct', StartStep, "startusers" \notin Faults
  PROVE  InboundInv'
<1>1. ASSUME NEW ok \in BOOLEAN, NEW decoded \in BOOLEAN, StartNode(ok, decoded)
      PROVE  InboundInv'
  <2>1. /\ UNCHANGED <<mon, inbounds, limiters, listed>> /\ ctl = "none" /\ listed
        /\ ctl' \in {"none", "user"}
    BY <1>1 DEF StartNode, StartFails, panelVars
  <2>2. \A m \in Monitors : mon[m].pc = "gone"
    BY <2>1 DEF Struct, TypeOK, Quiet
  <2> QED
    BY <2>1, <2>2
       DEF InboundInv, OwnInbound, OneReloads, HasLimiter, InboundHasLimiter,
           Window, Present, Limited
<1>2. ASSUME NEW ok \in BOOLEAN, StartUsers(ok) \/ StartCert(ok)
      PROVE  InboundInv'
  BY <1>2, Bystander
     DEF StartUsers, StartCert, StartFails, CtlMoves, fieldVars, panelVars,
         Limited
<1>3. CASE StartLimiter
  <2>1. /\ UNCHANGED <<mon, inbounds, listed>> /\ ctl = "limiter"
        /\ ctl' \in {"cert", "addnode"} /\ tag' = info'.tag
        /\ nodeSeen \in NodeCfgs /\ tag' \in Tags /\ userList # None
        /\ tag' = nodeSeen.tag
    BY <1>3 DEF StartLimiter, Struct, TypeOK, Placed, Tags, panelVars
  <2>2. \A m \in Monitors : mon[m].pc = "gone"
    BY <2>1 DEF Struct, Quiet, Starting
  <2>3. Limited(tag)'
    BY <1>3, <2>1 DEF StartLimiter, Limited, Struct, TypeOK
  <2> QED
    BY <2>1, <2>2, <2>3
       DEF InboundInv, OwnInbound, OneReloads, HasLimiter, InboundHasLimiter,
           Window, Present
<1>4. ASSUME NEW ok \in BOOLEAN, StartAddNode(ok)
      PROVE  InboundInv'
  <2>0. /\ UNCHANGED <<mon, limiters, tag, info, listed>> /\ ctl = "addnode"
        /\ tag \in Tags /\ info \in NodeCfgs /\ info # None
    BY <1>4, ControllerAssumption
       DEF StartAddNode, fieldVars, panelVars, Struct, Placed, Owning
  <2>1. \A m \in Monitors : mon[m].pc = "gone"
    BY <2>0 DEF Struct, Quiet, Starting
  <2>2. CASE ok
    <3>1. /\ ctl' = "addusers"
          /\ inbounds' = [inbounds EXCEPT ![tag] = [cfg |-> info, users |-> {}]]
      BY <1>4, <2>2 DEF StartAddNode
    <3>2. /\ inbounds'[tag].cfg = info
          /\ \A t \in Tags \ {tag} : inbounds'[t] = inbounds[t]
      BY <2>0, <3>1 DEF Struct, TypeOK
    <3>3. Limited(tag) /\ tag = info.tag /\ \A t \in Tags : ~Present(t)
      BY <2>0 DEF InboundInv, HasLimiter, OwnInbound
    <3> QED
      BY <2>0, <2>1, <3>1, <3>2, <3>3
         DEF InboundInv, OwnInbound, OneReloads, HasLimiter,
             InboundHasLimiter, Window, Present, Limited
  <2>3. CASE ~ok
    BY <1>4, <2>0, <2>3, Bystander
       DEF StartAddNode, StartFails, CtlMoves, Limited
  <2> QED
    BY <2>2, <2>3
<1>5. ASSUME NEW ok \in BOOLEAN, StartAddUsers(ok)
      PROVE  InboundInv'
  <2>1. /\ ctl = "addusers" /\ ctl' = "tasks" 
        /\ UNCHANGED <<mon, limiters, tag, info, listed>> 
        /\ inbounds' = [inbounds EXCEPT ![tag].users = @ \cup UuidsIn(userList)]
    BY <1>5 DEF StartAddUsers, fieldVars, panelVars
  <2>2. \A t \in Tags : inbounds'[t].cfg = inbounds[t].cfg
    BY <2>1 DEF Struct, TypeOK
  <2> QED
    BY <2>1, <2>2, Bystander DEF CtlMoves, Limited
<1>6. CASE StartTasks
  <2>0. Spawn(mon) /\ mon \in [Monitors -> MonitorState] /\ chan \in Nat
    BY <1>6 DEF StartTasks, Struct, TypeOK
  <2>1. \A n \in Monitors : mon'[n] = mon[n] \/ mon'[n].pc \notin Window
    BY <2>0, SpawnState DEF Window
  <2> QED
    BY <1>6, <2>1, Bystander
       DEF StartTasks, CtlMoves, fieldVars, panelVars, Limited
<1> QED
  BY <1>1, <1>2, <1>3, <1>4, <1>5, <1>6 DEF StartStep

LEMMA InboundClose ==
  ASSUME Struct, InboundInv, Struct', CloseStep
  PROVE  InboundInv'
<1>0. tag \in Tags /\ (ctl \in {"closing", "delnode"} => listed = FALSE)
  BY DEF CloseStep, CloseLimiter, CloseTasks, CloseNode, Struct, Placed,
         Quiet, Owning
<1>1. CASE CloseLimiter
  BY <1>1, Bystander DEF CloseLimiter, CtlMoves, Started, fieldVars, panelVars
<1>2. CASE CloseTasks
  BY <1>2, Bystander
     DEF CloseTasks, CtlMoves, Started, fieldVars, panelVars, Limited
<1>3. CASE CloseNode
  <2>1. /\ UNCHANGED <<mon, limiters, tag, info, listed>> /\ ctl = "delnode"
        /\ ctl' = IF Present(tag) THEN "none" ELSE "up"
        /\ inbounds' = [inbounds EXCEPT ![tag] = NoInbound]
        /\ listed = FALSE
    BY <1>0, <1>3 DEF CloseNode, fieldVars, panelVars
  <2>2. \A t \in Tags : ~Present(t)'
    BY <1>0, <2>1
       DEF Struct, TypeOK, InboundInv, OwnInbound, Present, NoInbound
  <2>3. OneReloads'
    BY <1>0, <2>1, <2>2 DEF InboundInv, OneReloads, Started, Window
  <2> QED
    BY <2>1, <2>2, <2>3
       DEF InboundInv, OwnInbound, HasLimiter, InboundHasLimiter
<1> QED
  BY <1>1, <1>2, <1>3 DEF CloseStep

(* The monitor's steps that neither add nor delete an inbound. *)
Asks(m) ==
  \/ Stop(m) \/ Fetch(m) \/ FetchFails(m) \/ FetchUsers(m)
  \/ FetchUsersFails(m) \/ SameInterval(m) \/ NothingToDo(m) \/ Compare(m)
  \/ NewInterval(m) \/ AddAllUsers(m)
  \/ DelUsers(m) \/ AddUsers(m) \/ UpdateUser(m)

LEMMA AskKeeps ==
  ASSUME Struct, NEW m \in Monitors, Asks(m)
  PROVE  /\ mon[m].pc \notin {"gone"} \cup Window
         /\ \A n \in Monitors : mon'[n] = mon[n] \/ mon'[n].pc \notin Window
         /\ \A n \in Monitors : mon[n].pc \in Window => mon'[n] = mon[n]
         /\ UNCHANGED <<tag, info, listed, ctl>>
         /\ \A t \in Tags : inbounds'[t].cfg = inbounds[t].cfg
         /\ \A t \in Tags : inbounds'[t] = inbounds[t] \/ (t = tag /\ Present(t))
         /\ \A t \in Tags : Limited(t) => Limited(t)'
<1>0. TypeOK
  BY DEF Struct
<1>1. mon[m].pc \notin {"gone"} \cup Window
  BY DEF Asks, Stop, Fetch, FetchFails, FetchUsers, FetchUsersFails,
         SameInterval, NothingToDo, Compare, NewInterval, AddAllUsers,
         DelUsers, AddUsers, UpdateUser, Window
<1>2. /\ \A n \in Monitors : mon'[n] = mon[n] \/ mon'[n].pc \notin Window
      /\ \A n \in Monitors : n = m \/ mon[n].pc = "gone" \/ mon'[n] = mon[n]
  <2>1. CASE Stop(m) \/ Fetch(m) \/ FetchUsers(m) \/ Compare(m) \/ NewInterval(m)
    <3>1. CASE Stop(m) \/ Fetch(m) \/ Compare(m)
      BY <1>0, <3>1, StopState, FetchState, CompareState DEF Others, Window
    <3>2. CASE FetchUsers(m)
      BY <1>0, <3>2, FetchUsersState DEF Others, Window
    <3>3. CASE NewInterval(m)
      BY <1>0, <3>3, IntervalState DEF Window
    <3> QED
      BY <2>1, <3>1, <3>2, <3>3
  <2>2. CASE \/ FetchFails(m) \/ FetchUsersFails(m) \/ SameInterval(m)
             \/ NothingToDo(m) \/ UpdateUser(m)
    BY <1>0, <2>2, DoneState
       DEF FetchFails, FetchUsersFails, SameInterval, NothingToDo, UpdateUser,
           Returns, Others, Window
  <2>3. CASE AddAllUsers(m) \/ DelUsers(m) \/ AddUsers(m)
    <3>1. \/ GoesTo(m, "tasks") \/ GoesTo(m, "add") \/ GoesTo(m, "update") \/ Returns(m)
      BY <1>0, <2>3, GotoState, DoneState
         DEF AddAllUsers, DelUsers, AddUsers, Pcs
    <3> QED
      BY <3>1 DEF GoesTo, Returns, Others, Window
  <2> QED
    BY <2>1, <2>2, <2>3 DEF Asks
<1>3. /\ UNCHANGED <<tag, info, listed, ctl>>
      /\ \A t \in Tags : inbounds'[t].cfg = inbounds[t].cfg
      /\ \A t \in Tags : inbounds'[t] = inbounds[t] \/ (t = tag /\ Present(t))
      /\ \A t \in Tags : Limited(t) => Limited(t)'
  <2>1. CASE UNCHANGED <<tag, info, listed, ctl, inbounds, limiters>>
    BY <2>1 DEF Limited
  <2>2. CASE AddAllUsers(m) \/ DelUsers(m) \/ AddUsers(m)
    <3>1. /\ UNCHANGED <<tag, info, listed, ctl, limiters>>
          /\ \/ UNCHANGED inbounds
             \/ /\ Present(tag)
                /\ \E us : inbounds' = [inbounds EXCEPT ![tag].users = us]
      BY <2>2 DEF AddAllUsers, DelUsers, AddUsers, panelVars, fieldVars
    <3>2. \A us : [inbounds EXCEPT ![tag].users = us]
                    = [inbounds EXCEPT ![tag] = [@ EXCEPT !.users = us]]
      OBVIOUS
    <3> QED
      BY <3>1 DEF Limited, Struct, TypeOK
  <2>3. CASE UpdateUser(m)
    <3>1. mon[m].users \in UserLists /\ mon[m].pc = "update" /\ tag \in Tags
      BY <2>3 DEF UpdateUser, Struct, Placed
    <3>2. Added(m) \in SUBSET Users
      BY <1>0, <3>1, AddedUsers
    <3>3. PICK ls : /\ limiters' = [limiters EXCEPT ![tag] = ls]
                    /\ Limited(tag) => ls # None
      <4> DEFINE gone == UuidsIn(Deleted(m)) \cup UuidsIn(Added(m))
                 l2 == {u \in limiters[tag] : u.uuid \notin gone} \cup Added(m)
      <4>1. limiters' = [limiters EXCEPT ![tag] = IF Limited(tag) THEN l2 ELSE @]
        BY <2>3 DEF UpdateUser
      <4>2. Limited(tag) => l2 \in SUBSET Users
        BY <1>0, <3>1, <3>2 DEF TypeOK, Limited
      <4> HIDE DEF l2
      <4> QED
        BY <4>1, <4>2, ControllerAssumption DEF Users
    <3> QED
      BY <2>3, <3>1, <3>3 DEF UpdateUser, Limited, TypeOK, Struct, panelVars
  <2> QED
    BY <2>1, <2>2, <2>3
       DEF Asks, Stop, Fetch, FetchFails, FetchUsers, FetchUsersFails,
           SameInterval, NothingToDo, Compare, NewInterval, panelVars, fieldVars
<1>4. ASSUME NEW n \in Monitors, mon[n].pc \in Window
      PROVE  mon'[n] = mon[n]
  BY <1>1, <1>2, <1>4 DEF Window
<1> QED
  BY <1>1, <1>2, <1>3, <1>4

LEMMA InboundAsk ==
  ASSUME Struct, InboundInv, Struct', NEW m \in Monitors, Asks(m)
  PROVE  InboundInv'
BY AskKeeps, Bystander DEF CtlMoves

LEMMA InboundReload ==
  ASSUME Struct, InboundInv, Struct', NEW m \in Monitors,
         \/ DelNode(m) \/ NewLimiter(m) \/ (\E ok \in BOOLEAN : Cert(m, ok))
         \/ AddNode(m)
  PROVE  InboundInv'
<1>0. /\ TypeOK /\ tag \in Tags
      /\ mon[m].pc \in Reloading /\ mon[m].node \in NodeCfgs
      /\ mon[m].node # None
  BY ControllerAssumption
     DEF Struct, Placed, Reloading, DelNode, NewLimiter, Cert, AddNode
<1>1. CASE DelNode(m)
  <2>1. GoesTo(m, "limiter")
    BY <1>0, <1>1, GotoState DEF DelNode, Pcs
  <2>2. /\ Present(tag) /\ info' = mon[m].node /\ mon[m].pc = "reload"
        /\ UNCHANGED <<listed, ctl, tag, limiters>>
        /\ inbounds' = [inbounds EXCEPT ![tag] = NoInbound]
    BY <1>1 DEF DelNode, panelVars
  <2>3. \A n \in Monitors : mon[n].pc \notin Window
    BY <1>0, <2>2 DEF InboundInv, OneReloads
  <2>4. \A t \in Tags : ~Present(t)'
    BY <1>0, <2>2 DEF InboundInv, OwnInbound, TypeOK, Present, NoInbound
  <2>5. ctl \in Started
    BY <1>0, <2>2
       DEF Struct, TypeOK, Quiet, Starting, Started, InboundInv, OwnInbound,
           Reloading
  <2> QED
    BY <2>1, <2>2, <2>3, <2>4, <2>5
       DEF GoesTo, Others, InboundInv, OwnInbound, OneReloads, HasLimiter,
           InboundHasLimiter, Window, Started
<1>2. CASE NewLimiter(m)
  <2>1. (GoesTo(m, "cert") /\ mon[m].node.tls) \/ GoesTo(m, "addnode")
    BY <1>0, <1>2, GotoState DEF NewLimiter, Pcs
  <2>2. /\ mon[m].pc = "limiter" /\ tag' = mon[m].node.tag 
        /\ UNCHANGED <<listed, ctl, info, inbounds>>
        /\ limiters' = [[limiters EXCEPT ![tag] = None]
                          EXCEPT ![mon[m].node.tag] = userList]
    BY <1>2 DEF NewLimiter, panelVars
  <2>3. /\ \A n \in Monitors \ {m} : mon[n].pc \notin Window
        /\ \A t \in Tags : ~Present(t)
        /\ info = mon[m].node /\ ctl \in Started
    BY <2>2 DEF InboundInv, OneReloads, Window
  <2>4. Limited(tag)'
    BY <1>0, <2>2 DEF Limited, TypeOK, Tags
  <2>5. /\ mon'[m].pc \in {"cert", "addnode"} /\ mon'[m].node = mon[m].node
        /\ mon'[m].pc = "cert" => mon[m].node.tls
        /\ \A n \in Monitors \ {m} : mon'[n] = mon[n]
    BY <2>1 DEF GoesTo, Others
  <2> QED
    BY <2>2, <2>3, <2>4, <2>5
       DEF InboundInv, OwnInbound, OneReloads, HasLimiter, InboundHasLimiter,
           Window, Started, Present
<1>3. ASSUME NEW ok \in BOOLEAN, Cert(m, ok)
      PROVE  InboundInv'
  <2>1. /\ mon[m].pc = "cert" 
        /\ UNCHANGED <<listed, ctl, tag, info, inbounds, limiters>>
    BY <1>3 DEF Cert, panelVars, fieldVars
  <2>2. CASE Done(m)
    BY <1>0, <2>1, <2>2, DoneState, Bystander
       DEF Returns, Others, CtlMoves, Limited, Window
  <2>3. CASE mon' = Goto(m, "addnode")
    <3>1. GoesTo(m, "addnode")
      BY <1>0, <2>3, GotoState DEF Pcs
    <3>2. \A n \in Monitors \ {m} : mon[n].pc \notin Window
      BY <2>1 DEF InboundInv, OneReloads, Window
    <3> QED
      BY <2>1, <3>1, <3>2
         DEF GoesTo, Others, InboundInv, OwnInbound, OneReloads, HasLimiter,
             InboundHasLimiter, Window, Present, Limited
  <2> QED
    BY <1>3, <2>2, <2>3 DEF Cert
<1>4. CASE AddNode(m)
  <2>1. GoesTo(m, "addusers")
    BY <1>0, <1>4, GotoState DEF AddNode, Pcs
  <2>2. /\ mon[m].pc = "addnode" /\ UNCHANGED <<listed, ctl, tag, info, limiters>>
        /\ inbounds' = [inbounds EXCEPT ![tag] = [cfg |-> mon[m].node, users |-> {}]]
    BY <1>4 DEF AddNode, panelVars, fieldVars
  <2>3. /\ inbounds'[tag].cfg = mon[m].node
        /\ \A t \in Tags \ {tag} : inbounds'[t] = inbounds[t]
    BY <1>0, <2>2 DEF TypeOK
  <2>4. /\ \A n \in Monitors \ {m} : mon[n].pc \notin Window
        /\ \A t \in Tags : ~Present(t)
        /\ info = mon[m].node /\ tag = info.tag /\ ctl \in Started
        /\ listed => Limited(tag)
    BY <2>2 DEF InboundInv, OneReloads, HasLimiter, Window
  <2>5. \A t \in Tags : Present(t)' <=> t = tag
    BY <1>0, <2>3, <2>4 DEF Present
  <2>6. \A n \in Monitors : mon'[n].pc \notin Window
    BY <2>1, <2>4 DEF GoesTo, Others, Window
  <2> QED
    BY <2>2, <2>3, <2>4, <2>5, <2>6
       DEF InboundInv, OwnInbound, OneReloads, HasLimiter, InboundHasLimiter,
           Window, Started, Limited
<1> QED
  BY <1>1, <1>2, <1>3, <1>4

IInv == Struct /\ InboundInv

LEMMA InboundStep ==
  ASSUME IInv, [Next]_vars, "startusers" \notin Faults
  PROVE  IInv'
<1>0. Struct /\ InboundInv /\ Struct'
  BY StructStep DEF IInv
<1>1. ASSUME NEW m \in Monitors, MonitorStep(m)
      PROVE  InboundInv'
  BY <1>0, <1>1, InboundAsk, InboundReload, InboundPanic
     DEF MonitorStep, Reload, Diff, Asks, DelNodePanics, AddNodePanics, WrongType
<1>2. ASSUME UNCHANGED vars
      PROVE  InboundInv'
  BY <1>0, <1>2, Bystander DEF vars, fieldVars, panelVars, CtlMoves, Limited
<1>3. InboundInv'
  BY <1>0, <1>1, <1>2, InboundPanel, InboundStart, InboundClose DEF Next
<1> QED
  BY <1>0, <1>3 DEF IInv

LEMMA InboundInit ==
  ASSUME Init
  PROVE  IInv
<1>1. /\ ctl = "none" /\ \A m \in Monitors : mon[m].pc = "gone"
      /\ \A t \in Tags : ~Present(t)
  BY DEF Init, FreshProcess, Gone, Present, NoInbound
<1> QED
  BY <1>1, StructInit
     DEF IInv, InboundInv, OwnInbound, OneReloads, HasLimiter,
         InboundHasLimiter, Window

LEMMA InboundInvariance ==
  ASSUME "startusers" \notin Faults
  PROVE  Spec => []IInv
<1>1. IInv /\ [Next]_vars => IInv'
  BY InboundStep
<1> QED
  BY <1>1, InboundInit, PTL DEF Spec

(* The node has at most one inbound, under one tag, whatever fails and     *)
(* however monitors and Close interleave (reload's DelNode and AddNode in  *)
(* node/task.go), when AddUsers in Start does not fail.                    *)
THEOREM OneInbound ==
  ASSUME "startusers" \notin Faults
  PROVE  Spec => []SingleInbound
<1>1. IInv => SingleInbound
  BY DEF IInv, InboundInv, OwnInbound, SingleInbound
<1> QED
  BY <1>1, InboundInvariance, PTL

(* Every inbound of a listed node has a limiter (Start and the reload add  *)
(* the limiter before the inbound), under the same hypothesis.             *)
THEOREM AlwaysLimited ==
  ASSUME "startusers" \notin Faults
  PROVE  Spec => []InboundHasLimiter
<1>1. IInv => InboundHasLimiter
  BY DEF IInv, InboundInv, HasLimiter
<1> QED
  BY <1>1, InboundInvariance, PTL

(* Close leaves no inbound behind, whatever reload was under way, under    *)
(* the same hypothesis.                                                    *)
THEOREM ClosedIsGone ==
  ASSUME "startusers" \notin Faults
  PROVE  Spec => []RemovedIsGone
<1>1. IInv => RemovedIsGone
  BY DEF IInv, InboundInv, OwnInbound, RemovedIsGone
<1> QED
  BY <1>1, InboundInvariance, PTL

-----------------------------------------------------------------------------
(* The task.  Whoever waits on an older channel stops at the next select;  *)
(* whoever restarts the task waits on the new channel, and so does the     *)
(* goroutine Start makes.                                                  *)
LEMMA MonitorMoves ==
  ASSUME TypeOK, NEW m \in Monitors, MonitorStep(m)
  PROVE  \/ Panic \/ NewInterval(m)
         \/ /\ Others(m) /\ UNCHANGED <<taskVars, ctl>> /\ mon[m].pc # "gone"
            /\ \/ Stop(m)
               \/ /\ mon'[m].pc # "gone"
                  /\ mon'[m].pc = "wait" => mon'[m].ch = chan
<1>1. CASE Stop(m)
  BY <1>1, StopState DEF Stop
<1>2. CASE Fetch(m) \/ FetchUsers(m) \/ Compare(m)
  <2>1. Others(m) /\ mon'[m].pc \in {"user", "reload", "diff", "delete"}
    BY <1>2, FetchState, FetchUsersState, CompareState
  <2> QED
    BY <1>2, <2>1 DEF Fetch, FetchUsers, Compare
<1>3. CASE \/ FetchFails(m) \/ FetchUsersFails(m) \/ SameInterval(m)
           \/ NothingToDo(m) \/ UpdateUser(m)
  <2>1. Returns(m)
    BY <1>3, DoneState
       DEF FetchFails, FetchUsersFails, SameInterval, NothingToDo, UpdateUser
  <2> QED
    BY <1>3, <2>1
       DEF Returns, FetchFails, FetchUsersFails, SameInterval, NothingToDo,
           UpdateUser
<1>4. CASE \/ DelNode(m) \/ NewLimiter(m) \/ (\E ok \in BOOLEAN : Cert(m, ok))
           \/ AddNode(m) \/ AddAllUsers(m) \/ DelUsers(m) \/ AddUsers(m)
  <2>1. /\ Done(m) \/ (\E p \in Pcs \ {"wait"} : mon' = Goto(m, p))
        /\ UNCHANGED <<taskVars, ctl>> /\ mon[m].pc # "gone"
    BY <1>4
       DEF DelNode, NewLimiter, Cert, AddNode, AddAllUsers, DelUsers,
           AddUsers, Pcs
  <2>2. Returns(m) \/ (\E p \in Pcs \ {"wait"} : GoesTo(m, p))
    BY <2>1, DoneState, GotoState
  <2> QED
    BY <2>1, <2>2 DEF Returns, GoesTo, Pcs
<1> QED
  BY <1>1, <1>2, <1>3, <1>4
     DEF MonitorStep, Reload, Diff, DelNodePanics, AddNodePanics, WrongType

(* Whatever else the goroutines do leaves the task as it is.               *)
LEMMA TaskMoves ==
  ASSUME Struct, [Next]_vars
  PROVE  \/ Panic \/ CloseTasks \/ StartTasks
         \/ UNCHANGED <<taskVars, mon>>
         \/ \E m \in Monitors : MonitorStep(m)
BY DEF Next, PanelStep, Restart, ChangeNode, ChangeUsers, Unlist, StartStep,
       StartNode, StartUsers, StartCert, StartAddNode, StartAddUsers,
       StartLimiter, CloseStep, CloseLimiter, CloseNode, taskVars, vars

LEMMA ReachableStep ==
  ASSUME Struct, MonitorReachable, [Next]_vars
  PROVE  MonitorReachable'
<1>0. TypeOK
  BY DEF Struct
<1>1. CASE Panic \/ CloseTasks \/ UNCHANGED <<taskVars, mon>>
  BY <1>1 DEF Panic, CloseTasks, MonitorReachable, taskVars
<1>2. CASE StartTasks
  <2>1. Spawn(mon) /\ mon \in [Monitors -> MonitorState] /\ chan \in Nat
    BY <1>0, <1>2 DEF StartTasks, TypeOK
  <2>2. \E s \in Monitors : mon'[s].pc = "wait" /\ mon'[s].ch = chan'
    BY <2>1, SpawnState
  <2> QED
    BY <2>2 DEF MonitorReachable
<1>3. ASSUME NEW m \in Monitors, MonitorStep(m)
      PROVE  MonitorReachable'
  <2>1. CASE NewInterval(m)
    BY <1>0, <2>1, IntervalState DEF MonitorReachable
  <2>2. ASSUME Others(m), UNCHANGED <<taskVars, ctl>>,
               \/ Stop(m)
               \/ mon'[m].pc # "gone" /\ (mon'[m].pc = "wait" => mon'[m].ch = chan)
        PROVE  MonitorReachable'
    BY <2>2 DEF Others, Stop, MonitorReachable, taskVars
  <2> QED
    BY <1>0, <1>1, <1>3, <2>1, <2>2, MonitorMoves
<1> QED
  BY <1>1, <1>2, <1>3, TaskMoves

(* A running task has a goroutine that the next Close reaches, whichever   *)
(* restarts from within and Closes came before (task.Close and task.Start, *)
(* called by nodeInfoMonitor on the task that runs it).                    *)
THEOREM CloseReaches == Spec => []MonitorReachable
<1>1. Init => MonitorReachable
  BY DEF Init, FreshProcess, MonitorReachable
<1>2. Struct /\ MonitorReachable /\ [Next]_vars => MonitorReachable'
  BY ReachableStep
<1> QED
  BY <1>1, <1>2, StructInvariance, PTL DEF Spec

-----------------------------------------------------------------------------
(* As long as the task was not restarted there is one monitor at most.     *)
Alone ==
  /\ chan = 0 => \A m \in Monitors : mon[m].pc = "gone"
  /\ chan <= 1 => \A m, n \in Monitors :
                    mon[m].pc # "gone" /\ mon[n].pc # "gone" => m = n

LEMMA AloneStep ==
  ASSUME Struct, Alone, [Next]_vars
  PROVE  Alone'
<1>0. TypeOK
  BY DEF Struct
<1>1. CASE Panic
  BY <1>1 DEF Panic, Gone, Alone
<1>2. CASE CloseTasks \/ UNCHANGED <<taskVars, mon>>
  BY <1>2 DEF CloseTasks, Alone, taskVars
<1>3. CASE StartTasks
  <2>1. /\ Spawn(mon) /\ mon \in [Monitors -> MonitorState]
        /\ chan \in Nat /\ chan = 0
        /\ \A m \in Monitors : mon[m].pc = "gone"
    BY <1>0, <1>3 DEF StartTasks, TypeOK, Struct, Quiet, Starting
  <2>2. PICK s \in Monitors : \A n \in Monitors \ {s} : mon'[n] = mon[n]
    BY <2>1, SpawnState
  <2>3. chan' = 1
    BY <2>1 DEF Spawn
  <2> QED
    BY <2>1, <2>2, <2>3 DEF Alone
<1>4. ASSUME NEW m \in Monitors, MonitorStep(m)
      PROVE  Alone'
  <2>1. CASE NewInterval(m)
    <3>1. chan' = chan + 1 /\ chan \in Nat /\ mon[m].pc # "gone"
      BY <1>0, <2>1, IntervalState DEF NewInterval, TypeOK
    <3> QED
      BY <3>1 DEF Alone
  <2>2. ASSUME Others(m), UNCHANGED <<taskVars, ctl>>, mon[m].pc # "gone"
        PROVE  Alone'
    BY <2>2 DEF Others, Alone, taskVars
  <2> QED
    BY <1>0, <1>1, <1>4, <2>1, <2>2, MonitorMoves
<1> QED
  BY <1>1, <1>2, <1>3, <1>4, TaskMoves

-----------------------------------------------------------------------------
(* The inbounds as long as one monitor runs at most, whatever fails.  The  *)
(* inbound of a Start whose AddUsers failed stays in the core and has no   *)
(* users; nor has any other while nothing of Start is done.                *)
Unserved ==
  \/ ctl \in Starting \ {"tasks"}
  \/ ctl = "none" /\ listed = TRUE

MonitorHolds(m) ==
  /\ mon[m].pc = "limiter" => ~Present(tag) /\ inbounds[tag].users = {}
  /\ mon[m].pc \in Window => info = mon[m].node
  /\ mon[m].pc = "cert" => mon[m].node.tls
  /\ listed /\ mon[m].pc \in {"cert", "addnode"} => Limited(tag)

Sole ==
  /\ \A t \in Tags : Present(t) => inbounds[t].cfg.tag = t
  /\ \A t \in Tags : inbounds[t].users # {} => t = tag /\ ~Unserved
  /\ InboundHasLimiter
  /\ ctl \in {"cert", "addnode"} => Limited(tag)
  /\ ctl \in {"addusers", "tasks"} => Present(tag)
  /\ tag \in Tags /\ (\A m \in Monitors : mon[m].pc # "limiter") =>
       info.tag = tag
  /\ \A m \in Monitors : MonitorHolds(m)

SoleInv == chan <= 1 => Sole

(* A step that adds and deletes no inbound, and starts or ends no reload.  *)
LEMMA SoleBystander ==
  ASSUME Struct, Sole, Struct', UNCHANGED <<tag, info>>, listed' => listed,
         \A t \in Tags : inbounds'[t].cfg = inbounds[t].cfg,
         \A t \in Tags : inbounds'[t].users # {} =>
           /\ inbounds[t].users # {} \/ (t = tag /\ Present(t) /\ ~Unserved')
           /\ Unserved' => Unserved,
         listed' \/ ctl' \in {"cert", "addnode"} =>
           \A t \in Tags : Limited(t) => Limited(t)',
         ctl' \in {"cert", "addnode"} => ctl \in {"cert", "addnode"},
         ctl' \in {"addusers", "tasks"} => ctl \in {"addusers", "tasks"},
         \A m \in Monitors : mon'[m] = mon[m] \/ mon'[m].pc \notin Window,
         \A m \in Monitors : mon[m].pc = "limiter" => mon'[m] = mon[m]
  PROVE  Sole'
<1>1. \A t \in Tags : Present(t)' <=> Present(t)
  BY DEF Present
<1>2. (ctl' \in {"cert", "addnode"} => Limited(tag)')
  BY DEF Sole, Struct, Placed, Owning
<1>3. InboundHasLimiter'
  BY <1>1 DEF Sole, InboundHasLimiter
<1>4. ASSUME NEW m \in Monitors
      PROVE  MonitorHolds(m)'
  <2>1. CASE mon'[m].pc \notin Window
    BY <2>1 DEF MonitorHolds, Window
  <2>2. CASE mon'[m] = mon[m] /\ mon[m].pc \in Window
    <3>1. tag \in Tags /\ MonitorHolds(m)
      BY <2>2 DEF Struct, Placed, Window, Sole
    <3> QED
      BY <1>1, <2>2, <3>1 DEF MonitorHolds
  <2> QED
    BY <2>1, <2>2
<1>5. tag' \in Tags /\ (\A m \in Monitors : mon'[m].pc # "limiter") =>
        info'.tag = tag'
  BY DEF Sole
<1>6. ctl' \in {"addusers", "tasks"} => Present(tag)'
  BY <1>1 DEF Sole, Struct, Placed, Owning
<1>7. \A t \in Tags : Present(t)' => inbounds'[t].cfg.tag = t
  BY <1>1 DEF Sole
<1>8. \A t \in Tags : inbounds'[t].users # {} => t = tag' /\ ~Unserved'
  BY DEF Sole
<1> QED
  BY <1>2, <1>3, <1>4, <1>5, <1>6, <1>7, <1>8 DEF Sole

LEMMA SolePanel ==
  ASSUME Struct, Sole, Struct', PanelStep \/ Restart \/ UNCHANGED vars
  PROVE  Sole'
<1>1. /\ UNCHANGED <<tag, info, inbounds, limiters, mon, ctl>>
      /\ listed' => listed
      /\ listed' = TRUE => listed = TRUE
  BY DEF PanelStep, Restart, ChangeNode, ChangeUsers, Unlist, fieldVars,
         panelVars, Struct, TypeOK, vars
<1>2. Unserved' => Unserved
  BY <1>1 DEF Unserved
<1> QED
  BY <1>1, <1>2, SoleBystander DEF Limited

LEMMA SolePanic ==
  ASSUME Panic
  PROVE  Sole'
<1>1. /\ ctl' = "none" /\ tag' = None /\ \A m \in Monitors : mon'[m].pc = "gone"
      /\ \A t \in Tags : ~Present(t)' /\ inbounds'[t].users = {}
  BY DEF Panic, Gone, Present, NoInbound
<1> QED
  BY <1>1, ControllerAssumption
     DEF Sole, InboundHasLimiter, MonitorHolds, Window

LEMMA SoleStart ==
  ASSUME Struct, Sole, Struct', StartStep
  PROVE  Sole'
<1>0. /\ \A m \in Monitors : mon[m].pc = "gone"
      /\ UNCHANGED listed
  <2>1. ctl \in Starting \/ (ctl = "none" /\ listed = TRUE)
    BY DEF StartStep, StartNode, StartUsers, StartCert, StartAddNode,
           StartAddUsers, StartLimiter, StartTasks, Starting, Struct, TypeOK
  <2>2. UNCHANGED listed
    BY DEF StartStep, StartNode, StartUsers, StartCert, StartAddNode,
           StartAddUsers, StartLimiter, StartTasks, panelVars
  <2> QED
    BY <2>1, <2>2 DEF Struct, Quiet
<1>1. ASSUME UNCHANGED mon
      PROVE  \A m \in Monitors : MonitorHolds(m)'
  BY <1>0, <1>1 DEF MonitorHolds, Window
<1>2. ASSUME NEW ok \in BOOLEAN, NEW decoded \in BOOLEAN, StartNode(ok, decoded)
      PROVE  Sole'
  <2>1. /\ UNCHANGED <<mon, inbounds, limiters>> /\ ctl = "none" /\ listed = TRUE
        /\ ctl' \in {"none", "user"} /\ tag' = None
    BY <1>2 DEF StartNode, StartFails, Struct, TypeOK
  <2>2. \A t \in Tags : inbounds'[t].users = {}
    BY <2>1 DEF Sole, Unserved
  <2> QED
    BY <1>0, <1>1, <2>1, <2>2, ControllerAssumption
       DEF Sole, InboundHasLimiter, Present, Limited
<1>3. ASSUME NEW ok \in BOOLEAN,
             StartUsers(ok) \/ StartCert(ok) \/ StartAddUsers(ok)
      PROVE  Sole'
  <2>1. /\ UNCHANGED <<tag, info, limiters, mon>>
        /\ \/ ctl \in Starting \ {"tasks"} /\ UNCHANGED inbounds
           \/ /\ ctl' = "tasks" /\ ctl = "addusers"
              /\ inbounds' = [inbounds EXCEPT ![tag].users = @ \cup UuidsIn(userList)]
        /\ ctl' \in {"cert", "addnode"} => ctl \in {"cert", "addnode"}
        /\ ctl' \in {"addusers", "tasks"} => ctl \in {"addusers", "tasks"}
    BY <1>3
       DEF StartUsers, StartCert, StartAddUsers, StartFails, fieldVars, Starting
  <2>2. /\ \A t \in Tags : inbounds'[t].cfg = inbounds[t].cfg
        /\ ctl' # "tasks" => inbounds' = inbounds
        /\ \A t \in Tags \ {tag} : inbounds'[t] = inbounds[t]
    BY <2>1 DEF Struct, TypeOK
  <2>3. Unserved /\ (ctl' = "tasks" => ~Unserved' /\ Present(tag))
    BY <2>1 DEF Unserved, Starting, Sole
  <2> QED
    BY <1>0, <2>1, <2>2, <2>3, SoleBystander DEF Limited
<1>4. CASE StartLimiter
  <2>1. /\ UNCHANGED <<mon, inbounds>> /\ ctl = "limiter"
        /\ ctl' \in {"cert", "addnode"} /\ tag' = info'.tag
        /\ tag' \in Tags /\ userList # None
        /\ limiters' = [limiters EXCEPT ![tag'] = userList]
    BY <1>4 DEF StartLimiter, Struct, TypeOK, Placed, Tags
  <2>2. \A t \in Tags : inbounds'[t].users = {}
    BY <2>1 DEF Sole, Unserved, Starting
  <2>3. Limited(tag)' /\ \A t \in Tags : Limited(t) => Limited(t)'
    BY <2>1 DEF Limited, Struct, TypeOK
  <2> QED
    BY <1>0, <1>1, <2>1, <2>2, <2>3 DEF Sole, InboundHasLimiter, Present
<1>5. ASSUME NEW ok \in BOOLEAN, StartAddNode(ok)
      PROVE  Sole'
  <2>0. /\ UNCHANGED <<mon, limiters, tag, info>> /\ ctl = "addnode"
        /\ tag \in Tags /\ info \in NodeCfgs /\ info # None
    BY <1>5, ControllerAssumption
       DEF StartAddNode, fieldVars, Struct, Placed, Owning
  <2>1. /\ \A t \in Tags : inbounds[t].users = {}
        /\ Limited(tag) /\ info.tag = tag
    BY <1>0, <2>0 DEF Sole, Unserved, Starting
  <2>2. CASE ok
    <3>1. /\ ctl' = "addusers"
          /\ inbounds' = [inbounds EXCEPT ![tag] = [cfg |-> info, users |-> {}]]
      BY <1>5, <2>2 DEF StartAddNode
    <3>2. /\ inbounds'[tag].cfg = info /\ inbounds'[tag].users = {}
          /\ \A t \in Tags \ {tag} : inbounds'[t] = inbounds[t]
      BY <2>0, <3>1 DEF Struct, TypeOK
    <3>3. \A t \in Tags : inbounds'[t].users = {}
      BY <2>1, <3>2
    <3> QED
      BY <1>0, <1>1, <2>0, <2>1, <3>1, <3>2, <3>3
         DEF Sole, InboundHasLimiter, Present, Limited
  <2>3. CASE ~ok
    <3>1. ctl' = "none" /\ UNCHANGED inbounds
      BY <1>5, <2>3 DEF StartAddNode, StartFails
    <3> QED
      BY <1>0, <2>0, <2>1, <3>1, SoleBystander DEF Limited
  <2> QED
    BY <2>2, <2>3
<1>6. CASE StartTasks
  <2>0. Spawn(mon) /\ mon \in [Monitors -> MonitorState] /\ chan \in Nat
    BY <1>6 DEF StartTasks, Struct, TypeOK
  <2>1. \A n \in Monitors : mon'[n] = mon[n] \/ mon'[n].pc \notin Window
    BY <2>0, SpawnState DEF Window
  <2>2. /\ UNCHANGED <<tag, info, inbounds, limiters>> /\ ctl' = "up"
        /\ ~Unserved'
    BY <1>6 DEF StartTasks, fieldVars, Unserved, Starting
  <2> QED
    BY <1>0, <2>1, <2>2, SoleBystander DEF Limited
<1> QED
  BY <1>2, <1>3, <1>4, <1>5, <1>6 DEF StartStep

LEMMA SoleClose ==
  ASSUME Struct, Sole, Struct', CloseStep
  PROVE  Sole'
<1>0. /\ tag \in Tags /\ UNCHANGED <<mon, tag, info, listed>>
      /\ ctl' \in {"none", "up", "closing", "delnode"}
  BY DEF CloseStep, CloseLimiter, CloseTasks, CloseNode, Struct, Placed,
         Owning, fieldVars, panelVars
<1>1. listed' = FALSE /\ ~Unserved'
  BY <1>0
     DEF CloseStep, CloseLimiter, CloseTasks, CloseNode, Struct, Quiet, TypeOK,
         Unserved, Starting
<1>2. CASE CloseLimiter \/ CloseTasks
  <2>1. inbounds' = inbounds
    BY <1>2 DEF CloseLimiter, CloseTasks
  <2> QED
    BY <1>0, <1>1, <2>1, SoleBystander
<1>3. CASE CloseNode
  <2>1. inbounds' = [inbounds EXCEPT ![tag] = NoInbound]
    BY <1>3 DEF CloseNode
  <2>2. /\ ~Present(tag)' /\ inbounds'[tag].users = {}
        /\ \A t \in Tags \ {tag} : inbounds'[t] = inbounds[t]
    BY <1>0, <2>1 DEF Struct, TypeOK, Present, NoInbound
  <2>3. \A m \in Monitors : MonitorHolds(m)'
    BY <1>0, <1>1, <2>2 DEF Sole, MonitorHolds
  <2> QED
    BY <1>0, <1>1, <2>2, <2>3 DEF Sole, InboundHasLimiter, Present
<1> QED
  BY <1>2, <1>3 DEF CloseStep

LEMMA SoleAsk ==
  ASSUME Struct, Sole, Struct', NEW m \in Monitors, Asks(m)
  PROVE  Sole'
<1>1. mon[m].pc # "gone"
  BY AskKeeps
<1>2. /\ UNCHANGED <<tag, info, listed, ctl>>
      /\ \A t \in Tags : inbounds'[t].cfg = inbounds[t].cfg
      /\ \A t \in Tags : inbounds'[t] = inbounds[t] \/ (t = tag /\ Present(t))
  BY AskKeeps
<1>3. ~Unserved /\ ~Unserved'
  BY <1>1, <1>2 DEF Unserved, Struct, Quiet
<1>4. \A t \in Tags : inbounds'[t].users # {} =>
        inbounds[t].users # {} \/ (t = tag /\ Present(t) /\ ~Unserved')
  BY <1>2, <1>3
<1>5. \A n \in Monitors : mon[n].pc = "limiter" => mon'[n] = mon[n]
  BY AskKeeps DEF Window
<1> QED
  BY <1>2, <1>3, <1>4, <1>5, AskKeeps, SoleBystander

(* The monitor that reloads is the only one.                               *)
LEMMA SoleReload ==
  ASSUME Struct, Sole, Struct', NEW m \in Monitors,
         \A n \in Monitors \ {m} : mon[n].pc = "gone",
         \/ DelNode(m) \/ NewLimiter(m) \/ (\E ok \in BOOLEAN : Cert(m, ok))
         \/ AddNode(m)
  PROVE  Sole'
<1>0. /\ TypeOK /\ tag \in Tags
      /\ mon[m].pc \in Reloading /\ mon[m].node \in NodeCfgs
      /\ mon[m].node # None
      /\ UNCHANGED <<listed, ctl>>
  BY ControllerAssumption
     DEF Struct, Placed, Reloading, DelNode, NewLimiter, Cert, AddNode, panelVars
<1>1. ctl \notin Starting /\ ~Unserved /\ ~Unserved'
  BY <1>0 DEF Unserved, Struct, Quiet, Reloading
<1>2. ASSUME Others(m)
      PROVE  /\ MonitorHolds(m)' => \A n \in Monitors : MonitorHolds(n)'
             /\ \A n \in Monitors : mon'[n].pc = "limiter" => n = m
  BY <1>2 DEF Others, MonitorHolds, Window
<1>3. CASE DelNode(m)
  <2>1. GoesTo(m, "limiter")
    BY <1>0, <1>3, GotoState DEF DelNode, Pcs
  <2>2. /\ info' = mon[m].node /\ UNCHANGED <<tag, limiters>>
        /\ inbounds' = [inbounds EXCEPT ![tag] = NoInbound]
    BY <1>3 DEF DelNode
  <2>3. /\ ~Present(tag)' /\ inbounds'[tag].users = {}
        /\ \A t \in Tags \ {tag} : inbounds'[t] = inbounds[t]
    BY <1>0, <2>2 DEF TypeOK, Present, NoInbound
  <2>4. \A n \in Monitors : MonitorHolds(n)'
    BY <1>0, <1>2, <2>1, <2>2, <2>3 DEF GoesTo, MonitorHolds
  <2> QED
    BY <1>0, <1>1, <2>1, <2>2, <2>3, <2>4
       DEF GoesTo, Sole, InboundHasLimiter, Present, Limited, Starting
<1>4. CASE NewLimiter(m)
  <2>1. (GoesTo(m, "cert") /\ mon[m].node.tls) \/ GoesTo(m, "addnode")
    BY <1>0, <1>4, GotoState DEF NewLimiter, Pcs
  <2>2. /\ mon[m].pc = "limiter" /\ tag' = mon[m].node.tag
        /\ UNCHANGED <<info, inbounds>>
        /\ limiters' = [[limiters EXCEPT ![tag] = None]
                          EXCEPT ![mon[m].node.tag] = userList]
    BY <1>4 DEF NewLimiter
  <2>3. ~Present(tag) /\ inbounds[tag].users = {} /\ info = mon[m].node
    BY <2>2 DEF Sole, MonitorHolds, Window
  <2>4. /\ tag' \in Tags /\ Limited(tag)'
        /\ \A t \in Tags \ {tag} : Limited(t) => Limited(t)'
    BY <1>0, <2>2 DEF Limited, TypeOK, Tags
  <2>5. /\ mon'[m].pc \in {"cert", "addnode"} /\ mon'[m].node = mon[m].node
        /\ mon'[m].pc = "cert" => mon[m].node.tls
        /\ Others(m)
    BY <2>1 DEF GoesTo
  <2>6. \A n \in Monitors : MonitorHolds(n)'
    BY <1>2, <2>2, <2>3, <2>4, <2>5 DEF MonitorHolds
  <2>7. \A t \in Tags : inbounds[t].users = {}
    BY <2>3 DEF Sole
  <2> QED
    BY <1>0, <1>1, <2>2, <2>3, <2>4, <2>5, <2>6, <2>7
       DEF Sole, InboundHasLimiter, Present, Starting
<1>5. ASSUME NEW ok \in BOOLEAN, Cert(m, ok)
      PROVE  Sole'
  <2>1. /\ mon[m].pc = "cert" /\ UNCHANGED <<tag, info, inbounds, limiters>>
    BY <1>5 DEF Cert, fieldVars
  <2>2. CASE Done(m)
    BY <1>0, <1>1, <2>1, <2>2, DoneState, SoleBystander
       DEF Returns, Others, Limited, Window
  <2>3. CASE mon' = Goto(m, "addnode")
    <3>1. GoesTo(m, "addnode")
      BY <1>0, <2>3, GotoState DEF Pcs
    <3>2. MonitorHolds(m)'
      BY <1>0, <2>1, <3>1 DEF GoesTo, Sole, MonitorHolds, Window, Limited
    <3>3. \A n \in Monitors : mon[n].pc # "limiter"
      BY <2>1
    <3> QED
      BY <1>0, <1>1, <1>2, <2>1, <3>1, <3>2, <3>3
         DEF GoesTo, Sole, InboundHasLimiter, Present, Limited
  <2> QED
    BY <1>5, <2>2, <2>3 DEF Cert
<1>6. CASE AddNode(m)
  <2>1. GoesTo(m, "addusers")
    BY <1>0, <1>6, GotoState DEF AddNode, Pcs
  <2>2. /\ mon[m].pc = "addnode" /\ UNCHANGED <<tag, info, limiters>>
        /\ inbounds' = [inbounds EXCEPT ![tag] = [cfg |-> mon[m].node, users |-> {}]]
    BY <1>6 DEF AddNode, fieldVars
  <2>3. /\ inbounds'[tag].cfg = mon[m].node /\ inbounds'[tag].users = {}
        /\ \A t \in Tags \ {tag} : inbounds'[t] = inbounds[t]
    BY <1>0, <2>2 DEF TypeOK
  <2>4. /\ info = mon[m].node /\ info.tag = tag
        /\ listed => Limited(tag)
    BY <1>0, <2>2 DEF Sole, MonitorHolds, Window
  <2>5. \A n \in Monitors : MonitorHolds(n)'
    BY <1>2, <2>1 DEF GoesTo, MonitorHolds, Window
  <2> QED
    BY <1>0, <1>1, <2>1, <2>2, <2>3, <2>4, <2>5
       DEF Sole, InboundHasLimiter, Present, Limited, Starting
<1> QED
  BY <1>3, <1>4, <1>5, <1>6

LEMMA SoleStep ==
  ASSUME Struct, Alone, SoleInv, Struct', [Next]_vars
  PROVE  SoleInv'
<1>0. TypeOK
  BY DEF Struct
<1>1. ASSUME NEW m \in Monitors, MonitorStep(m)
      PROVE  SoleInv'
  <2>1. CASE Panic
    BY <2>1, SolePanic DEF SoleInv
  <2>2. CASE NewInterval(m)
    <3>1. chan' = chan + 1 /\ chan \in Nat /\ chan # 0
      BY <1>0, <2>2, IntervalState DEF NewInterval, TypeOK, Alone
    <3> QED
      BY <3>1 DEF SoleInv
  <2>3. ASSUME UNCHANGED chan, mon[m].pc # "gone", ~Panic, ~NewInterval(m)
        PROVE  SoleInv'
    <3>1. ASSUME chan <= 1
          PROVE  Sole /\ \A n \in Monitors \ {m} : mon[n].pc = "gone"
      BY <2>3, <3>1 DEF SoleInv, Alone
    <3>2. \/ Asks(m)
          \/ DelNode(m) \/ NewLimiter(m) \/ (\E ok \in BOOLEAN : Cert(m, ok))
          \/ AddNode(m)
      BY <1>1, <2>3
         DEF MonitorStep, Reload, Diff, Asks, DelNodePanics, AddNodePanics,
             WrongType
    <3>3. CASE Asks(m)
      BY <2>3, <3>1, <3>3, SoleAsk DEF SoleInv
    <3>4. CASE ~Asks(m)
      BY <2>3, <3>1, <3>2, <3>4, SoleReload DEF SoleInv
    <3> QED
      BY <3>3, <3>4
  <2> QED
    BY <1>0, <1>1, <2>1, <2>2, <2>3, MonitorMoves DEF taskVars
<1>2. CASE StartStep
  <2>1. chan = 0
    BY <1>2
       DEF StartStep, StartNode, StartUsers, StartCert, StartAddNode,
           StartAddUsers, StartLimiter, StartTasks, Struct, TypeOK, Quiet,
           Starting
  <2> QED
    BY <1>2, <2>1, SoleStart DEF SoleInv
<1>3. CASE PanelStep \/ Restart \/ CloseStep \/ UNCHANGED vars
  <2>1. UNCHANGED chan
    BY <1>3
       DEF PanelStep, ChangeNode, ChangeUsers, Unlist, Restart, CloseStep,
           CloseLimiter, CloseTasks, CloseNode, taskVars, vars
  <2> QED
    BY <1>3, <2>1, SolePanel, SoleClose DEF SoleInv
<1> QED
  BY <1>1, <1>2, <1>3 DEF Next

-----------------------------------------------------------------------------
(* Who is served, with one monitor: the limiter is filled before users are *)
(* added; a deleted user leaves the inbound first and an added one comes   *)
(* into it first, so that only UpdateUser makes the limiter know it.       *)
Serving(t) == Present(t) /\ Limited(t)

Filled ==
  /\ ctl \in {"cert", "addnode", "addusers"} => limiters[tag] = userList
  /\ ctl = "addusers" => inbounds[tag].users = {}

MonitorServes(m) ==
  /\ mon[m].pc \in {"cert", "addnode", "addusers"} /\ Limited(tag) =>
       limiters[tag] = userList
  /\ mon[m].pc = "addusers" => inbounds[tag].users = {} /\ info = mon[m].node
  /\ mon[m].pc = "add" /\ Serving(tag) =>
       inbounds[tag].users \cap UuidsIn(Deleted(m)) = {}
  /\ mon[m].pc = "update" /\ Serving(tag) =>
       \A x \in inbounds[tag].users :
         \/ x \in UuidsIn(Added(m))
         \/ x \in UuidsIn(limiters[tag]) /\ x \notin UuidsIn(Deleted(m))
  /\ listed /\ mon[m].pc \notin {"gone"} \cup Window /\ ~Present(tag) => info.tls

Known ==
  (\A m \in Monitors : mon[m].pc # "update") =>
    \A t \in Tags : Serving(t) => inbounds[t].users \subseteq UuidsIn(limiters[t])

Served ==
  /\ Filled
  /\ chan <= 1 => Known /\ \A m \in Monitors : MonitorServes(m)

SInv == Struct /\ Alone /\ SoleInv /\ Served

(* It is enough to look at the one monitor there is.                       *)
LEMMA OneServes ==
  ASSUME SInv, Struct', NEW m \in Monitors, mon[m].pc # "gone", Others(m),
         chan' = chan, ctl' = ctl,
         chan <= 1 => Known' /\ MonitorServes(m)'
  PROVE  Served'
<1>1. Filled'
  BY DEF SInv, Struct, Quiet, Starting, Filled
<1>2. ASSUME chan <= 1, NEW n \in Monitors \ {m}
      PROVE  MonitorServes(n)'
  <2>1. mon'[n].pc = "gone"
    BY <1>2 DEF SInv, Alone, Others
  <2> QED
    BY <2>1 DEF MonitorServes
<1> QED
  BY <1>1, <1>2 DEF Served

(* A step that touches neither the inbound nor the limiter.                *)
LEMMA AskServes ==
  ASSUME SInv, Struct', NEW m \in Monitors, Others(m),
         mon[m].pc \notin {"gone", "update"} \cup Window,
         mon'[m].pc \in {"gone", "wait", "user", "reload", "tasks", "diff",
                         "delete"},
         UNCHANGED <<chan, ctl, tag, info, listed, inbounds, limiters>>
  PROVE  Served'
<1>1. ASSUME chan <= 1
      PROVE  Known' /\ MonitorServes(m)'
  <2>1. \A n \in Monitors : mon[n].pc # "update" /\ MonitorServes(m) /\ Known
    BY <1>1 DEF SInv, Alone, Served
  <2>2. Known'
    BY <2>1 DEF Known, Serving, Present, Limited
  <2>3. MonitorServes(m)'
    BY <2>1 DEF MonitorServes, Present, Window
  <2> QED
    BY <2>2, <2>3
<1> QED
  BY <1>1, OneServes

LEMMA ServedPanel ==
  ASSUME SInv, PanelStep \/ Restart \/ UNCHANGED vars
  PROVE  Served'
<1>1. /\ UNCHANGED <<tag, info, userList, inbounds, limiters, mon, ctl, chan>>
      /\ listed' => listed
  BY DEF PanelStep, Restart, ChangeNode, ChangeUsers, Unlist, fieldVars,
         panelVars, taskVars, vars
<1>2. Filled' /\ (Known => Known')
  BY <1>1 DEF SInv, Served, Filled, Known, Serving, Present, Limited
<1>3. ASSUME NEW m \in Monitors, MonitorServes(m)
      PROVE  MonitorServes(m)'
  <2>1. Deleted(m)' = Deleted(m) /\ Added(m)' = Added(m)
    BY <1>1 DEF Deleted, Added
  <2> QED
    BY <1>1, <1>3, <2>1 DEF MonitorServes, Serving, Present, Limited
<1> QED
  BY <1>1, <1>2, <1>3 DEF SInv, Served

LEMMA ServedPanic ==
  ASSUME Panic
  PROVE  Served'
<1>1. /\ ctl' = "none" /\ \A m \in Monitors : mon'[m].pc = "gone"
      /\ \A t \in Tags : ~Present(t)'
  BY DEF Panic, Gone, Present, NoInbound
<1> QED
  BY <1>1 DEF Served, Filled, Known, Serving, MonitorServes

LEMMA ServedStart ==
  ASSUME SInv, Struct', StartStep
  PROVE  Served'
<1>0. /\ \A m \in Monitors : mon[m].pc = "gone"
      /\ Struct /\ Sole
      /\ ctl # "tasks" => \A t \in Tags : inbounds[t].users = {}
  <2>1. ctl \in Starting \/ (ctl = "none" /\ listed = TRUE)
    BY DEF StartStep, StartNode, StartUsers, StartCert, StartAddNode,
           StartAddUsers, StartLimiter, StartTasks, Starting, SInv,
           Struct, TypeOK
  <2>2. Sole /\ \A m \in Monitors : mon[m].pc = "gone"
    BY <2>1 DEF SInv, SoleInv, Struct, Quiet
  <2>3. ctl # "tasks" => Unserved
    BY <2>1 DEF Unserved
  <2> QED
    BY <2>2, <2>3 DEF SInv, Sole
<1>1. ASSUME UNCHANGED mon, Filled',
             \A t \in Tags : inbounds'[t].users = {}
      PROVE  Served'
  BY <1>0, <1>1 DEF Served, Known, Serving, MonitorServes
<1>2. ASSUME NEW ok \in BOOLEAN, NEW decoded \in BOOLEAN, StartNode(ok, decoded)
      PROVE  Served'
  <2>1. ctl = "none" /\ ctl' \in {"none", "user"} /\ UNCHANGED <<mon, inbounds>>
    BY <1>2 DEF StartNode, StartFails
  <2> QED
    BY <1>0, <1>1, <2>1 DEF Filled
<1>3. ASSUME NEW ok \in BOOLEAN, StartUsers(ok)
      PROVE  Served'
  <2>1. /\ ctl = "user" /\ ctl' \in {"none", "limiter"}
        /\ UNCHANGED <<mon, inbounds>>
    BY <1>3 DEF StartUsers, StartFails
  <2> QED
    BY <1>0, <1>1, <2>1 DEF Filled
<1>4. CASE StartLimiter
  <2>1. /\ ctl = "limiter" /\ ctl' \in {"cert", "addnode"}
        /\ UNCHANGED <<mon, inbounds>>
    BY <1>4 DEF StartLimiter
  <2>2. tag' \in Tags /\ limiters'[tag'] = userList'
    BY <1>0, <1>4 DEF StartLimiter, Struct, Placed, TypeOK, Tags
  <2> QED
    BY <1>0, <1>1, <2>1, <2>2 DEF Filled
<1>5. ASSUME NEW ok \in BOOLEAN, StartCert(ok)
      PROVE  Served'
  <2>1. /\ ctl = "cert" /\ ctl' \in {"none", "addnode"}
        /\ UNCHANGED <<mon, tag, userList, inbounds, limiters>>
    BY <1>5 DEF StartCert, StartFails, fieldVars
  <2> QED
    BY <1>0, <1>1, <2>1 DEF Filled, SInv, Served
<1>6. ASSUME NEW ok \in BOOLEAN, StartAddNode(ok)
      PROVE  Served'
  <2>1. /\ ctl = "addnode" /\ UNCHANGED <<mon, tag, userList, limiters>>
        /\ tag \in Tags
    BY <1>0, <1>6 DEF StartAddNode, fieldVars, Struct, Placed, Owning
  <2>2. limiters[tag] = userList
    BY <2>1 DEF SInv, Served, Filled
  <2>3. CASE ok
    <3>1. /\ ctl' = "addusers"
          /\ inbounds' = [inbounds EXCEPT ![tag] = [cfg |-> info, users |-> {}]]
      BY <1>6, <2>3 DEF StartAddNode
    <3>2. \A t \in Tags : inbounds'[t].users = {}
      BY <1>0, <2>1, <3>1 DEF Struct, TypeOK
    <3> QED
      BY <1>1, <2>1, <2>2, <3>1, <3>2 DEF Filled
  <2>4. CASE ~ok
    <3>1. ctl' = "none" /\ inbounds' = inbounds
      BY <1>6, <2>4 DEF StartAddNode, StartFails
    <3> QED
      BY <1>0, <1>1, <2>1, <3>1 DEF Filled
  <2> QED
    BY <2>3, <2>4
<1>7. ASSUME NEW ok \in BOOLEAN, StartAddUsers(ok)
      PROVE  Served'
  <2>1. /\ ctl = "addusers" /\ tag \in Tags
        /\ UNCHANGED <<mon, limiters, tag, userList>>
    BY <1>0, <1>7 DEF StartAddUsers, fieldVars, Struct, Placed, Owning
  <2>2. limiters[tag] = userList
    BY <2>1 DEF SInv, Served, Filled
  <2>3. CASE ok
    <3>1. /\ ctl' = "tasks"
          /\ inbounds' = [inbounds EXCEPT ![tag].users = @ \cup UuidsIn(userList)]
      BY <1>7, <2>3 DEF StartAddUsers
    <3>2. /\ inbounds'[tag].users \subseteq UuidsIn(limiters'[tag])
          /\ \A t \in Tags \ {tag} : inbounds'[t].users = {}
      BY <1>0, <2>1, <2>2, <3>1 DEF Struct, TypeOK
    <3>3. Known'
      BY <2>1, <3>2 DEF Known, Serving
    <3>4. Filled' /\ \A m \in Monitors : MonitorServes(m)'
      BY <1>0, <2>1, <3>1 DEF Filled, MonitorServes
    <3> QED
      BY <3>3, <3>4 DEF Served
  <2>4. CASE ~ok
    <3>1. ctl' = "none" /\ inbounds' = inbounds
      BY <1>7, <2>4 DEF StartAddUsers, StartFails
    <3> QED
      BY <1>0, <1>1, <2>1, <3>1 DEF Filled
  <2> QED
    BY <2>3, <2>4
<1>8. CASE StartTasks
  <2>0. Spawn(mon) /\ mon \in [Monitors -> MonitorState] /\ chan \in Nat
    BY <1>0, <1>8 DEF StartTasks, Struct, TypeOK
  <2>1. \A n \in Monitors : mon'[n] = mon[n] \/ mon'[n].pc = "wait"
    BY <2>0, SpawnState
  <2>2. /\ ctl = "tasks" /\ ctl' = "up" /\ chan = 0
        /\ UNCHANGED <<tag, info, inbounds, limiters>>
    BY <1>0, <1>8 DEF StartTasks, Struct, Quiet, Starting, fieldVars
  <2>3. Known'
    BY <1>0, <2>2 DEF SInv, Served, Known, Serving, Present, Limited
  <2>4. \A m \in Monitors : MonitorServes(m)'
    BY <1>0, <2>1, <2>2 DEF MonitorServes, Sole, Present
  <2> QED
    BY <2>2, <2>3, <2>4 DEF Served, Filled
<1> QED
  BY <1>2, <1>3, <1>4, <1>5, <1>6, <1>7, <1>8 DEF StartStep

LEMMA ServedClose ==
  ASSUME SInv, Struct', SoleInv', CloseStep
  PROVE  Served'
<1>0. /\ Struct /\ Struct' /\ Served /\ tag \in Tags
      /\ UNCHANGED <<mon, tag, info, userList, chan, listed>>
      /\ ctl' \in {"none", "up", "closing", "delnode"}
  BY DEF SInv, CloseStep, CloseLimiter, CloseTasks, CloseNode, Struct,
         Placed, Owning, fieldVars, taskVars, panelVars
<1>1. listed' = FALSE
  BY <1>0
     DEF CloseStep, CloseLimiter, CloseTasks, CloseNode, Struct, Quiet, TypeOK
<1>2. chan <= 1 => \A t \in Tags \ {tag} : inbounds'[t].users = {}
  BY <1>0 DEF SoleInv, Sole
<1>3. CASE CloseLimiter
  <2>1. /\ limiters' = [limiters EXCEPT ![tag] = None] /\ inbounds' = inbounds
    BY <1>3 DEF CloseLimiter
  <2>2. ~Limited(tag)'
    BY <1>0, <2>1 DEF Struct, TypeOK, Limited
  <2> QED
    BY <1>0, <1>1, <1>2, <2>1, <2>2
       DEF Served, Filled, Known, Serving, MonitorServes
<1>4. CASE CloseTasks
  <2>1. UNCHANGED <<inbounds, limiters>>
    BY <1>4 DEF CloseTasks
  <2>2. \A m \in Monitors : Deleted(m)' = Deleted(m) /\ Added(m)' = Added(m)
    BY <1>0 DEF Deleted, Added
  <2> QED
    BY <1>0, <1>1, <2>1, <2>2
       DEF Served, Filled, Known, Serving, MonitorServes, Present, Limited
<1>5. CASE CloseNode
  <2>1. inbounds' = [inbounds EXCEPT ![tag] = NoInbound] /\ limiters' = limiters
    BY <1>5 DEF CloseNode
  <2>2. inbounds'[tag].users = {} /\ ~Present(tag)'
    BY <1>0, <2>1 DEF Struct, TypeOK, NoInbound, Present
  <2> QED
    BY <1>0, <1>1, <1>2, <2>1, <2>2
       DEF Served, Filled, Known, Serving, MonitorServes, Limited
<1> QED
  BY <1>3, <1>4, <1>5 DEF CloseStep

LEMMA ServedAsk ==
  ASSUME SInv, Struct', NEW m \in Monitors,
         \/ Stop(m) \/ Fetch(m) \/ FetchFails(m) \/ FetchUsers(m)
         \/ FetchUsersFails(m) \/ SameInterval(m) \/ NothingToDo(m) \/ Compare(m)
         \/ (Done(m) /\ (AddAllUsers(m) \/ DelUsers(m) \/ AddUsers(m)))
  PROVE  Served'
<1>0. TypeOK
  BY DEF SInv, Struct
<1>1. /\ Others(m)
      /\ mon'[m].pc \in {"gone", "wait", "user", "reload", "tasks", "diff",
                         "delete"}
  <2>1. CASE Stop(m) \/ Fetch(m) \/ FetchUsers(m) \/ Compare(m)
    BY <1>0, <2>1, StopState, FetchState, FetchUsersState, CompareState
  <2>2. CASE Done(m)
    BY <1>0, <2>2, DoneState DEF Returns
  <2> QED
    BY <2>1, <2>2 DEF FetchFails, FetchUsersFails, SameInterval, NothingToDo
<1>2. /\ mon[m].pc \notin {"gone", "update"} \cup Window
      /\ UNCHANGED <<chan, ctl, tag, info, listed, limiters>>
  BY DEF Stop, Fetch, FetchFails, FetchUsers, FetchUsersFails, SameInterval,
         NothingToDo, Compare, AddAllUsers, DelUsers, AddUsers, Window,
         fieldVars, taskVars, panelVars
<1>3. UNCHANGED inbounds
  <2>1. CASE Done(m) /\ (AddAllUsers(m) \/ DelUsers(m) \/ AddUsers(m))
    <3>1. mon'[m].pc = "wait"
      BY <1>0, <2>1, DoneState DEF Returns
    <3>2. /\ mon' # Goto(m, "tasks") /\ mon' # Goto(m, "add")
          /\ mon' # Goto(m, "update")
      BY <1>0, <3>1, GotoState DEF GoesTo, Pcs
    <3> QED
      BY <2>1, <3>2 DEF AddAllUsers, DelUsers, AddUsers
  <2> QED
    BY <2>1
       DEF Stop, Fetch, FetchFails, FetchUsers, FetchUsersFails, SameInterval,
           NothingToDo, Compare
<1> QED
  BY <1>0, <1>1, <1>2, <1>3, AskServes

LEMMA ServedReload ==
  ASSUME SInv, Struct', SoleInv', NEW m \in Monitors,
         \/ DelNode(m) \/ NewLimiter(m) \/ (\E ok \in BOOLEAN : Cert(m, ok))
         \/ AddNode(m)
  PROVE  Served'
<1>0. /\ Struct /\ Struct' /\ TypeOK /\ tag \in Tags
      /\ mon[m].node \in NodeCfgs /\ mon[m].pc # "gone" /\ UNCHANGED <<chan, ctl>>
  BY DEF SInv, Struct, Placed, Reloading, DelNode, NewLimiter, Cert,
         AddNode, taskVars
<1>1. ASSUME chan <= 1
      PROVE  /\ MonitorServes(m) /\ MonitorHolds(m) /\ Known
             /\ \A t \in Tags : inbounds[t].users # {} => t = tag
             /\ \A t \in Tags : inbounds'[t].users # {} => t = tag'
             /\ MonitorHolds(m)'
             /\ \A n \in Monitors \ {m} : mon[n].pc = "gone"
  BY <1>0, <1>1 DEF SInv, Alone, Served, SoleInv, Sole
<1>2. CASE DelNode(m)
  <2>1. GoesTo(m, "limiter")
    BY <1>0, <1>2, GotoState DEF DelNode, Pcs
  <2>2. chan <= 1 => \A t \in Tags : inbounds'[t].users = {}
    BY <1>1, <2>1 DEF GoesTo, MonitorHolds
  <2>3. chan <= 1 => Known' /\ MonitorServes(m)'
    BY <2>1, <2>2 DEF GoesTo, Known, Serving, MonitorServes, Window
  <2> QED
    BY <1>0, <2>1, <2>3, OneServes DEF GoesTo
<1>3. CASE NewLimiter(m)
  <2>1. GoesTo(m, "cert") \/ GoesTo(m, "addnode")
    BY <1>0, <1>3, GotoState DEF NewLimiter, Pcs
  <2>2. Others(m) /\ mon'[m].pc \in {"cert", "addnode"}
    BY <2>1 DEF GoesTo
  <2>3. chan <= 1 => \A t \in Tags : inbounds'[t].users = {}
    BY <1>1, <1>3 DEF NewLimiter, MonitorHolds
  <2>4. tag' \in Tags /\ limiters'[tag'] = userList'
    BY <1>0, <1>3 DEF NewLimiter, TypeOK, Tags
  <2>5. chan <= 1 => Known' /\ MonitorServes(m)'
    BY <2>2, <2>3, <2>4 DEF Known, Serving, MonitorServes, Window
  <2> QED
    BY <1>0, <2>2, <2>5, OneServes
<1>4. ASSUME NEW ok \in BOOLEAN, Cert(m, ok)
      PROVE  Served'
  <2>1. /\ mon[m].pc = "cert"
        /\ UNCHANGED <<tag, info, userList, inbounds, limiters>>
        /\ chan <= 1 => info.tls
    BY <1>0, <1>1, <1>4 DEF Cert, fieldVars, MonitorHolds, Window
  <2>2. CASE Done(m)
    <3>1. Returns(m)
      BY <1>0, <2>2, DoneState
    <3>2. chan <= 1 => Known' /\ MonitorServes(m)'
      BY <1>1, <2>1, <3>1
         DEF Returns, Known, Serving, MonitorServes, Present, Limited
    <3> QED
      BY <1>0, <3>1, <3>2, OneServes DEF Returns
  <2>3. CASE mon' = Goto(m, "addnode")
    <3>1. GoesTo(m, "addnode")
      BY <1>0, <2>3, GotoState DEF Pcs
    <3>2. chan <= 1 => Known' /\ MonitorServes(m)'
      BY <1>1, <2>1, <3>1
         DEF GoesTo, Known, Serving, MonitorServes, Present, Limited, Window
    <3> QED
      BY <1>0, <3>1, <3>2, OneServes DEF GoesTo
  <2> QED
    BY <1>4, <2>2, <2>3 DEF Cert
<1>5. CASE AddNode(m)
  <2>1. GoesTo(m, "addusers")
    BY <1>0, <1>5, GotoState DEF AddNode, Pcs
  <2>2. /\ mon[m].pc = "addnode" /\ UNCHANGED <<tag, info, userList, limiters>>
        /\ inbounds' = [inbounds EXCEPT ![tag] = [cfg |-> mon[m].node, users |-> {}]]
    BY <1>5 DEF AddNode, fieldVars
  <2>3. /\ inbounds'[tag].users = {} /\ inbounds'[tag].cfg = mon[m].node
        /\ \A t \in Tags \ {tag} : inbounds'[t] = inbounds[t]
    BY <1>0, <2>2 DEF TypeOK
  <2>4. chan <= 1 => info = mon[m].node
    BY <1>1, <2>2 DEF MonitorHolds, Window
  <2>5. chan <= 1 => Known'
    BY <1>1, <2>2, <2>3 DEF Known, Serving
  <2>6. chan <= 1 => MonitorServes(m)'
    BY <1>0, <1>1, <2>1, <2>2, <2>3, <2>4, ControllerAssumption
       DEF GoesTo, MonitorServes, Present, Limited
  <2> QED
    BY <1>0, <2>1, <2>5, <2>6, OneServes DEF GoesTo
<1> QED
  BY <1>2, <1>3, <1>4, <1>5

(* AddAllUsers, DelUsers, AddUsers succeed; UpdateUser.                    *)
LEMMA ServedUsers ==
  ASSUME SInv, Struct', SoleInv', NEW m \in Monitors,
         \/ AddAllUsers(m) \/ DelUsers(m) \/ AddUsers(m) \/ UpdateUser(m)
  PROVE  Served'
<1>0. /\ Struct /\ Struct' /\ TypeOK /\ tag \in Tags
      /\ mon[m].pc # "gone" /\ UNCHANGED <<chan, ctl, tag, info, listed>>
  BY DEF SInv, Struct, Placed, AddAllUsers, DelUsers, AddUsers,
         UpdateUser, taskVars, fieldVars, panelVars
<1>1. ASSUME chan <= 1
      PROVE  /\ Known /\ MonitorServes(m)
             /\ \A n \in Monitors \ {m} : mon[n].pc = "gone"
  BY <1>0, <1>1 DEF SInv, Alone, Served
<1>2. chan <= 1 => \A t \in Tags \ {tag} : inbounds'[t].users = {}
  BY <1>0 DEF SoleInv, Sole
<1>3. ASSUME NEW p \in Pcs, mon' = Goto(m, p)
      PROVE  GoesTo(m, p) /\ Deleted(m)' = Deleted(m) /\ Added(m)' = Added(m)
  <2>1. GoesTo(m, p)
    BY <1>0, <1>3, GotoState
  <2> QED
    BY <2>1 DEF GoesTo, Deleted, Added
<1>4. CASE Done(m) /\ (AddAllUsers(m) \/ DelUsers(m) \/ AddUsers(m))
  BY <1>4, ServedAsk
<1>5. CASE AddAllUsers(m) /\ ~Done(m)
  <2>1. /\ mon[m].pc = "addusers" /\ Present(tag) /\ UNCHANGED <<userList, limiters>>
        /\ inbounds' = [inbounds EXCEPT ![tag].users = @ \cup UuidsIn(userList)]
        /\ mon' = Goto(m, "tasks")
    BY <1>5 DEF AddAllUsers, fieldVars
  <2>2. GoesTo(m, "tasks")
    BY <1>3, <2>1 DEF Pcs
  <2>3. inbounds'[tag].users = inbounds[tag].users \cup UuidsIn(userList)
        /\ Present(tag)'
    BY <1>0, <2>1 DEF TypeOK, Present
  <2>4. chan <= 1 => Known'
    <3>1. ASSUME chan <= 1, Limited(tag)'
          PROVE  inbounds'[tag].users \subseteq UuidsIn(limiters'[tag])
      BY <1>0, <1>1, <2>1, <2>3, <3>1 DEF MonitorServes, Limited
    <3> QED
      BY <1>0, <1>2, <3>1 DEF Known, Serving
  <2>5. MonitorServes(m)'
    BY <1>0, <2>2, <2>3 DEF GoesTo, MonitorServes
  <2> QED
    BY <1>0, <2>2, <2>4, <2>5, OneServes DEF GoesTo
<1>6. CASE DelUsers(m) /\ ~Done(m)
  <2>1. /\ mon[m].pc = "delete" /\ UNCHANGED <<userList, limiters>>
        /\ mon' = Goto(m, "add")
        /\ \/ Deleted(m) = {} /\ UNCHANGED inbounds
           \/ inbounds' = [inbounds EXCEPT ![tag].users = @ \ UuidsIn(Deleted(m))]
    BY <1>6 DEF DelUsers, fieldVars
  <2>2. GoesTo(m, "add") /\ Deleted(m)' = Deleted(m)
    BY <1>3, <2>1 DEF Pcs
  <2>3. /\ inbounds'[tag].users = inbounds[tag].users \ UuidsIn(Deleted(m))
        /\ Present(tag)' <=> Present(tag)
    BY <1>0, <2>1 DEF TypeOK, Present, UuidsIn
  <2>4. chan <= 1 => Known'
    <3>1. ASSUME chan <= 1, Serving(tag)'
          PROVE  inbounds'[tag].users \subseteq UuidsIn(limiters'[tag])
      BY <1>0, <1>1, <2>1, <2>3, <3>1 DEF Known, Serving, Limited
    <3> QED
      BY <1>0, <1>2, <3>1 DEF Known, Serving
  <2>5. chan <= 1 => MonitorServes(m)'
    BY <1>0, <1>1, <2>1, <2>2, <2>3 DEF GoesTo, MonitorServes, Window
  <2> QED
    BY <1>0, <2>2, <2>4, <2>5, OneServes DEF GoesTo
<1>7. CASE AddUsers(m) /\ ~Done(m)
  <2>1. /\ mon[m].pc = "add" /\ UNCHANGED <<userList, limiters>>
        /\ mon' = Goto(m, "update")
        /\ \/ Added(m) = {} /\ UNCHANGED inbounds
           \/ inbounds' = [inbounds EXCEPT ![tag].users = @ \cup UuidsIn(Added(m))]
    BY <1>7 DEF AddUsers, fieldVars
  <2>2. GoesTo(m, "update") /\ Deleted(m)' = Deleted(m) /\ Added(m)' = Added(m)
    BY <1>3, <2>1 DEF Pcs
  <2>3. /\ inbounds'[tag].users = inbounds[tag].users \cup UuidsIn(Added(m))
        /\ Present(tag)' <=> Present(tag)
    BY <1>0, <2>1 DEF TypeOK, Present, UuidsIn
  <2>4. Known'
    BY <2>2 DEF Known, GoesTo
  <2>5. ASSUME chan <= 1
        PROVE  MonitorServes(m)'
    <3>1. ASSUME Serving(tag)', NEW x \in inbounds'[tag].users
          PROVE  \/ x \in UuidsIn(Added(m))
                 \/ x \in UuidsIn(limiters[tag]) /\ x \notin UuidsIn(Deleted(m))
      <4>1. Serving(tag)
        BY <1>0, <2>1, <2>3, <3>1 DEF Serving, Limited
      <4>2. \A n \in Monitors : mon[n].pc # "update"
        BY <1>1, <2>1, <2>5
      <4>3. /\ inbounds[tag].users \subseteq UuidsIn(limiters[tag])
            /\ inbounds[tag].users \cap UuidsIn(Deleted(m)) = {}
        BY <1>0, <1>1, <2>1, <2>5, <4>1, <4>2 DEF Known, MonitorServes
      <4> QED
        BY <2>3, <3>1, <4>3
    <3> QED
      BY <1>0, <1>1, <2>1, <2>2, <2>3, <2>5, <3>1
         DEF GoesTo, MonitorServes, Window
  <2> QED
    BY <1>0, <2>2, <2>4, <2>5, OneServes DEF GoesTo
<1>8. CASE UpdateUser(m)
  <2> DEFINE gone == UuidsIn(Deleted(m)) \cup UuidsIn(Added(m))
             kept == {u \in limiters[tag] : u.uuid \notin gone}
  <2>1. /\ mon[m].pc = "update" /\ UNCHANGED inbounds
        /\ limiters' = [limiters EXCEPT ![tag] =
              IF Limited(tag) THEN kept \cup Added(m) ELSE @]
    BY <1>8 DEF UpdateUser
  <2>2. Returns(m)
    BY <1>0, <1>8, DoneState DEF UpdateUser
  <2>3. /\ Limited(tag) => limiters'[tag] = kept \cup Added(m)
        /\ Limited(tag)' => Limited(tag)
    <3> HIDE DEF kept
    <3> QED
      BY <1>0, <2>1 DEF TypeOK, Limited
  <2>4. chan <= 1 => Known'
    <3>1. ASSUME chan <= 1, Serving(tag)', NEW x \in inbounds[tag].users
          PROVE  x \in UuidsIn(limiters'[tag])
      <4>1. Serving(tag)
        BY <1>0, <2>1, <2>3, <3>1 DEF Serving, Present
      <4>2. \/ x \in UuidsIn(Added(m))
            \/ x \in UuidsIn(limiters[tag]) /\ x \notin gone
        BY <1>1, <2>1, <3>1, <4>1 DEF MonitorServes
      <4>3. x \in UuidsIn(kept \cup Added(m))
        BY <4>2 DEF UuidsIn
      <4> QED
        BY <2>3, <4>1, <4>3 DEF Serving
    <3> QED
      BY <1>0, <1>2, <2>1, <3>1 DEF Known, Serving
  <2>5. chan <= 1 => MonitorServes(m)'
    BY <1>0, <1>1, <2>1, <2>2 DEF Returns, MonitorServes, Present, Window
  <2> QED
    BY <1>0, <2>2, <2>4, <2>5, OneServes DEF Returns
<1> QED
  BY <1>4, <1>5, <1>6, <1>7, <1>8

LEMMA ServedStep ==
  ASSUME SInv, [Next]_vars
  PROVE  SInv'
<1>1. Struct' /\ Alone' /\ SoleInv'
  BY StructStep, AloneStep, SoleStep DEF SInv
<1>2. ASSUME NEW m \in Monitors, MonitorStep(m)
      PROVE  Served'
  <2>1. CASE NewInterval(m)
    <3>1. /\ chan' = chan + 1 /\ chan \in Nat /\ mon[m].pc # "gone" /\ ctl' = ctl
          /\ Struct
      BY <2>1, IntervalState DEF NewInterval, SInv, Struct, TypeOK
    <3>2. ~(chan' <= 1)
      BY <3>1 DEF SInv, Alone
    <3>3. Filled'
      BY <1>1, <3>1 DEF Struct, Quiet, Starting, Filled
    <3> QED
      BY <3>2, <3>3 DEF Served
  <2> QED
    BY <1>1, <1>2, <2>1, ServedAsk, ServedReload, ServedUsers, ServedPanic
       DEF MonitorStep, Reload, Diff, DelNodePanics, AddNodePanics, WrongType
<1>3. Served'
  BY <1>1, <1>2, ServedPanel, ServedStart, ServedClose DEF Next
<1> QED
  BY <1>1, <1>3 DEF SInv

LEMMA ServedInit ==
  ASSUME Init
  PROVE  SInv
<1>1. /\ ctl = "none" /\ tag = None
      /\ \A m \in Monitors : mon[m].pc = "gone"
      /\ \A t \in Tags : ~Present(t) /\ inbounds[t].users = {}
  BY DEF Init, FreshProcess, Gone, Present, NoInbound
<1>2. SoleInv
  BY <1>1, ControllerAssumption
     DEF SoleInv, Sole, InboundHasLimiter, MonitorHolds, Window
<1> QED
  BY <1>1, <1>2, StructInit
     DEF SInv, Alone, Served, Filled, Known, Serving, MonitorServes

LEMMA ServedInvariance == Spec => []SInv
<1>1. SInv /\ [Next]_vars => SInv'
  BY ServedStep
<1> QED
  BY <1>1, ServedInit, PTL DEF Spec

(* With a task that was never restarted, whoever the inbound of a node     *)
(* that is up serves between two runs of the monitor is a user the limiter *)
(* knows, whatever requests and changes of the users failed, and whatever  *)
(* inbounds a Start that failed has left in the core.                      *)
THEOREM ServedAreKnown == Spec => []ServedUsersKnown
<1>1. SInv => ServedUsersKnown
  BY DEF SInv, Served, Known, Serving, ServedUsersKnown, Idle
<1> QED
  BY <1>1, ServedInvariance, PTL

(* As long as the task was not restarted every inbound of a listed node    *)
(* has a limiter, also the inbound that a failed Start leaves behind (with *)
(* two monitors it may lose it: AlwaysLimited needs its hypothesis).       *)
THEOREM LimitedByOne == Spec => [](chan <= 1 => InboundHasLimiter)
<1>1. SInv => (chan <= 1 => InboundHasLimiter)
  BY DEF SInv, SoleInv, Sole
<1> QED
  BY <1>1, ServedInvariance, PTL

(* A monitor that is alone ends the process only where the core refuses an *)
(* inbound, or where a certificate was not to be had at the last reload    *)
(* (the log.Panic calls of node/task.go, the conversions of core/sing).    *)
THEOREM FewPanics == Spec => NoOtherPanic
<1> DEFINE Expected == \E m \in Monitors :
             \/ mon[m].pc = "addnode"
             \/ mon[m].pc = "reload" /\ ~Present(tag) /\ info.tls
<1>1. ASSUME SInv, [Next]_vars, proc # "down", proc' = "down", listed, chan <= 1
      PROVE  Expected
  <2>1. PICK m \in Monitors :
          DelNodePanics(m) \/ AddNodePanics(m) \/ WrongType(m)
    BY <1>1
       DEF Next, vars, PanelStep, ChangeNode, ChangeUsers, Unlist, Restart,
           StartStep, StartNode, StartUsers, StartCert, StartAddNode,
           StartAddUsers, StartLimiter, StartTasks, StartFails, CloseStep,
           CloseLimiter, CloseTasks, CloseNode, MonitorStep, Stop, Fetch,
           FetchFails, FetchUsers, FetchUsersFails, Reload, DelNode,
           NewLimiter, Cert, AddNode, AddAllUsers, NewInterval, SameInterval,
           Diff, NothingToDo, Compare, DelUsers, AddUsers, UpdateUser
  <2>2. MonitorServes(m) /\ Sole /\ Struct
    BY <1>1 DEF SInv, SoleInv, Served
  <2>3. CASE DelNodePanics(m)
    BY <1>1, <2>2, <2>3 DEF DelNodePanics, MonitorServes, Window
  <2>4. CASE AddNodePanics(m)
    BY <2>4 DEF AddNodePanics
  <2>5. CASE WrongType(m)
    <3>1. /\ tag \in Tags /\ Present(tag) /\ inbounds[tag].cfg.tag = tag
          /\ mon[m].pc \notin {"gone", "limiter"}
      BY <2>2, <2>5 DEF WrongType, Struct, Placed, Sole
    <3>2. info.tag = tag
      <4>1. \A n \in Monitors : mon[n].pc # "limiter"
        BY <1>1, <3>1 DEF SInv, Alone
      <4> QED
        BY <2>2, <3>1, <4>1 DEF Sole
    <3>3. mon[m].pc = "addusers" => mon[m].node = info
      BY <2>2 DEF MonitorServes
    <3> QED
      BY <2>5, <3>1, <3>2, <3>3 DEF WrongType, SameType
  <2> QED
    BY <2>1, <2>3, <2>4, <2>5
<1>2. SInv /\ [Next]_vars =>
        [proc # "down" /\ proc' = "down" /\ listed /\ chan <= 1 => Expected]_vars
  BY <1>1
<1> QED
  BY <1>2, ServedInvariance, PTL DEF Spec, NoOtherPanic

-----------------------------------------------------------------------------
(* What the node runs is the list the controller holds, as long as the     *)
(* core takes every change of the users and the panel lists a uuid once.   *)
(* While a monitor applies a difference of lists, the inbound is that far. *)
TakesChanges == Faults \cap {"startusers", "addusers", "delusers"} = {}

OnePerUuid(us) == \A u, v \in us : u.uuid = v.uuid => u = v

Keys(us) == {Key(u) : u \in us}

Serves == {"tasks", "up", "closing", "delnode"}

(* Between two runs of a monitor whose task was not restarted, the inbound *)
(* of a node that is up lets in the users of the controller's list, all of *)
(* them and no other, and its limiter knows each with his speed limit      *)
(* (compareUserList and UpdateUser, against AddUsers and DelUsers).        *)
ServesItsList ==
  Idle /\ chan <= 1 /\ ctl = "up" /\ Serving(tag) =>
    /\ inbounds[tag].users = UuidsIn(userList)
    /\ Keys(limiters[tag]) = Keys(userList)

MonitorApplies(m) ==
  /\ mon[m].pc \in {"delete", "add", "update"} => mon[m].old = userList
  /\ ctl \in Serves /\ Serving(tag) /\ mon[m].pc = "add" =>
       inbounds[tag].users = UuidsIn(userList) \ UuidsIn(Deleted(m))
  /\ ctl \in Serves /\ Serving(tag) /\ mon[m].pc = "update" =>
       inbounds[tag].users =
         (UuidsIn(userList) \ UuidsIn(Deleted(m))) \cup UuidsIn(Added(m))

Exact ==
  /\ ctl \in Serves /\ Serving(tag) => Keys(limiters[tag]) = Keys(userList)
  /\ ctl \in Serves /\ Serving(tag)
     /\ (\A m \in Monitors : mon[m].pc \notin {"addusers", "add", "update"}) =>
       inbounds[tag].users = UuidsIn(userList)
  /\ \A m \in Monitors : MonitorApplies(m)

ExactInv ==
  /\ userList \in UserLists \cup {{}}
  /\ chan <= 1 => Exact

EInv == SInv /\ InboundInv /\ ExactInv

LEMMA KeyIs ==
  ASSUME NEW u, NEW v
  PROVE  Key(u) = Key(v) <=> u.uuid = v.uuid /\ u.speed = v.speed
BY DEF Key

(* Two lists of one record per uuid: whoever is in both, with one speed    *)
(* limit, has his uuid neither among the deleted nor among the added.      *)
LEMMA KeptOrChanged ==
  ASSUME NEW us, NEW vs, OnePerUuid(us), OnePerUuid(vs),
         NEW u \in us, NEW v \in vs, Key(u) = Key(v)
  PROVE  v.uuid \notin UuidsIn(Without(us, vs)) \cup UuidsIn(Without(vs, us))
<1>1. u.uuid = v.uuid
  BY KeyIs
<1>2. ASSUME v.uuid \in UuidsIn(Without(us, vs))
      PROVE  FALSE
  <2>1. PICK d \in us : d.uuid = v.uuid /\ \A w \in vs : Key(d) # Key(w)
    BY <1>2 DEF UuidsIn, Without
  <2>2. d = u
    BY <1>1, <2>1 DEF OnePerUuid
  <2> QED
    BY <2>1, <2>2
<1>3. ASSUME v.uuid \in UuidsIn(Without(vs, us))
      PROVE  FALSE
  <2>1. PICK a \in vs : a.uuid = v.uuid /\ \A w \in us : Key(a) # Key(w)
    BY <1>3 DEF UuidsIn, Without
  <2>2. a = v
    BY <2>1 DEF OnePerUuid
  <2> QED
    BY <2>1, <2>2
<1> QED
  BY <1>2, <1>3

(* The difference of two lists, applied to the uuids of the first, makes   *)
(* those of the second.                                                    *)
LEMMA UuidsApplied ==
  ASSUME NEW us, NEW vs, OnePerUuid(us), OnePerUuid(vs)
  PROVE  (UuidsIn(us) \ UuidsIn(Without(us, vs))) \cup UuidsIn(Without(vs, us))
           = UuidsIn(vs)
<1> DEFINE applied == (UuidsIn(us) \ UuidsIn(Without(us, vs)))
                        \cup UuidsIn(Without(vs, us))
<1>1. ASSUME NEW x \in UuidsIn(vs)
      PROVE  x \in applied
  <2>1. PICK v \in vs : v.uuid = x
    BY <1>1 DEF UuidsIn
  <2>2. CASE v \in Without(vs, us)
    BY <2>1, <2>2 DEF UuidsIn
  <2>3. CASE v \notin Without(vs, us)
    <3>1. PICK u \in us : Key(v) = Key(u)
      BY <2>3 DEF Without
    <3>2. u.uuid = x /\ x \in UuidsIn(us)
      BY <2>1, <3>1, KeyIs DEF UuidsIn
    <3>3. x \notin UuidsIn(Without(us, vs))
      BY <2>1, <3>1, KeptOrChanged
    <3> QED
      BY <3>2, <3>3
  <2> QED
    BY <2>2, <2>3
<1>2. ASSUME NEW x \in UuidsIn(us), x \notin UuidsIn(Without(us, vs))
      PROVE  x \in UuidsIn(vs)
  <2>1. PICK u \in us : u.uuid = x
    BY <1>2 DEF UuidsIn
  <2>2. u \notin Without(us, vs)
    BY <1>2, <2>1 DEF UuidsIn
  <2>3. PICK v \in vs : Key(u) = Key(v)
    BY <2>2 DEF Without
  <2> QED
    BY <2>1, <2>3, KeyIs DEF UuidsIn
<1>3. UuidsIn(Without(vs, us)) \subseteq UuidsIn(vs)
  BY DEF UuidsIn, Without
<1> QED
  BY <1>1, <1>2, <1>3

(* So does UpdateUser, to the keys of whatever limiter has the first's.    *)
LEMMA KeysApplied ==
  ASSUME NEW us, NEW vs, OnePerUuid(us), OnePerUuid(vs), NEW ls,
         Keys(ls) = Keys(us)
  PROVE  Keys({u \in ls : u.uuid \notin UuidsIn(Without(us, vs))
                                           \cup UuidsIn(Without(vs, us))}
                \cup Without(vs, us)) = Keys(vs)
<1> DEFINE gone == UuidsIn(Without(us, vs)) \cup UuidsIn(Without(vs, us))
           kept == {u \in ls : u.uuid \notin gone}
<1>1. ASSUME NEW v \in vs
      PROVE  Key(v) \in Keys(kept \cup Without(vs, us))
  <2>1. CASE v \in Without(vs, us)
    BY <2>1 DEF Keys
  <2>2. CASE v \notin Without(vs, us)
    <3>1. PICK u \in us : Key(v) = Key(u)
      BY <2>2 DEF Without
    <3>2. Key(v) \in Keys(ls)
      BY <3>1 DEF Keys
    <3>3. PICK l \in ls : Key(l) = Key(v)
      BY <3>2 DEF Keys
    <3>4. v.uuid \notin gone
      BY <3>1, KeptOrChanged
    <3>5. l \in kept
      BY <3>3, <3>4, KeyIs
    <3> QED
      BY <3>3, <3>5 DEF Keys
  <2> QED
    BY <2>1, <2>2
<1>2. ASSUME NEW l \in kept
      PROVE  Key(l) \in Keys(vs)
  <2>1. l \in ls /\ l.uuid \notin UuidsIn(Without(us, vs))
    OBVIOUS
  <2>2. Key(l) \in Keys(us)
    BY <2>1 DEF Keys
  <2>3. PICK u \in us : Key(u) = Key(l)
    BY <2>2 DEF Keys
  <2>4. u \notin Without(us, vs)
    BY <2>1, <2>3, KeyIs DEF UuidsIn
  <2>5. PICK v \in vs : Key(u) = Key(v)
    BY <2>4 DEF Without
  <2> QED
    BY <2>3, <2>5 DEF Keys
<1>3. \A l \in Without(vs, us) : Key(l) \in Keys(vs)
  BY DEF Keys, Without
<1>4. Keys(vs) \subseteq Keys(kept \cup Without(vs, us))
  BY <1>1 DEF Keys
<1>5. Keys(kept \cup Without(vs, us)) \subseteq Keys(vs)
  BY <1>2, <1>3 DEF Keys
<1> QED
  BY <1>4, <1>5

(* A step that leaves the inbound, the limiter and the list alone.         *)
LEMMA ExactBystander ==
  ASSUME Exact, UNCHANGED <<tag, userList, inbounds, limiters>>,
         ctl' \in Serves => ctl \in Serves,
         \A m \in Monitors :
           \/ mon'[m] = mon[m]
           \/ /\ mon'[m].pc \notin {"delete", "add", "update"}
              /\ mon[m].pc \notin {"addusers", "add", "update"}
  PROVE  Exact'
<1>1. Serving(tag)' <=> Serving(tag)
  BY DEF Serving, Present, Limited
<1>2. ASSUME NEW m \in Monitors
      PROVE  MonitorApplies(m)'
  <2>1. CASE mon'[m] = mon[m]
    <3>1. Deleted(m)' = Deleted(m) /\ Added(m)' = Added(m)
      BY <2>1 DEF Deleted, Added
    <3> QED
      BY <1>1, <2>1, <3>1 DEF Exact, MonitorApplies
  <2>2. CASE mon'[m].pc \notin {"delete", "add", "update"}
    BY <2>2 DEF MonitorApplies
  <2> QED
    BY <2>1, <2>2
<1>3. ASSUME \A m \in Monitors : mon'[m].pc \notin {"addusers", "add", "update"}
      PROVE  \A m \in Monitors : mon[m].pc \notin {"addusers", "add", "update"}
  BY <1>3
<1> QED
  BY <1>1, <1>2, <1>3 DEF Exact

(* A state in which the controller's inbound is not there, or not limited. *)
LEMMA ExactAbsent ==
  ASSUME Exact, ctl' \in Serves => ~Serving(tag)',
         \A m \in Monitors :
           \/ mon'[m] = mon[m] /\ userList' = userList
           \/ mon'[m].pc \notin {"delete", "add", "update"}
  PROVE  Exact'
BY DEF Exact, MonitorApplies

LEMMA ExactStart ==
  ASSUME EInv, StartStep
  PROVE  ExactInv'
<1>0. /\ \A m \in Monitors : mon[m].pc = "gone"
      /\ Struct /\ Exact
  <2>1. ctl \in Starting \/ (ctl = "none" /\ listed = TRUE)
    BY DEF StartStep, StartNode, StartUsers, StartCert, StartAddNode,
           StartAddUsers, StartLimiter, StartTasks, Starting, EInv, SInv,
           Struct, TypeOK
  <2> QED
    BY <2>1 DEF EInv, SInv, ExactInv, Struct, Quiet
<1>1. userList' \in UserLists \cup {{}}
  BY DEF StartStep, StartNode, StartUsers, StartCert, StartAddNode,
         StartAddUsers, StartLimiter, StartTasks, fieldVars, EInv, ExactInv,
         SInv, Struct, TypeOK
<1>2. CASE ctl' \notin Serves
  <2>1. UNCHANGED mon
    BY <1>2
       DEF StartStep, StartNode, StartUsers, StartCert, StartAddNode,
           StartAddUsers, StartLimiter, StartTasks, Serves
  <2>2. Exact'
    BY <1>0, <1>2, <2>1, ExactAbsent
  <2> QED
    BY <1>1, <2>2 DEF ExactInv
<1>3. CASE ctl' \in Serves
  <2>1. CASE StartTasks
    <3>0. Spawn(mon) /\ mon \in [Monitors -> MonitorState] /\ chan \in Nat
      BY <1>0, <2>1 DEF StartTasks, Struct, TypeOK
    <3>1. \A n \in Monitors : mon'[n] = mon[n] \/ mon'[n].pc = "wait"
      BY <3>0, SpawnState
    <3>2. UNCHANGED <<tag, userList, inbounds, limiters>> /\ ctl \in Serves
      BY <2>1 DEF StartTasks, fieldVars, Serves
    <3>3. Exact'
      BY <1>0, <3>1, <3>2, ExactBystander
    <3> QED
      BY <1>1, <3>3 DEF ExactInv
  <2>2. CASE ~StartTasks
    <3>1. /\ ctl = "addusers" /\ UNCHANGED <<tag, userList, limiters, mon>>
          /\ inbounds' = [inbounds EXCEPT ![tag].users = @ \cup UuidsIn(userList)]
      BY <1>3, <2>2
         DEF StartStep, StartNode, StartUsers, StartCert, StartAddNode,
             StartAddUsers, StartLimiter, StartFails, fieldVars, Serves
    <3>2. tag \in Tags /\ inbounds[tag].users = {} /\ limiters[tag] = userList
      BY <1>0, <3>1 DEF Struct, Placed, Owning, EInv, SInv, Served, Filled
    <3>3. inbounds'[tag].users = UuidsIn(userList)
      BY <1>0, <3>1, <3>2 DEF Struct, TypeOK
    <3>4. \A m \in Monitors : MonitorApplies(m)'
      BY <1>0, <3>1 DEF MonitorApplies
    <3>5. Exact'
      BY <3>1, <3>2, <3>3, <3>4 DEF Exact
    <3> QED
      BY <1>1, <3>5 DEF ExactInv
  <2> QED
    BY <2>1, <2>2
<1> QED
  BY <1>2, <1>3

LEMMA ExactClose ==
  ASSUME EInv, CloseStep
  PROVE  ExactInv'
<1>0. /\ UNCHANGED <<mon, tag, userList, chan>> /\ tag \in Tags /\ Struct
      /\ ctl \in Serves
  BY DEF CloseStep, CloseLimiter, CloseTasks, CloseNode, EInv, SInv, Struct,
         Placed, Owning, fieldVars, taskVars, Serves
<1>1. CASE CloseLimiter \/ CloseNode
  <2>1. ~Serving(tag)'
    BY <1>0, <1>1
       DEF CloseLimiter, CloseNode, Struct, TypeOK, Serving, Present, Limited,
           NoInbound
  <2> QED
    BY <1>0, <2>1, ExactAbsent DEF EInv, ExactInv
<1>2. CASE CloseTasks
  <2>1. UNCHANGED <<inbounds, limiters>>
    BY <1>2 DEF CloseTasks
  <2> QED
    BY <1>0, <2>1, ExactBystander DEF EInv, ExactInv
<1> QED
  BY <1>1, <1>2 DEF CloseStep

(* The monitor asks, gives up, or deletes the inbound and has none yet.    *)
LEMMA ExactAsk ==
  ASSUME EInv, InboundInv', NEW m \in Monitors,
         \/ Stop(m) \/ Fetch(m) \/ FetchFails(m) \/ FetchUsers(m)
         \/ FetchUsersFails(m) \/ SameInterval(m) \/ NothingToDo(m)
         \/ DelNode(m) \/ NewLimiter(m) \/ (\E ok \in BOOLEAN : Cert(m, ok))
  PROVE  ExactInv'
<1>0. /\ TypeOK /\ UNCHANGED chan
      /\ mon[m].pc \notin {"gone", "addusers", "add", "update"}
  BY DEF EInv, SInv, Struct, Stop, Fetch, FetchFails, FetchUsers,
         FetchUsersFails, SameInterval, NothingToDo, DelNode, NewLimiter,
         Cert, taskVars
<1>1. /\ \/ Stop(m) /\ mon'[m].pc = "gone" /\ mon[m].pc = "wait"
         \/ mon'[m].pc \in {"wait", "user", "reload", "diff"} \cup Window
      /\ DelNode(m) \/ NewLimiter(m) => mon'[m].pc \in Window
      /\ Others(m)
  <2>1. CASE Stop(m)
    BY <1>0, <2>1, StopState DEF Stop, DelNode, NewLimiter
  <2>2. CASE Fetch(m) \/ FetchUsers(m)
    BY <1>0, <2>2, FetchState, FetchUsersState
       DEF Fetch, FetchUsers, DelNode, NewLimiter
  <2>3. CASE DelNode(m)
    BY <1>0, <2>3, GotoState DEF DelNode, GoesTo, Pcs, Window
  <2>4. CASE NewLimiter(m)
    BY <1>0, <2>4, GotoState DEF NewLimiter, GoesTo, Pcs, Window
  <2>5. CASE \/ FetchFails(m) \/ FetchUsersFails(m) \/ SameInterval(m)
             \/ NothingToDo(m) \/ (\E ok \in BOOLEAN : Cert(m, ok))
    <3>1. Done(m) \/ mon' = Goto(m, "addnode")
      BY <2>5 DEF FetchFails, FetchUsersFails, SameInterval, NothingToDo, Cert
    <3>2. ~DelNode(m) /\ ~NewLimiter(m)
      BY <2>5
         DEF FetchFails, FetchUsersFails, SameInterval, NothingToDo, Cert,
             DelNode, NewLimiter
    <3> QED
      BY <1>0, <3>1, <3>2, DoneState, GotoState
         DEF Returns, GoesTo, Pcs, Window
  <2> QED
    BY <2>1, <2>2, <2>3, <2>4, <2>5
<1>2. CASE DelNode(m) \/ NewLimiter(m)
  <2>1. userList' \in UserLists \cup {{}}
    BY <1>0, <1>2 DEF DelNode, NewLimiter, EInv, ExactInv, TypeOK, MonitorState
  <2>2. /\ tag' \in Tags => ~Present(tag)'
        /\ tag' \in Tags
    <3>1. \A t \in Tags : ~Present(t)'
      BY <1>1, <1>2 DEF InboundInv, OneReloads
    <3>2. tag \in Tags /\ mon[m].node \in NodeCfgs
      BY <1>2
         DEF DelNode, NewLimiter, EInv, SInv, Struct, Placed, Reloading
    <3> QED
      BY <1>2, <3>1, <3>2 DEF DelNode, NewLimiter, Tags
  <2>3. ASSUME chan <= 1
        PROVE  \A n \in Monitors \ {m} : mon[n].pc = "gone"
    BY <1>2, <2>3 DEF EInv, SInv, Alone, DelNode, NewLimiter
  <2>4. \A n \in Monitors \ {m} : mon'[n] = mon[n]
    BY <1>1 DEF Others
  <2>5. chan <= 1 => \A n \in Monitors : mon'[n].pc \notin {"delete", "add", "update"}
    BY <1>1, <1>2, <2>3, <2>4 DEF Window, DelNode, NewLimiter
  <2>6. chan <= 1 => Exact'
    BY <2>2, <2>5, ExactAbsent DEF Serving, EInv, ExactInv
  <2> QED
    BY <1>0, <2>1, <2>6 DEF ExactInv
<1>3. CASE ~DelNode(m) /\ ~NewLimiter(m)
  <2>1. UNCHANGED <<tag, userList, inbounds, limiters, ctl>>
    BY <1>3
       DEF Stop, Fetch, FetchFails, FetchUsers, FetchUsersFails, SameInterval,
           NothingToDo, Cert, fieldVars
  <2>2. \A n \in Monitors : \/ mon'[n] = mon[n]
                            \/ /\ mon'[n].pc \notin {"delete", "add", "update"}
                               /\ mon[n].pc \notin {"addusers", "add", "update"}
    BY <1>0, <1>1 DEF Others, Window
  <2>3. chan <= 1 => Exact'
    BY <2>1, <2>2, ExactBystander DEF EInv, ExactInv
  <2> QED
    BY <1>0, <2>1, <2>3 DEF EInv, ExactInv
<1> QED
  BY <1>2, <1>3

(* The monitor adds an inbound, or changes the users of the one there is;  *)
(* where the core has none it gives up.                                    *)
LEMMA ExactApply ==
  ASSUME EInv, TakesChanges, \A us \in UserLists : OnePerUuid(us),
         NEW m \in Monitors, chan <= 1,
         \/ AddNode(m) \/ AddAllUsers(m) \/ Compare(m)
         \/ DelUsers(m) \/ AddUsers(m) \/ UpdateUser(m)
  PROVE  Exact'
<1>0. /\ Struct /\ TypeOK /\ tag \in Tags /\ Exact /\ MonitorApplies(m)
      /\ MonitorServes(m) /\ mon[m].pc # "gone"
      /\ UNCHANGED <<ctl, tag>>
      /\ \A n \in Monitors \ {m} : mon[n].pc = "gone"
  BY DEF EInv, SInv, Struct, Alone, Served, ExactInv, Exact, Placed, AddNode,
         AddAllUsers, Compare, DelUsers, AddUsers, UpdateUser, fieldVars
<1>1. ASSUME Others(m)
      PROVE  \A n \in Monitors \ {m} : mon'[n].pc = "gone" /\ MonitorApplies(n)'
  BY <1>0, <1>1 DEF Others, MonitorApplies
<1>2. ASSUME ~Serving(tag), UNCHANGED <<inbounds, limiters>>, Done(m)
      PROVE  Exact'
  <2>1. Returns(m)
    BY <1>0, <1>2, DoneState
  <2>2. ~Serving(tag)'
    BY <1>0, <1>2 DEF Serving, Present, Limited
  <2>3. \A n \in Monitors : mon'[n].pc \notin {"delete", "add", "update"}
    BY <1>1, <2>1 DEF Returns
  <2> QED
    BY <1>0, <2>2, <2>3, ExactAbsent
<1>3. ASSUME NEW p \in Pcs, mon' = Goto(m, p)
      PROVE  /\ GoesTo(m, p) /\ Others(m) /\ mon'[m].pc = p
             /\ mon'[m].old = mon[m].old
             /\ Deleted(m)' = Deleted(m) /\ Added(m)' = Added(m)
  <2>1. GoesTo(m, p)
    BY <1>0, <1>3, GotoState
  <2> QED
    BY <2>1 DEF GoesTo, Deleted, Added
<1>4. CASE AddNode(m)
  <2>1. /\ mon[m].pc = "addnode" /\ UNCHANGED <<userList, limiters>>
        /\ mon' = Goto(m, "addusers")
        /\ inbounds' = [inbounds EXCEPT ![tag] = [cfg |-> mon[m].node, users |-> {}]]
    BY <1>4 DEF AddNode, fieldVars
  <2>2. mon'[m].pc = "addusers" /\ Others(m)
    BY <1>3, <2>1 DEF Pcs
  <2>3. Serving(tag)' => limiters'[tag'] = userList'
    BY <1>0, <2>1 DEF MonitorServes, Serving, Limited
  <2>4. \A n \in Monitors : MonitorApplies(n)'
    BY <1>1, <2>2 DEF MonitorApplies
  <2> QED
    BY <2>2, <2>3, <2>4 DEF Exact
<1>5. CASE AddAllUsers(m)
  <2>1. mon[m].pc = "addusers" /\ UNCHANGED <<userList, limiters>>
    BY <1>5 DEF AddAllUsers, fieldVars
  <2>2. CASE ~Present(tag)
    BY <1>2, <1>5, <2>2 DEF AddAllUsers, Serving
  <2>3. CASE Present(tag)
    <3>1. /\ mon' = Goto(m, "tasks")
          /\ inbounds' = [inbounds EXCEPT ![tag].users = @ \cup UuidsIn(userList)]
      BY <1>5, <2>3 DEF AddAllUsers, TakesChanges
    <3>2. mon'[m].pc = "tasks" /\ Others(m)
      BY <1>3, <3>1 DEF Pcs
    <3>3. inbounds'[tag].users = UuidsIn(userList)
      BY <1>0, <2>1, <3>1 DEF TypeOK, MonitorServes
    <3>4. Serving(tag)' => Serving(tag)
      BY <1>0, <2>1, <2>3 DEF Serving, Limited
    <3>5. \A n \in Monitors : MonitorApplies(n)'
      BY <1>1, <3>2 DEF MonitorApplies
    <3> QED
      BY <1>0, <2>1, <3>3, <3>4, <3>5 DEF Exact
  <2> QED
    BY <2>2, <2>3
<1>6. CASE Compare(m)
  <2>1. mon[m].pc = "diff" /\ UNCHANGED <<userList, inbounds, limiters>>
    BY <1>6 DEF Compare, fieldVars
  <2>2. Others(m) /\ mon'[m].pc = "delete" /\ mon'[m].old = userList
    BY <1>0, <1>6, CompareState
  <2>3. Serving(tag)' <=> Serving(tag)
    BY <1>0, <2>1 DEF Serving, Present, Limited
  <2>4. \A n \in Monitors : MonitorApplies(n)'
    BY <1>1, <2>1, <2>2 DEF MonitorApplies
  <2>5. \A n \in Monitors : mon[n].pc \notin {"addusers", "add", "update"}
    BY <1>0, <2>1
  <2> QED
    BY <1>0, <2>1, <2>3, <2>4, <2>5 DEF Exact
<1>7. CASE DelUsers(m)
  <2>1. mon[m].pc = "delete" /\ UNCHANGED <<userList, limiters>>
    BY <1>7 DEF DelUsers, fieldVars
  <2>2. CASE Deleted(m) # {} /\ ~Present(tag)
    BY <1>2, <1>7, <2>2 DEF DelUsers, Serving
  <2>3. CASE Deleted(m) = {} \/ Present(tag)
    <3>1. /\ mon' = Goto(m, "add")
          /\ \/ Deleted(m) = {} /\ UNCHANGED inbounds
             \/ inbounds' = [inbounds EXCEPT ![tag].users = @ \ UuidsIn(Deleted(m))]
      BY <1>7, <2>3 DEF DelUsers, TakesChanges
    <3>2. /\ mon'[m].pc = "add" /\ Others(m) /\ mon'[m].old = mon[m].old
          /\ Deleted(m)' = Deleted(m)
      BY <1>3, <3>1 DEF Pcs
    <3>3. inbounds'[tag].users = inbounds[tag].users \ UuidsIn(Deleted(m))
      BY <1>0, <3>1 DEF TypeOK, UuidsIn
    <3>4. Serving(tag)' => Serving(tag)
      BY <1>0, <2>1, <3>1 DEF Serving, Limited, Present, TypeOK
    <3>5. \A n \in Monitors : mon[n].pc \notin {"addusers", "add", "update"}
      BY <1>0, <2>1
    <3>6. MonitorApplies(m)'
      BY <1>0, <2>1, <3>2, <3>3, <3>4, <3>5 DEF Exact, MonitorApplies
    <3>7. \A n \in Monitors : MonitorApplies(n)'
      BY <1>1, <3>2, <3>6
    <3> QED
      BY <1>0, <2>1, <3>2, <3>4, <3>7 DEF Exact
  <2> QED
    BY <2>2, <2>3
<1>8. CASE AddUsers(m)
  <2>1. mon[m].pc = "add" /\ UNCHANGED <<userList, limiters>>
    BY <1>8 DEF AddUsers, fieldVars
  <2>2. CASE Added(m) # {} /\ ~Present(tag)
    BY <1>2, <1>8, <2>2 DEF AddUsers, Serving
  <2>3. CASE Added(m) = {} \/ Present(tag)
    <3>1. /\ mon' = Goto(m, "update")
          /\ \/ Added(m) = {} /\ UNCHANGED inbounds
             \/ inbounds' = [inbounds EXCEPT ![tag].users = @ \cup UuidsIn(Added(m))]
      BY <1>8, <2>3 DEF AddUsers, TakesChanges
    <3>2. /\ mon'[m].pc = "update" /\ Others(m) /\ mon'[m].old = mon[m].old
          /\ Deleted(m)' = Deleted(m) /\ Added(m)' = Added(m)
      BY <1>3, <3>1 DEF Pcs
    <3>3. inbounds'[tag].users = inbounds[tag].users \cup UuidsIn(Added(m))
      BY <1>0, <3>1 DEF TypeOK, UuidsIn
    <3>4. Serving(tag)' => Serving(tag)
      BY <1>0, <2>1, <3>1 DEF Serving, Limited, Present, TypeOK
    <3>5. MonitorApplies(m)'
      BY <1>0, <2>1, <3>2, <3>3, <3>4 DEF MonitorApplies
    <3>6. \A n \in Monitors : MonitorApplies(n)'
      BY <1>1, <3>2, <3>5
    <3> QED
      BY <1>0, <2>1, <3>2, <3>4, <3>6 DEF Exact
  <2> QED
    BY <2>2, <2>3
<1>9. CASE UpdateUser(m)
  <2> DEFINE vs == mon[m].users
             gone == UuidsIn(Without(userList, vs)) \cup UuidsIn(Without(vs, userList))
             kept == {u \in limiters[tag] : u.uuid \notin gone}
  <2>1. /\ mon[m].pc = "update" /\ userList' = vs /\ UNCHANGED inbounds
        /\ mon[m].old = userList
    BY <1>0, <1>9 DEF UpdateUser, MonitorApplies
  <2>2. Deleted(m) = Without(userList, vs) /\ Added(m) = Without(vs, userList)
    BY <2>1 DEF Deleted, Added
  <2>3. /\ OnePerUuid(userList) /\ OnePerUuid(vs)
    BY <1>0, <2>1 DEF Struct, Placed, EInv, ExactInv, OnePerUuid
  <2>4. Returns(m)
    BY <1>0, <1>9, DoneState DEF UpdateUser
  <2>5. limiters' = [limiters EXCEPT ![tag] =
            IF Limited(tag) THEN kept \cup Without(vs, userList) ELSE @]
    BY <1>9, <2>2 DEF UpdateUser
  <2>6. \A n \in Monitors : mon'[n].pc \notin {"delete", "add", "update"}
    BY <1>1, <2>4 DEF Returns
  <2>7. ASSUME Serving(tag)', ctl' \in Serves
        PROVE  /\ Keys(limiters'[tag]) = Keys(vs)
               /\ inbounds'[tag].users = UuidsIn(vs)
    <3>1. /\ Serving(tag)
          /\ limiters'[tag] = kept \cup Without(vs, userList)
      <4> HIDE DEF kept
      <4> QED
        BY <1>0, <2>1, <2>5, <2>7 DEF TypeOK, Serving, Present, Limited
    <3>2. Keys(limiters[tag]) = Keys(userList)
      BY <1>0, <2>7, <3>1 DEF Exact
    <3>3. Keys(limiters'[tag]) = Keys(vs)
      BY <2>3, <3>1, <3>2, KeysApplied
    <3>4. inbounds[tag].users =
            (UuidsIn(userList) \ UuidsIn(Without(userList, vs)))
               \cup UuidsIn(Without(vs, userList))
      BY <1>0, <2>1, <2>2, <2>7, <3>1 DEF MonitorApplies
    <3>5. inbounds[tag].users = UuidsIn(vs)
      BY <2>3, <3>4, UuidsApplied
    <3> QED
      BY <2>1, <3>3, <3>5
  <2> HIDE DEF vs
  <2> QED
    BY <1>0, <2>1, <2>6, <2>7 DEF Exact, MonitorApplies
<1> QED
  BY <1>4, <1>5, <1>6, <1>7, <1>8, <1>9

LEMMA ExactStep ==
  ASSUME EInv, [Next]_vars, TakesChanges, \A us \in UserLists : OnePerUuid(us)
  PROVE  EInv'
<1>0. "startusers" \notin Faults
  BY DEF TakesChanges
<1>1. SInv' /\ InboundInv'
  BY <1>0, ServedStep, InboundStep DEF EInv, SInv, IInv
<1>2. ASSUME NEW m \in Monitors, MonitorStep(m)
      PROVE  ExactInv'
  <2>1. CASE Panic
    <3>1. /\ ctl' = "none" /\ userList' = {}
          /\ \A n \in Monitors : mon'[n].pc = "gone"
      BY <2>1 DEF Panic, Gone
    <3> QED
      BY <3>1 DEF ExactInv, Exact, Serves, MonitorApplies
  <2>2. CASE NewInterval(m)
    <3>1. /\ chan' = chan + 1 /\ chan \in Nat /\ chan # 0
          /\ UNCHANGED userList
      BY <2>2, IntervalState
         DEF NewInterval, fieldVars, EInv, SInv, Struct, TypeOK, Alone
    <3> QED
      BY <3>1 DEF EInv, ExactInv
  <2>3. CASE \/ AddNode(m) \/ AddAllUsers(m) \/ Compare(m)
             \/ DelUsers(m) \/ AddUsers(m) \/ UpdateUser(m)
    <3>1. UNCHANGED chan /\ userList' \in UserLists \cup {{}}
      BY <2>3
         DEF AddNode, AddAllUsers, Compare, DelUsers, AddUsers, UpdateUser,
             taskVars, fieldVars, EInv, ExactInv, SInv, Struct, Placed
    <3>2. chan <= 1 => Exact'
      BY <2>3, ExactApply
    <3> QED
      BY <3>1, <3>2 DEF ExactInv
  <2> QED
    BY <1>1, <1>2, <2>1, <2>2, <2>3, ExactAsk
       DEF MonitorStep, Reload, Diff, DelNodePanics, AddNodePanics, WrongType
<1>3. ASSUME PanelStep \/ Restart \/ UNCHANGED vars
      PROVE  ExactInv'
  <2>1. UNCHANGED <<tag, userList, inbounds, limiters, ctl, mon, chan>>
    BY <1>3
       DEF PanelStep, ChangeNode, ChangeUsers, Unlist, Restart, fieldVars,
           taskVars, vars
  <2> QED
    BY <2>1, ExactBystander DEF EInv, ExactInv
<1>4. ExactInv'
  BY <1>2, <1>3, ExactStart, ExactClose DEF Next
<1> QED
  BY <1>1, <1>4 DEF EInv

(* A node whose core takes every change of its users lets in, between two  *)
(* runs of its one monitor, exactly the users of its controller's list,    *)
(* each with his speed limit, whatever requests, certificates and inbounds *)
(* failed and whatever lists came before (addUsers, compareUserList and    *)
(* UpdateUser); the panel lists a uuid once.                               *)
THEOREM ListIsServed ==
  ASSUME TakesChanges, \A us \in UserLists : OnePerUuid(us)
  PROVE  Spec => []ServesItsList
<1>1. Init => EInv
  <2>1. ASSUME Init
        PROVE  /\ ctl = "none" /\ userList = {}
               /\ \A m \in Monitors : mon[m].pc = "gone"
    BY <2>1 DEF Init, FreshProcess, Gone
  <2>2. ASSUME Init
        PROVE  SInv /\ InboundInv
    BY <2>2, ServedInit, InboundInit DEF IInv
  <2> QED
    BY <2>1, <2>2 DEF EInv, ExactInv, Exact, Serves, MonitorApplies
<1>2. EInv /\ [Next]_vars => EInv'
  BY ExactStep
<1>3. EInv => ServesItsList
  BY DEF EInv, ExactInv, Exact, ServesItsList, Idle, Serves
<1> QED
  BY <1>1, <1>2, <1>3, PTL DEF Spec
-----------------------------------------------------------------------------
(* What the node has come to run, it keeps: no hypothesis on the faults    *)
(* nor on how many goroutines run the monitor.                             *)

(* The node runs what the panel says, and the client has seen it: every    *)
(* request under way got the answer that nothing is new.                   *)
Settled ==
  /\ Applied /\ listed
  /\ nodeSeen = panelNode /\ userSeen = panelUsers
  /\ \A m \in Monitors :
       /\ mon[m].pc \in {"gone", "wait", "user", "diff", "tasks"}
       /\ mon[m].pc \in {"user", "diff"} => mon[m].node = None
       /\ mon[m].pc = "diff" => mon[m].users = None

NothingNew == UNCHANGED <<panelNode, panelUsers, listed>>

KeepsSettled == Settled /\ NothingNew => Settled'

(* The list that was seen already is no list.                              *)
LEMMA SameUsers ==
  ASSUME TypeOK, NEW m \in Monitors, FetchUsers(m), panelUsers = userSeen
  PROVE  mon'[m].users = None
<1> DEFINE p == IF mon[m].node # None THEN "reload" ELSE "diff"
           s == [mon[m] EXCEPT !.users = None, !.pc = p]
<1>1. mon \in [Monitors -> MonitorState]
  BY DEF TypeOK
<1>2. s.users = None
  BY <1>1 DEF MonitorState
<1>3. mon' = [mon EXCEPT ![m] = s]
  BY <1>1 DEF FetchUsers
<1> HIDE DEF s
<1> QED
  BY <1>1, <1>2, <1>3

LEMMA SettledStep ==
  ASSUME Struct, Settled, NothingNew, [Next]_vars
  PROVE  Settled'
<1>0. TypeOK /\ ctl = "up" /\ listed
  BY DEF Struct, Settled, Applied
<1>1. ASSUME UNCHANGED <<ctl, tag, inbounds, limiters, nodeSeen, userSeen>>,
             \A m \in Monitors :
               /\ mon'[m].pc \in {"gone", "wait", "user", "diff", "tasks"}
               /\ mon'[m].pc \in {"user", "diff"} => mon'[m].node = None
               /\ mon'[m].pc = "diff" => mon'[m].users = None
      PROVE  Settled'
  <2>1. Applied'
    BY <1>1 DEF NothingNew, Settled, Applied
  <2> QED
    BY <1>1, <2>1 DEF NothingNew, Settled
<1>2. ASSUME NEW m \in Monitors, MonitorStep(m)
      PROVE  Settled'
  <2>0. /\ mon[m].pc \in {"gone", "wait", "user", "diff", "tasks"}
        /\ mon[m].pc \in {"user", "diff"} => mon[m].node = None
        /\ mon[m].pc = "diff" => mon[m].users = None
    BY DEF Settled
  <2>1. \/ Stop(m) \/ Fetch(m) \/ FetchUsers(m) \/ NewInterval(m)
        \/ FetchFails(m) \/ FetchUsersFails(m) \/ NothingToDo(m)
        \/ SameInterval(m)
    BY <1>2, <2>0
       DEF MonitorStep, Reload, Diff, DelNode, DelNodePanics, NewLimiter,
           Cert, AddNode, AddNodePanics, AddAllUsers, Compare, DelUsers,
           AddUsers, UpdateUser, WrongType
  <2>2. UNCHANGED <<ctl, tag, inbounds, limiters, nodeSeen, userSeen>>
    BY <2>1
       DEF Stop, Fetch, GetNodeInfo, FetchUsers, NewInterval, FetchFails,
           FetchUsersFails, NothingToDo, SameInterval, fieldVars, clientVars,
           Settled
  <2>3. ASSUME NEW n \in Monitors
        PROVE  /\ mon'[n].pc \in {"gone", "wait", "user", "diff", "tasks"}
               /\ mon'[n].pc \in {"user", "diff"} => mon'[n].node = None
               /\ mon'[n].pc = "diff" => mon'[n].users = None
    <3>1. \/ mon'[n] = mon[n]
          \/ mon'[n].pc \in {"gone", "wait"}
          \/ mon'[n].pc = "user" /\ mon'[n].node = None
          \/ mon'[n].pc = "diff" /\ mon'[n].node = None /\ mon'[n].users = None
      <4>1. CASE Stop(m)
        BY <1>0, <4>1, StopState DEF Others
      <4>2. CASE Fetch(m)
        BY <1>0, <4>2, FetchState DEF Others, Settled
      <4>3. CASE FetchUsers(m)
        <5>1. mon[m].pc = "user" /\ mon[m].node = None /\ panelUsers = userSeen
          BY <2>0, <4>3 DEF FetchUsers, Settled
        <5> QED
          BY <1>0, <4>3, <5>1, FetchUsersState, SameUsers DEF Others
      <4>4. CASE NewInterval(m)
        BY <1>0, <4>4, IntervalState
      <4>5. CASE \/ FetchFails(m) \/ FetchUsersFails(m) \/ NothingToDo(m)
                 \/ SameInterval(m)
        <5>1. Done(m)
          BY <4>5 DEF FetchFails, FetchUsersFails, NothingToDo, SameInterval
        <5> QED
          BY <1>0, <5>1, DoneState DEF Returns, Others
      <4> QED
        BY <2>1, <4>1, <4>2, <4>3, <4>4, <4>5
    <3>2. /\ mon[n].pc \in {"gone", "wait", "user", "diff", "tasks"}
          /\ mon[n].pc \in {"user", "diff"} => mon[n].node = None
          /\ mon[n].pc = "diff" => mon[n].users = None
      BY DEF Settled
    <3> QED
      BY <3>1, <3>2
  <2> QED
    BY <1>1, <2>2, <2>3
<1>3. ASSUME Restart \/ UNCHANGED vars
      PROVE  Settled'
  <2>1. UNCHANGED <<ctl, tag, inbounds, limiters, nodeSeen, userSeen, mon>>
    BY <1>3 DEF Restart, vars, clientVars, fieldVars
  <2> QED
    BY <1>1, <2>1 DEF Settled
<1>4. ~PanelStep /\ ~StartStep /\ ~CloseStep
  BY <1>0
     DEF NothingNew, PanelStep, ChangeNode, ChangeUsers, Unlist, StartStep,
         StartNode, StartUsers, StartLimiter, StartCert, StartAddNode,
         StartAddUsers, StartTasks, CloseStep, CloseLimiter, CloseTasks,
         CloseNode
<1> QED
  BY <1>2, <1>3, <1>4 DEF Next

(* The safety half of Converges: while the panel changes nothing, a node   *)
(* that runs what it says, and whose client has seen that, keeps running   *)
(* it, whichever requests fail and however often the task is restarted     *)
(* (GetNodeInfo and GetUserList, which answer nil for what was seen).      *)
THEOREM SettledStays == Spec => [][KeepsSettled]_vars
<1>1. Struct /\ [Next]_vars => [KeepsSettled]_vars
  BY SettledStep DEF KeepsSettled
<1> QED
  BY <1>1, StructInvariance, PTL DEF Spec
-----------------------------------------------------------------------------
(* What a running node loses its inbound by: no hypothesis on the faults   *)
(* nor on how many goroutines run the monitor.                             *)

(* The inbound is there, or a monitor is on its way to adding it.          *)
HasOrMakes ==
  ctl \in {"addusers", "tasks"} \cup Started =>
    Present(tag) \/ \E m \in Monitors : mon[m].pc \in Window

LosesByCert == HasOrMakes => HasOrMakes' \/ \E m \in Monitors : Cert(m, FALSE)

LEMMA HasOrMakesStep ==
  ASSUME Struct, HasOrMakes, [Next]_vars,
         \A m \in Monitors : ~Cert(m, FALSE)
  PROVE  HasOrMakes'
<1>0. TypeOK
  BY DEF Struct
<1>1. CASE PanelStep \/ Restart \/ UNCHANGED vars
  <2>1. UNCHANGED <<ctl, tag, mon, inbounds>>
    BY <1>1 DEF PanelStep, ChangeNode, ChangeUsers, Unlist, Restart, vars,
                fieldVars
  <2> QED
    BY <2>1 DEF HasOrMakes, Present
<1>2. CASE StartStep
  <2>1. \/ ctl' \notin {"addusers", "tasks"} \cup Started
        \/ \E ok \in BOOLEAN : StartAddNode(ok) /\ ctl' = "addusers"
        \/ \E ok \in BOOLEAN : StartAddUsers(ok) /\ ctl' = "tasks"
        \/ StartTasks
    BY <1>2 DEF StartStep, StartNode, StartUsers, StartLimiter, StartCert,
                StartAddNode, StartAddUsers, StartFails, Started
  <2>2. ASSUME NEW ok \in BOOLEAN, StartAddNode(ok), ctl' = "addusers"
        PROVE  HasOrMakes'
    <3>1. /\ tag \in Tags /\ info \in NodeCfgs /\ tag' = tag
          /\ inbounds' = [inbounds EXCEPT ![tag] = [cfg |-> info, users |-> {}]]
      BY <2>2 DEF StartAddNode, StartFails, Struct, Placed, Owning, fieldVars
    <3>2. inbounds'[tag].cfg = info /\ info # None
      BY <1>0, <3>1, ControllerAssumption DEF TypeOK
    <3> QED
      BY <3>1, <3>2 DEF HasOrMakes, Present
  <2>3. ASSUME \/ StartTasks
               \/ \E ok \in BOOLEAN : StartAddUsers(ok) /\ ctl' = "tasks"
        PROVE  HasOrMakes'
    <3>1. /\ tag' = tag /\ tag \in Tags /\ ctl \in {"addusers", "tasks"}
          /\ \/ UNCHANGED inbounds
             \/ \E us : inbounds' = [inbounds EXCEPT ![tag].users = us]
      BY <2>3 DEF StartTasks, StartAddUsers, StartFails, fieldVars, Struct,
                  Placed, Owning
    <3>2. \A us : [inbounds EXCEPT ![tag].users = us]
                    = [inbounds EXCEPT ![tag] = [@ EXCEPT !.users = us]]
      OBVIOUS
    <3>3. inbounds'[tag].cfg = inbounds[tag].cfg
      BY <1>0, <3>1, <3>2 DEF TypeOK
    <3>4. \A m \in Monitors : mon[m].pc = "gone"
      BY <3>1 DEF Struct, Quiet, Starting
    <3>5. Present(tag)
      BY <3>1, <3>4 DEF HasOrMakes, Window
    <3> QED
      BY <3>1, <3>3, <3>5 DEF HasOrMakes, Present
  <2> QED
    BY <2>1, <2>2, <2>3 DEF HasOrMakes
<1>3. CASE CloseStep
  <2>1. /\ UNCHANGED <<tag, mon>> /\ ctl \in Started
        /\ UNCHANGED inbounds \/ (CloseNode /\ ctl' = "none")
             \/ (CloseNode /\ ctl' = "up" /\ ~Present(tag))
    BY <1>3 DEF CloseStep, CloseLimiter, CloseTasks, CloseNode, fieldVars,
                Started
  <2>2. CASE CloseNode /\ ctl' = "up" /\ ~Present(tag)
    BY <2>1, <2>2 DEF HasOrMakes
  <2>3. CASE UNCHANGED inbounds
    BY <2>1, <2>3 DEF HasOrMakes, Present
  <2> QED
    BY <2>1, <2>2, <2>3 DEF HasOrMakes, Started
<1>4. ASSUME Panic
      PROVE  HasOrMakes'
  BY <1>4 DEF Panic, HasOrMakes, Started
<1>5. ASSUME NEW m \in Monitors, Asks(m)
      PROVE  HasOrMakes'
  <2>1. /\ \A n \in Monitors : mon[n].pc \in Window => mon'[n] = mon[n]
        /\ UNCHANGED <<tag, ctl>>
        /\ \A t \in Tags : inbounds'[t].cfg = inbounds[t].cfg
    BY <1>5, AskKeeps
  <2>2. ctl \in {"addusers", "tasks"} \cup Started => tag \in Tags
    BY DEF Struct, Placed, Owning, Started
  <2> QED
    BY <2>1, <2>2 DEF HasOrMakes, Present
<1>6. ASSUME NEW m \in Monitors,
             \/ DelNode(m) \/ NewLimiter(m) \/ (\E ok \in BOOLEAN : Cert(m, ok))
      PROVE  HasOrMakes'
  <2>1. \E p \in Window : mon' = Goto(m, p)
    BY <1>6 DEF DelNode, NewLimiter, Cert, Window
  <2>2. mon'[m].pc \in Window
    BY <1>0, <2>1, GotoState DEF GoesTo, Window, Pcs
  <2> QED
    BY <2>2 DEF HasOrMakes
<1>7. ASSUME NEW m \in Monitors, AddNode(m)
      PROVE  HasOrMakes'
  <2>1. /\ tag' = tag /\ tag \in Tags /\ mon[m].node \in NodeCfgs
        /\ inbounds' = [inbounds EXCEPT ![tag] =
                          [cfg |-> mon[m].node, users |-> {}]]
    BY <1>7 DEF AddNode, Struct, Placed, Reloading, fieldVars
  <2>2. inbounds'[tag].cfg = mon[m].node /\ mon[m].node # None
    BY <1>0, <2>1, ControllerAssumption DEF TypeOK
  <2> QED
    BY <2>1, <2>2 DEF HasOrMakes, Present
<1> QED
  BY <1>1, <1>2, <1>3, <1>4, <1>5, <1>6, <1>7
     DEF Next, MonitorStep, Reload, Diff, DelNodePanics, AddNodePanics,
         WrongType, Asks

(* A node loses its inbound for more than the length of a reload by one    *)
(* step only, the failing requestCert of nodeInfoMonitor: no other failed  *)
(* request, no failed change of the users, and no Close that comes in      *)
(* between leaves a node that goes on without one.                         *)
THEOREM OnlyCertTakesInbound == Spec => [][LosesByCert]_vars
<1>1. Struct /\ [Next]_vars => [LosesByCert]_vars
  BY HasOrMakesStep DEF LosesByCert
<1> QED
  BY <1>1, StructInvariance, PTL DEF Spec

(* So, where certificates are always obtained, a node that is up has an    *)
(* inbound whenever its monitors rest, whatever else fails.  (With failing *)
(* certificates it need not.)                                              *)
THEOREM UpWithCerts == ASSUME "cert" \notin Faults PROVE Spec => []NodeUp
<1>1. Init => HasOrMakes
  BY DEF Init, FreshProcess, HasOrMakes, Started
<1>2. Struct /\ HasOrMakes /\ [Next]_vars => HasOrMakes'
  BY HasOrMakesStep DEF Cert
<1>3. HasOrMakes => NodeUp
  BY DEF HasOrMakes, NodeUp, Idle, Started, Window
<1> QED
  BY <1>1, <1>2, <1>3, StructInvariance, PTL DEF Spec
=============================================================================
