----------------------------- MODULE NodeProofs -----------------------------
(***************************************************************************)
(* Controller implements Node, for any configurations and user lists: the  *)
(* initial states map to initial states and every step to a step of Node   *)
(* or to none.  As long as there is one monitor, the response it works on  *)
(* is the latest there was, later in the panel's history than the one the  *)
(* inbound was made from (Pending).                                        *)
(***************************************************************************)
EXTENDS ControllerNode, ControllerProofs

Active == ctl # "none" \/ \E m \in Monitors : mon[m].pc # "gone"
InHand == {"user", "reload", "limiter", "cert", "addnode"}

(* The history of the panel, and the places in it.                         *)
Asking ==
  /\ asked \in Seq(NodeCfgs) /\ Len(asked) \in Nat /\ Len(asked) > 0
  /\ asked[Len(asked)] = panelNode
  /\ fetched \in 0..Len(asked) /\ newest \in 0..fetched

(* What the goroutine m has in hand is newer than what the inbound runs,   *)
(* and it has the latest response in hand or has applied it.               *)
HasNewer(m) ==
  /\ mon[m].pc \in {"gone", "wait"} => mon[m].node = None
  /\ mon[m].pc # "gone" => newest # 0
  /\ mon[m].pc \in InHand /\ mon[m].node # None =>
       /\ mon[m].node = asked[fetched] /\ fetched > newest
       /\ Losing \/ asked[fetched] # asked[newest]
  /\ mon[m].pc # "gone" /\ ~(mon[m].pc \in InHand /\ mon[m].node # None) =>
       Losing \/ newest = fetched

Pending ==
  /\ Active => /\ fetched # 0
               /\ fetched = Len(asked) => nodeSeen = panelNode
               /\ Losing \/ nodeSeen = asked[fetched]
  /\ ctl \in {"user", "limiter"} => nodeSeen = asked[fetched]
  /\ ctl \in {"cert", "addnode"} => info = asked[fetched]
  /\ ctl \in {"addusers", "tasks"} => newest = fetched
  /\ \A m \in Monitors : HasNewer(m)

(* The inbound is there from AddNode on.                                   *)
AddedFirst == ctl \in {"addusers", "tasks"} => Present(tag)

(* A Start whose AddUsers fails leaves an inbound that is nobody's: the    *)
(* next Start, or a reload, of its type replaces it.  But when a reload    *)
(* back to its tag ends for want of a certificate it is run again, and a   *)
(* Close in the middle of that reload deletes it and lets the controller   *)
(* go before AddNode: RunsForward is false then.                           *)
Replaced == "startusers" \in Faults => "cert" \notin Faults /\ MayUnlist = FALSE

BInv ==
  /\ Struct /\ Alone
  /\ "startusers" \notin Faults => InboundInv
  /\ "startusers" \in Faults => listed = TRUE /\ AddedFirst

NInv == BInv /\ Asking /\ Pending

-----------------------------------------------------------------------------
(* What is kept of the inbound, when it need not be the only one.          *)
LEMMA AddedFirstStep ==
  ASSUME Struct, AddedFirst, Struct', Next
  PROVE  AddedFirst'
<1> SUFFICES ASSUME ctl' \in {"addusers", "tasks"}
             PROVE  Present(tag)'
  BY DEF AddedFirst
<1>1. CASE PanelStep \/ Restart \/ UNCHANGED vars
  BY <1>1
     DEF PanelStep, Restart, ChangeNode, ChangeUsers, Unlist, fieldVars,
         AddedFirst, Present, vars
<1>2. CASE StartStep
  <2>1. PICK ok \in BOOLEAN : StartAddNode(ok) \/ StartAddUsers(ok)
    BY <1>2
       DEF StartStep, StartNode, StartUsers, StartLimiter, StartCert,
           StartTasks, StartFails
  <2>2. /\ tag' = tag /\ tag \in Tags /\ info # None
        /\ inbounds'[tag].cfg \in {info, inbounds[tag].cfg}
        /\ inbounds'[tag].cfg = info \/ ctl = "addusers"
    BY <2>1, ControllerAssumption
       DEF StartAddNode, StartAddUsers, StartFails, fieldVars, Struct, TypeOK,
           Placed, Owning
  <2> QED
    BY <2>2 DEF AddedFirst, Present
<1>3. CASE CloseStep
  BY <1>3 DEF CloseStep, CloseLimiter, CloseTasks, CloseNode
<1>4. ASSUME NEW m \in Monitors, MonitorStep(m)
      PROVE  FALSE
  <2>0. TypeOK /\ ~Panic
    BY DEF Panic, Struct
  <2>1. mon[m].pc # "gone" /\ ctl' = ctl
    BY <1>4, <2>0, MonitorMoves DEF NewInterval
  <2> QED
    BY <2>1 DEF Struct, Quiet, Starting
<1> QED
  BY <1>1, <1>2, <1>3, <1>4 DEF Next

LEMMA BaseStep ==
  ASSUME BInv, [Next]_vars, Replaced
  PROVE  BInv'
<1>1. Struct' /\ Alone'
  BY StructStep, AloneStep DEF BInv
<1>2. CASE "startusers" \notin Faults
  BY <1>1, <1>2, InboundStep DEF BInv, IInv
<1>3. CASE "startusers" \in Faults
  <2>1. listed' = TRUE
    <3>1. UNCHANGED listed \/ Unlist
      BY DEF Next, PanelStep, Restart, ChangeNode, ChangeUsers, panelVars,
             vars, StartStep, StartNode, StartUsers, StartCert, StartAddNode,
             StartAddUsers, StartLimiter, StartTasks, CloseStep,
             CloseLimiter, CloseTasks, CloseNode, MonitorStep, Stop, Fetch,
             FetchFails, FetchUsers, FetchUsersFails, Reload, DelNode,
             DelNodePanics, NewLimiter, Cert, AddNode, AddNodePanics,
             AddAllUsers, NewInterval, SameInterval, Diff, NothingToDo,
             Compare, DelUsers, AddUsers, UpdateUser, WrongType, Panic
    <3> QED
      BY <1>3, <3>1 DEF Replaced, Unlist, BInv
  <2>2. AddedFirst'
    <3>1. CASE Next
      BY <1>1, <1>3, <3>1, AddedFirstStep DEF BInv
    <3>2. CASE UNCHANGED vars
      BY <1>3, <3>2 DEF BInv, AddedFirst, Present, vars, fieldVars
    <3> QED
      BY <3>1, <3>2
  <2> QED
    BY <1>1, <1>3, <2>1, <2>2 DEF BInv
<1> QED
  BY <1>2, <1>3

(* A goroutine that deletes or adds the inbound does it for a node that is *)
(* up; when there may be no certificate, it has deleted it.                *)
LEMMA Owned ==
  ASSUME BInv, Replaced, NEW m \in Monitors, mon[m].pc # "gone"
  PROVE  /\ mon[m].pc \in Window \/ Present(tag) => ctl \in Started
         /\ mon[m].pc = "cert" => "cert" \notin Faults \/ ~Present(tag)
<1>1. /\ ctl \notin Starting /\ (ctl = "none" => listed # TRUE)
      /\ tag \in Tags
  BY DEF BInv, Struct, Quiet, Placed
<1>2. ctl \in Started \/ ctl = "none"
  BY <1>1 DEF BInv, Struct, TypeOK, Started, Starting
<1>3. CASE "startusers" \notin Faults
  BY <1>1, <1>2, <1>3
     DEF BInv, InboundInv, OwnInbound, OneReloads, Window
<1>4. CASE "startusers" \in Faults
  BY <1>1, <1>2, <1>4 DEF BInv, Replaced
<1> QED
  BY <1>3, <1>4

-----------------------------------------------------------------------------
(* A step that asks for nothing new and makes no inbound leaves the        *)
(* history as it is.                                                       *)
LEMMA HistoryAside ==
  ASSUME Pending, History, panelNode' = panelNode, ctl' # "user" \/ ctl = "user",
         ctl' # "addusers" \/ ctl = "addusers",
         \A n \in Monitors : \/ mon'[n] = mon[n]
                             \/ mon[n].pc = "wait" => mon'[n].node = None,
         \A n \in Monitors : mon[n].pc = "addnode" => mon'[n].pc # "addusers"
  PROVE  UNCHANGED historyVars
<1>1. ~Fetching
  BY DEF Fetching, Pending, HasNewer
<1>2. ~Adding
  BY DEF Adding
<1> QED
  BY <1>1, <1>2 DEF History, historyVars

(* A step of the goroutine m.                                              *)
LEMMA MonitorHistory ==
  ASSUME NInv, History, NEW m \in Monitors, mon[m].pc # "gone", Others(m),
         UNCHANGED <<panelNode, ctl>>
  PROVE  /\ asked' = asked
         /\ fetched' = IF mon[m].pc = "wait" /\ mon'[m].node # None
                       THEN Len(asked) ELSE fetched
         /\ newest' = IF mon[m].pc = "addnode" /\ mon'[m].pc = "addusers"
                      THEN fetched ELSE newest
<1>1. Fetching <=> mon[m].pc = "wait" /\ mon'[m].node # None
  BY DEF Fetching, Others, NInv, Pending, HasNewer
<1>2. Adding <=> mon[m].pc = "addnode" /\ mon'[m].pc = "addusers"
  BY DEF Adding, Others
<1> QED
  BY <1>1, <1>2 DEF History

LEMMA MonitorPending ==
  ASSUME NInv, NEW m \in Monitors, mon[m].pc # "gone", Others(m), chan <= 1,
         UNCHANGED <<panelNode, ctl, asked>>,
         /\ fetched' # 0
         /\ fetched' = Len(asked) => nodeSeen' = panelNode
         /\ Losing \/ nodeSeen' = asked[fetched'],
         HasNewer(m)'
  PROVE  Pending'
<1>1. ctl \notin Starting
  BY DEF NInv, BInv, Struct, Quiet
<1>2. ASSUME NEW n \in Monitors \ {m}
      PROVE  HasNewer(n)'
  <2>1. mon'[n].pc = "gone" /\ mon'[n].node = None
    BY DEF NInv, Pending, HasNewer, BInv, Alone, Others
  <2> QED
    BY <2>1 DEF HasNewer, InHand
<1> QED
  BY <1>1, <1>2 DEF Pending, Starting

LEMMA AskingStep ==
  ASSUME NInv, History, panelNode' \in NodeCfgs
  PROVE  Asking'
<1>1. /\ asked \in Seq(NodeCfgs) /\ Len(asked) \in Nat /\ Len(asked) > 0
      /\ asked[Len(asked)] = panelNode
      /\ fetched \in 0..Len(asked) /\ newest \in 0..fetched
  BY DEF NInv, Asking
<1>2. /\ asked' \in Seq(NodeCfgs) /\ Len(asked') \in Nat
      /\ Len(asked') >= Len(asked) /\ asked'[Len(asked')] = panelNode'
  <2>1. CASE panelNode' = panelNode
    BY <1>1, <2>1 DEF History
  <2>2. CASE panelNode' # panelNode
    <3>1. asked' = Append(asked, panelNode')
      BY <2>2 DEF History
    <3> QED
      BY <1>1, <3>1
  <2> QED
    BY <2>1, <2>2
<1>3. fetched' \in {fetched, Len(asked)} /\ newest' \in {newest, fetched}
  BY DEF History
<1>4. fetched' \in 0..Len(asked') /\ newest' \in 0..fetched'
  BY <1>1, <1>2, <1>3
<1> QED
  BY <1>1, <1>2, <1>4 DEF Asking

-----------------------------------------------------------------------------
(* Pending is kept, by the panel, the process, Start and Close ...         *)
LEMMA PendingPanel ==
  ASSUME NInv, History, PanelStep \/ Restart \/ UNCHANGED vars
  PROVE  Pending'
<1>1. UNCHANGED <<ctl, mon, info, nodeSeen>>
  BY DEF PanelStep, Restart, ChangeNode, ChangeUsers, Unlist, vars, fieldVars,
         clientVars
<1>2. UNCHANGED <<fetched, newest>>
  BY <1>1 DEF History, Fetching, Adding, NInv, Pending, HasNewer
<1>3. /\ asked' = asked \/ asked' = Append(asked, panelNode')
      /\ asked' = asked => panelNode' = panelNode
  BY DEF History, NInv, Asking
<1>4. /\ fetched # 0 => asked'[fetched'] = asked[fetched]
      /\ newest # 0 => asked'[newest'] = asked[newest]
  BY <1>2, <1>3 DEF NInv, Asking
<1>5. Active' <=> Active
  BY <1>1 DEF Active
<1>6. fetched' = Len(asked') => fetched = Len(asked) /\ panelNode' = panelNode
  BY <1>2, <1>3 DEF NInv, Asking
<1> QED
  <2>1. fetched # 0 <=> fetched' # 0
    BY <1>2
  <2>2. ASSUME NEW m \in Monitors
        PROVE  HasNewer(m)'
    <3>1. mon[m].pc # "gone" => newest # 0 /\ fetched # 0
      BY DEF NInv, Pending, HasNewer, Active
    <3> QED
      BY <1>1, <1>2, <1>4, <3>1 DEF NInv, Pending, HasNewer, InHand
  <2> QED
    BY <1>1, <1>2, <1>4, <1>5, <1>6, <2>2 DEF NInv, Pending, Active

LEMMA PendingPanic ==
  ASSUME NInv, History, Panic
  PROVE  Pending' /\ UNCHANGED historyVars
<1>1. /\ ctl' = "none"
      /\ \A m \in Monitors : mon'[m].pc = "gone" /\ mon'[m].node = None
      /\ panelNode' = panelNode
  BY DEF Panic, Gone, panelVars
<1> QED
  BY <1>1, HistoryAside DEF NInv, Pending, HasNewer, Active, InHand

LEMMA PendingStart ==
  ASSUME NInv, History, StartStep
  PROVE  Pending'
<1>0. /\ Struct /\ panelNode' = panelNode
      /\ \A m \in Monitors : mon[m].pc = "gone" /\ mon[m].node = None
  <2>1. /\ ctl \in Starting \/ (ctl = "none" /\ listed = TRUE)
        /\ panelNode' = panelNode
    BY DEF StartStep, StartNode, StartUsers, StartCert, StartAddNode,
           panelVars, StartAddUsers, StartLimiter, StartTasks, Starting, NInv,
           BInv, Struct, TypeOK
  <2> QED
    BY <2>1 DEF NInv, BInv, Struct, Quiet, Pending, HasNewer
<1>1. CASE StartTasks
  <2>0. Spawn(mon) /\ mon \in [Monitors -> MonitorState] /\ chan \in Nat
    BY <1>0, <1>1 DEF StartTasks, Struct, TypeOK
  <2>1. PICK s \in Monitors :
          /\ mon'[s].pc = "wait" /\ mon'[s].node = None
          /\ \A n \in Monitors \ {s} : mon'[n] = mon[n]
    BY <2>0, SpawnState
  <2>2. ctl = "tasks" /\ ctl' = "up" /\ UNCHANGED <<nodeSeen, panelNode>>
    BY <1>0, <1>1 DEF StartTasks, clientVars
  <2>3. UNCHANGED historyVars
    BY <1>0, <2>1, <2>2, HistoryAside DEF NInv
  <2>4. Active /\ newest = fetched /\ fetched # 0
    BY <2>2 DEF NInv, Pending, Active
  <2>5. ASSUME NEW n \in Monitors
        PROVE  HasNewer(n)'
    BY <1>0, <2>1, <2>3, <2>4 DEF HasNewer, InHand, historyVars
  <2> QED
    BY <2>2, <2>3, <2>4, <2>5 DEF NInv, Pending, historyVars
<1>2. ASSUME ~StartTasks
      PROVE  UNCHANGED mon /\ \A n \in Monitors : HasNewer(n)'
  BY <1>0, <1>2
     DEF StartStep, StartNode, StartUsers, StartCert, StartAddNode,
         StartAddUsers, StartLimiter, HasNewer, InHand
<1>3. ASSUME NEW ok \in BOOLEAN, NEW decoded \in BOOLEAN, StartNode(ok, decoded)
      PROVE  Pending'
  <2>1. ctl = "none" /\ UNCHANGED mon
    BY <1>3 DEF StartNode
  <2>2. CASE ok /\ decoded
    <3>1. ctl' = "user" /\ nodeSeen' = panelNode
      BY <1>3, <2>2 DEF StartNode
    <3>2. fetched' = Len(asked) /\ asked' = asked
      BY <1>0, <2>1, <3>1 DEF History, Fetching
    <3> QED
      BY <1>0, <1>2, <2>1, <3>1, <3>2 DEF NInv, Asking, Pending, StartTasks
  <2>3. CASE ~(ok /\ decoded)
    <3>1. ctl' = "none"
      BY <1>3, <2>3 DEF StartNode, StartFails
    <3> QED
      BY <1>0, <1>2, <2>1, <3>1 DEF Pending, Active, StartTasks
  <2> QED
    BY <2>2, <2>3
<1>4. ASSUME NEW ok \in BOOLEAN,
             StartUsers(ok) \/ StartLimiter \/ StartCert(ok) \/ StartAddUsers(ok)
      PROVE  Pending'
  <2>1. /\ UNCHANGED <<mon, nodeSeen, panelNode>> /\ ctl # "none" /\ ctl # "tasks"
        /\ \/ ctl' = "none"
           \/ ctl = "user" /\ ctl' = "limiter" /\ info' = info
           \/ ctl = "limiter" /\ ctl' \in {"cert", "addnode"} /\ info' = nodeSeen
           \/ ctl = "cert" /\ ctl' = "addnode" /\ info' = info
           \/ ctl = "addusers" /\ ctl' = "tasks" /\ info' = info
    BY <1>0, <1>4
       DEF StartUsers, StartLimiter, StartCert, StartAddUsers, StartFails,
           clientVars, fieldVars
  <2>2. UNCHANGED historyVars
    BY <1>0, <2>1, HistoryAside DEF NInv
  <2> QED
    BY <1>0, <1>2, <2>1, <2>2
       DEF NInv, Pending, Active, historyVars, StartTasks
<1>5. ASSUME NEW ok \in BOOLEAN, StartAddNode(ok)
      PROVE  Pending'
  <2>1. /\ UNCHANGED <<mon, nodeSeen, panelNode>> /\ ctl = "addnode"
        /\ ctl' \in {"none", "addusers"}
    BY <1>0, <1>5 DEF StartAddNode, StartFails, clientVars
  <2>2. UNCHANGED <<asked, fetched>> /\ (ctl' = "addusers" => newest' = fetched)
    BY <1>0, <2>1 DEF History, Fetching, Adding
  <2> QED
    BY <1>0, <1>2, <2>1, <2>2 DEF NInv, Pending, Active, StartTasks
<1> QED
  BY <1>1, <1>3, <1>4, <1>5 DEF StartStep

LEMMA PendingClose ==
  ASSUME NInv, History, CloseStep
  PROVE  Pending' /\ UNCHANGED historyVars
<1>1. /\ UNCHANGED <<mon, nodeSeen, panelNode>> /\ ctl # "none"
      /\ ctl' \in {"none", "up", "closing", "delnode"}
  BY DEF CloseStep, CloseLimiter, CloseTasks, CloseNode, clientVars, panelVars
<1>2. UNCHANGED historyVars
  BY <1>1, HistoryAside DEF NInv
<1> QED
  BY <1>1, <1>2 DEF NInv, Pending, Active, HasNewer, historyVars

(* ... and by the monitor.                                                 *)
LEMMA PendingMonitor ==
  ASSUME NInv, Struct', History, NEW m \in Monitors, MonitorStep(m),
         ~NewInterval(m), ~Panic, chan <= 1
  PROVE  Pending'
<1>0. /\ TypeOK /\ mon[m].pc # "gone" /\ Others(m) /\ UNCHANGED <<panelNode, ctl>>
      /\ Active /\ HasNewer(m)
  <2>1. TypeOK
    BY DEF NInv, BInv, Struct
  <2>2. mon[m].pc # "gone" /\ Others(m) /\ UNCHANGED ctl
    BY <2>1, MonitorMoves
  <2>3. UNCHANGED panelNode
    BY DEF MonitorStep, Stop, Fetch, FetchFails, FetchUsers, FetchUsersFails,
           Reload, DelNode, DelNodePanics, NewLimiter, Cert, AddNode,
           AddNodePanics, AddAllUsers, NewInterval, SameInterval, Diff,
           NothingToDo, Compare, DelUsers, AddUsers, UpdateUser, WrongType,
           panelVars, Panic
  <2> QED
    BY <2>1, <2>2, <2>3 DEF Active, NInv, Pending
<1>1. /\ fetched # 0 /\ (fetched = Len(asked) => nodeSeen = panelNode)
      /\ Losing \/ nodeSeen = asked[fetched]
  BY <1>0 DEF NInv, Pending
<1>2. /\ asked' = asked
      /\ fetched' = IF mon[m].pc = "wait" /\ mon'[m].node # None
                    THEN Len(asked) ELSE fetched
      /\ newest' = IF mon[m].pc = "addnode" /\ mon'[m].pc = "addusers"
                   THEN fetched ELSE newest
  BY <1>0, MonitorHistory
<1>3. CASE Stop(m)
  <2>1. mon'[m].pc = "gone" /\ mon'[m].node = None /\ nodeSeen' = nodeSeen
    BY <1>0, <1>3, StopState DEF Stop, clientVars
  <2> QED
    BY <1>0, <1>1, <1>2, <2>1, MonitorPending DEF HasNewer, InHand
<1>4. CASE Fetch(m)
  <2>1. /\ mon[m].pc = "wait" /\ mon'[m].pc = "user" /\ nodeSeen' = panelNode
        /\ mon'[m].node = IF panelNode = nodeSeen THEN None ELSE panelNode
        /\ panelNode # None
    BY <1>0, <1>4, FetchState, ControllerAssumption
       DEF Fetch, GetNodeInfo, TypeOK
  <2>2. newest # 0 /\ (Losing \/ newest = fetched) /\ newest' = newest
    BY <1>0, <1>2, <2>1 DEF HasNewer, InHand
  <2>3. CASE panelNode = nodeSeen
    <3>1. mon'[m].node = None /\ fetched' = fetched /\ nodeSeen' = nodeSeen
      BY <1>2, <2>1, <2>3
    <3> QED
      BY <1>0, <1>1, <1>2, <2>1, <2>2, <3>1, MonitorPending
         DEF HasNewer, InHand
  <2>4. CASE panelNode # nodeSeen
    <3>1. mon'[m].node = panelNode /\ fetched' = Len(asked)
      BY <1>2, <2>1, <2>4
    <3>2. /\ asked[Len(asked)] = panelNode
          /\ fetched < Len(asked) /\ newest <= fetched
          /\ Len(asked) # 0
      BY <1>1, <2>4 DEF NInv, Asking
    <3>3. Len(asked) > newest
      BY <3>2 DEF NInv, Asking
    <3>4. Losing \/ asked[Len(asked)] # asked[newest]
      BY <1>1, <2>2, <2>4, <3>2
    <3>5. HasNewer(m)'
      BY <1>2, <2>1, <2>2, <3>1, <3>2, <3>3, <3>4 DEF HasNewer, InHand
    <3> QED
      BY <1>0, <1>2, <2>1, <3>1, <3>2, <3>5, MonitorPending
  <2> QED
    BY <2>3, <2>4
<1>5. CASE FetchFails(m)
  <2>1. /\ mon[m].pc = "wait" /\ Returns(m)
        /\ nodeSeen' = nodeSeen \/ (Losing /\ nodeSeen' = panelNode)
    BY <1>0, <1>5, DoneState DEF FetchFails, Losing
  <2> QED
    BY <1>0, <1>1, <1>2, <2>1, MonitorPending DEF HasNewer, InHand, Returns
<1>6. CASE \/ FetchUsers(m) \/ FetchUsersFails(m)
           \/ (\E ok \in BOOLEAN : Cert(m, ok))
           \/ DelNode(m) \/ NewLimiter(m)
  <2>1. /\ mon[m].pc \in InHand \ {"addnode"} /\ UNCHANGED nodeSeen
        /\ mon[m].pc # "wait" /\ mon[m].pc # "gone"
    BY <1>6
       DEF FetchUsers, FetchUsersFails, Cert, DelNode, NewLimiter, InHand,
           clientVars
  <2>2. UNCHANGED <<fetched, newest>>
    BY <1>2, <2>1
  <2>3. CASE Done(m) /\ Losing
    <3>1. Returns(m)
      BY <1>0, <2>3, DoneState
    <3> QED
      BY <1>0, <1>1, <1>2, <2>1, <2>2, <2>3, <3>1, MonitorPending
         DEF HasNewer, InHand, Returns
  <2>4. CASE FetchUsers(m)
    <3>1. /\ mon'[m].node = mon[m].node
          /\ mon'[m].pc = IF mon[m].node # None THEN "reload" ELSE "diff"
      BY <1>0, <2>4, FetchUsersState
    <3> QED
      BY <1>0, <1>1, <1>2, <2>1, <2>2, <3>1, MonitorPending
         DEF HasNewer, InHand
  <2>5. CASE \E p \in InHand : mon' = Goto(m, p)
    <3>1. mon'[m].pc \in InHand /\ mon'[m].node = mon[m].node
      BY <1>0, <2>5, GotoState DEF GoesTo, InHand, Pcs
    <3> QED
      BY <1>0, <1>1, <1>2, <2>1, <2>2, <3>1, MonitorPending
         DEF HasNewer, InHand
  <2> QED
    BY <1>6, <2>3, <2>4, <2>5
       DEF FetchUsersFails, Cert, DelNode, NewLimiter, Losing, InHand
<1>7. CASE AddNode(m)
  <2>1. /\ mon[m].pc = "addnode" /\ GoesTo(m, "addusers") /\ UNCHANGED nodeSeen
        /\ mon[m].node # None
    BY <1>0, <1>7, GotoState, ControllerAssumption
       DEF AddNode, Pcs, clientVars, NInv, BInv, Struct, Placed,
           Reloading
  <2>2. newest' = fetched /\ fetched' = fetched
    BY <1>2, <2>1 DEF GoesTo
  <2>3. HasNewer(m)'
    BY <1>0, <1>1, <2>1, <2>2 DEF HasNewer, InHand, GoesTo
  <2> QED
    BY <1>0, <1>1, <1>2, <2>1, <2>2, <2>3, MonitorPending
<1>8. CASE \/ AddAllUsers(m) \/ SameInterval(m) \/ NothingToDo(m) \/ Compare(m)
           \/ DelUsers(m) \/ AddUsers(m) \/ UpdateUser(m)
  <2>1. /\ mon[m].pc \notin InHand \cup {"gone", "wait"} /\ UNCHANGED nodeSeen
    BY <1>8
       DEF AddAllUsers, SameInterval, NothingToDo, Compare, DelUsers,
           AddUsers, UpdateUser, InHand, clientVars
  <2>2. UNCHANGED <<fetched, newest>>
    BY <1>2, <2>1 DEF InHand
  <2>3. \/ Returns(m) \/ GoesTo(m, "tasks") \/ GoesTo(m, "add")
        \/ GoesTo(m, "update") \/ mon'[m].pc = "delete"
    BY <1>0, <1>8, DoneState, GotoState, CompareState
       DEF AddAllUsers, SameInterval, NothingToDo, Compare, DelUsers,
           AddUsers, UpdateUser, Pcs
  <2>4. /\ mon'[m].pc \in {"wait", "tasks", "add", "update", "delete"}
        /\ mon'[m].pc = "wait" => mon'[m].node = None
    BY <2>3 DEF Returns, GoesTo
  <2>5. HasNewer(m)'
    BY <1>0, <1>2, <2>1, <2>2, <2>4 DEF HasNewer, InHand
  <2> QED
    BY <1>0, <1>1, <1>2, <2>1, <2>2, <2>5, MonitorPending
<1> QED
  BY <1>3, <1>4, <1>5, <1>6, <1>7, <1>8
     DEF MonitorStep, Reload, Diff, DelNodePanics, AddNodePanics, WrongType

-----------------------------------------------------------------------------
(* The steps of Node.                                                      *)
Owns == {"addusers", "tasks", "up", "closing", "delnode"}

LEMMA PromiseAside ==
  ASSUME UNCHANGED historyVars, Up' = Up, Running' = Running
  PROVE  UNCHANGED Promise!nodeVars
BY DEF historyVars, Promise!nodeVars

(* A step that leaves the inbound of the controller as it is.              *)
LEMMA RunningAside ==
  ASSUME UNCHANGED tag, Making' <=> Making, ctl' \in Owns <=> ctl \in Owns,
         inbounds'[tag].cfg = inbounds[tag].cfg
  PROVE  Running' = Running
BY DEF Running, Owns

(* A process, or a Close, that ends.                                       *)
LEMMA PromiseStopped ==
  ASSUME UNCHANGED historyVars, ~Up', Running' = None, ~Up => Running = None
  PROVE  [Promise!Next]_(Promise!nodeVars)
<1>1. CASE Up
  BY <1>1 DEF historyVars, Promise!Next, Promise!Stopped, Up
<1>2. CASE ~Up
  BY <1>2, PromiseAside DEF Up
<1> QED
  BY <1>1, <1>2

LEMMA PromisePanel ==
  ASSUME NInv, History, PanelStep \/ Restart \/ UNCHANGED vars
  PROVE  [Promise!Next]_(Promise!nodeVars)
<1>1. UNCHANGED <<ctl, mon, tag, inbounds>>
  BY DEF PanelStep, Restart, ChangeNode, ChangeUsers, Unlist, vars, fieldVars
<1>2. UNCHANGED <<fetched, newest>> /\ Running' = Running /\ Up' = Up
  BY <1>1
     DEF History, Fetching, Adding, NInv, Pending, HasNewer, Running, Making,
         Up
<1>3. CASE panelNode' = panelNode
  BY <1>2, <1>3, PromiseAside DEF History, historyVars
<1>4. CASE panelNode' # panelNode
  <2>1. /\ panelNode' \in NodeCfgs /\ panelNode' # asked[Len(asked)]
        /\ asked' = Append(asked, panelNode')
    BY <1>4
       DEF History, NInv, Asking, PanelStep, ChangeNode, ChangeUsers, Unlist,
           Restart, panelVars, vars
  <2> QED
    BY <1>2, <2>1 DEF Promise!Next, Promise!Ask
<1> QED
  BY <1>3, <1>4

LEMMA PromisePanic ==
  ASSUME NInv, History, Panic, \E m \in Monitors : mon[m].pc # "gone"
  PROVE  [Promise!Next]_(Promise!nodeVars)
<1>1. UNCHANGED historyVars
  BY PendingPanic
<1>2. ctl' = "none" /\ ctl \notin Starting
  BY DEF Panic, NInv, BInv, Struct, Quiet
<1> QED
  BY <1>1, <1>2, PromiseStopped DEF Running, Up, Starting

LEMMA PromiseStart ==
  ASSUME NInv, NInv', History, StartStep, Replaced
  PROVE  [Promise!Next]_(Promise!nodeVars)
<1>0. /\ Struct /\ panelNode' = panelNode /\ ~Making
      /\ \A m \in Monitors : mon[m].pc = "gone" /\ mon[m].node = None
  <2>1. /\ ctl \in Starting \/ (ctl = "none" /\ listed = TRUE)
        /\ panelNode' = panelNode
    BY DEF StartStep, StartNode, StartUsers, StartCert, StartAddNode,
           panelVars, StartAddUsers, StartLimiter, StartTasks, Starting, NInv,
           BInv, Struct, TypeOK
  <2> QED
    BY <2>1 DEF NInv, BInv, Struct, Quiet, Pending, HasNewer, Making
<1>1. CASE StartTasks
  <2>0. Spawn(mon) /\ mon \in [Monitors -> MonitorState] /\ chan \in Nat
    BY <1>0, <1>1 DEF StartTasks, Struct, TypeOK
  <2>1. /\ \A n \in Monitors : \/ mon'[n] = mon[n]
                               \/ mon'[n].pc = "wait" /\ mon'[n].node = None
        /\ ~Making'
    BY <1>0, <2>0, SpawnState DEF Making
  <2>2. ctl = "tasks" /\ ctl' = "up" /\ UNCHANGED <<tag, inbounds, panelNode>>
    BY <1>0, <1>1 DEF StartTasks, fieldVars
  <2>3. UNCHANGED historyVars
    BY <1>0, <2>1, <2>2, HistoryAside DEF NInv
  <2>4. Running' = Running /\ Running # None
    BY <1>0, <2>1, <2>2
       DEF Running, NInv, BInv, AddedFirst, InboundInv, OwnInbound, Present
  <2> QED
    BY <2>2, <2>3, <2>4 DEF Promise!Next, Promise!Started, Up, historyVars
<1>2. CASE \E ok \in BOOLEAN : StartAddNode(ok)
  <2>1. PICK ok \in BOOLEAN : StartAddNode(ok)
    BY <1>2
  <2>2. ctl = "addnode" /\ UNCHANGED <<tag, info, mon>> /\ ~Making'
    BY <1>0, <2>1 DEF StartAddNode, fieldVars, Making
  <2>3. CASE ok
    <3>1. /\ ctl' = "addusers"
          /\ inbounds' = [inbounds EXCEPT ![tag] = [cfg |-> info, users |-> {}]]
      BY <2>1, <2>3 DEF StartAddNode
    <3>2. Running' = info /\ info = asked[fetched]
      BY <1>0, <2>2, <3>1
         DEF Running, Struct, TypeOK, Placed, Owning, NInv, Pending
    <3>3. asked' = asked /\ fetched' = fetched /\ newest' = fetched
      BY <1>0, <2>2, <3>1 DEF History, Fetching, Adding
    <3>4. fetched \in 1..Len(asked) /\ fetched >= newest
      BY <2>2 DEF NInv, Asking, Pending, Active
    <3>5. Promise!PutOn(fetched)
      BY <2>2, <3>1, <3>2, <3>3, <3>4 DEF Promise!PutOn, Up
    <3> QED
      BY <3>4, <3>5 DEF Promise!Next
  <2>4. CASE ~ok
    <3>1. ctl' = "none"
      BY <2>1, <2>4 DEF StartAddNode, StartFails
    <3>2. UNCHANGED historyVars
      BY <1>0, <2>2, <3>1, HistoryAside DEF NInv
    <3> QED
      BY <2>2, <3>1, <3>2, PromiseAside DEF Running, Up
  <2> QED
    BY <2>3, <2>4
<1>3. CASE \E ok \in BOOLEAN : StartUsers(ok) \/ StartCert(ok) \/ StartAddUsers(ok)
  <2>0. CASE ctl = "addusers" /\ ctl' = "none"
    <3>1. UNCHANGED historyVars
      BY <1>0, <2>0, HistoryAside DEF NInv
    <3>2. Running # None /\ Running' = None /\ ~Up /\ ~Up'
      BY <1>0, <2>0
         DEF Running, Up, NInv, BInv, AddedFirst, InboundInv, OwnInbound, Present
    <3> QED
      BY <3>1, <3>2 DEF Promise!Next, Promise!TakeOff, Up, historyVars
  <2> SUFFICES ASSUME ~(ctl = "addusers" /\ ctl' = "none")
               PROVE  [Promise!Next]_(Promise!nodeVars)
    BY <2>0
  <2>1. /\ UNCHANGED <<mon, tag>>
        /\ \/ ctl \in {"user", "cert"} /\ ctl' \in {"none", "limiter", "addnode"}
           \/ /\ ctl = "addusers" /\ ctl' = "tasks" /\ tag \in Tags
              /\ inbounds' = [inbounds EXCEPT ![tag].users = @ \cup UuidsIn(userList)]
    BY <1>0, <1>3
       DEF StartUsers, StartCert, StartAddUsers, StartFails, fieldVars,
           Struct, Placed, Owning
  <2>2. UNCHANGED historyVars
    BY <1>0, <2>1, HistoryAside DEF NInv
  <2>3. Running' = Running
    BY <1>0, <2>1 DEF Running, Making, Struct, TypeOK
  <2> QED
    BY <2>1, <2>2, <2>3, PromiseAside DEF Up
<1>4. CASE StartLimiter \/ (\E ok, decoded \in BOOLEAN : StartNode(ok, decoded))
  <2>1. /\ UNCHANGED mon
        /\ \/ ctl = "limiter" /\ ctl' \in {"cert", "addnode"}
           \/ ctl = "none" /\ ctl' \in {"none", "user"}
    BY <1>4 DEF StartLimiter, StartNode, StartFails
  <2>2. asked' = asked /\ newest' = newest
    BY <1>0, <2>1 DEF History, Adding
  <2> QED
    BY <2>1, <2>2 DEF Running, Up, Promise!nodeVars
<1> QED
  BY <1>1, <1>2, <1>3, <1>4 DEF StartStep

LEMMA PromiseClose ==
  ASSUME NInv, History, CloseStep
  PROVE  [Promise!Next]_(Promise!nodeVars)
<1>1. UNCHANGED historyVars
  BY PendingClose
<1>2. /\ Struct /\ tag \in Tags /\ ctl \in Started
      /\ UNCHANGED <<mon, tag>> /\ (Making' <=> Making)
  BY DEF NInv, BInv, CloseStep, CloseLimiter, CloseTasks,
         CloseNode, Struct, Placed, Owning, Started, fieldVars, Making
<1>3. CASE CloseLimiter \/ CloseTasks
  <2>1. ctl' \in Started /\ inbounds' = inbounds
    BY <1>3 DEF CloseLimiter, CloseTasks, Started
  <2> QED
    BY <1>1, <1>2, <2>1, RunningAside, PromiseAside DEF Up, Started, Owns
<1>4. CASE CloseNode
  <2>1. /\ ctl' = IF Present(tag) THEN "none" ELSE "up"
        /\ inbounds' = [inbounds EXCEPT ![tag] = NoInbound]
    BY <1>4 DEF CloseNode
  <2>2. inbounds'[tag].cfg = None
    BY <1>2, <2>1 DEF Struct, TypeOK, NoInbound
  <2>3. CASE Present(tag)
    BY <1>1, <1>2, <2>1, <2>3, PromiseStopped DEF Running, Up, Started
  <2>4. CASE ~Present(tag)
    BY <1>1, <1>2, <2>1, <2>2, <2>4, RunningAside, PromiseAside
       DEF Up, Started, Owns, Present
  <2> QED
    BY <2>3, <2>4
<1> QED
  BY <1>3, <1>4 DEF CloseStep

LEMMA PromiseMonitor ==
  ASSUME NInv, Replaced, History, NEW m \in Monitors, MonitorStep(m),
         ~NewInterval(m), ~Panic, chan <= 1
  PROVE  [Promise!Next]_(Promise!nodeVars)
<1>0. /\ TypeOK /\ mon[m].pc # "gone" /\ Others(m)
      /\ ctl' = ctl /\ panelNode' = panelNode
      /\ HasNewer(m) /\ Struct /\ tag \in Tags
      /\ Active
      /\ mon[m].pc \in Window \/ Present(tag) => ctl \in Started
  <2>1. TypeOK
    BY DEF NInv, BInv, Struct
  <2>2. mon[m].pc # "gone" /\ Others(m) /\ UNCHANGED ctl
    BY <2>1, MonitorMoves
  <2>3. UNCHANGED panelNode
    BY DEF MonitorStep, Stop, Fetch, FetchFails, FetchUsers, FetchUsersFails,
           Reload, DelNode, DelNodePanics, NewLimiter, Cert, AddNode,
           AddNodePanics, AddAllUsers, NewInterval, SameInterval, Diff,
           NothingToDo, Compare, DelUsers, AddUsers, UpdateUser, WrongType,
           panelVars, Panic
  <2> QED
    BY <2>1, <2>2, <2>3, Owned DEF NInv, Pending, BInv, Struct, Placed, Active
<1>1. /\ asked' = asked
      /\ newest' = IF mon[m].pc = "addnode" /\ mon'[m].pc = "addusers"
                   THEN fetched ELSE newest
  BY <1>0, MonitorHistory
<1>2. Making <=> mon[m].pc \in Window
  BY <1>0 DEF Making, NInv, BInv, Alone, Window
<1>3. Making' <=> mon'[m].pc \in Window
  BY <1>0 DEF Making, NInv, BInv, Alone, Window, Others
<1>4. ASSUME UNCHANGED Running, mon[m].pc # "addnode" \/ mon'[m].pc # "addusers"
      PROVE  [Promise!Next]_(Promise!nodeVars)
  BY <1>0, <1>1, <1>4 DEF Up, Promise!nodeVars
<1>5. CASE \/ Stop(m) \/ Fetch(m) \/ FetchFails(m) \/ FetchUsers(m)
           \/ FetchUsersFails(m) \/ SameInterval(m) \/ NothingToDo(m)
           \/ Compare(m) \/ AddAllUsers(m) \/ DelUsers(m) \/ AddUsers(m)
           \/ UpdateUser(m)
  <2>1. mon[m].pc \notin Window /\ tag' = tag
    BY <1>5
       DEF Stop, Fetch, FetchFails, FetchUsers, FetchUsersFails, SameInterval,
           NothingToDo, Compare, AddAllUsers, DelUsers, AddUsers, UpdateUser,
           Window, fieldVars
  <2>2. mon'[m].pc \notin Window
    <3>1. CASE Stop(m) \/ Fetch(m) \/ FetchUsers(m) \/ Compare(m)
      BY <1>0, <3>1, StopState, FetchState, FetchUsersState, CompareState
         DEF Window
    <3>2. CASE ~(Stop(m) \/ Fetch(m) \/ FetchUsers(m) \/ Compare(m))
      <4>1. \/ Returns(m) \/ GoesTo(m, "tasks") \/ GoesTo(m, "add")
            \/ GoesTo(m, "update")
        BY <1>0, <1>5, <3>2, DoneState, GotoState
           DEF FetchFails, FetchUsersFails, SameInterval, NothingToDo,
               AddAllUsers, DelUsers, AddUsers, UpdateUser, Pcs
      <4> QED
        BY <4>1 DEF Returns, GoesTo, Window
    <3> QED
      BY <3>1, <3>2
  <2>3. inbounds'[tag].cfg = inbounds[tag].cfg
    <3>1. CASE AddAllUsers(m) \/ DelUsers(m) \/ AddUsers(m)
      <4>1. \/ UNCHANGED inbounds
            \/ \E us : inbounds' = [inbounds EXCEPT ![tag] = [@ EXCEPT !.users = us]]
        BY <3>1 DEF AddAllUsers, DelUsers, AddUsers
      <4> QED
        BY <1>0, <4>1 DEF TypeOK
    <3>2. CASE UNCHANGED inbounds
      BY <3>2
    <3> QED
      BY <1>5, <3>1, <3>2
         DEF Stop, Fetch, FetchFails, FetchUsers, FetchUsersFails,
             SameInterval, NothingToDo, Compare, UpdateUser
  <2>4. Running' = Running
    BY <1>0, <1>2, <1>3, <2>1, <2>2, <2>3, RunningAside
  <2> QED
    BY <1>4, <2>1, <2>4 DEF Window
<1>6. CASE DelNode(m)
  <2>1. GoesTo(m, "limiter") /\ Present(tag) /\ mon[m].pc = "reload"
    BY <1>0, <1>6, GotoState DEF DelNode, Pcs
  <2>2. ctl \in Started /\ ~Making /\ Making'
    BY <1>0, <1>2, <1>3, <2>1 DEF GoesTo, Window
  <2>3. Running # None /\ Running' = None
    BY <2>1, <2>2 DEF Running, Started, Present
  <2>4. newest' = newest
    BY <1>1, <2>1
  <2> QED
    BY <1>0, <1>1, <2>3, <2>4 DEF Promise!Next, Promise!TakeOff, Up
<1>7. CASE NewLimiter(m) \/ (\E ok \in BOOLEAN : Cert(m, ok))
  <2>1. /\ mon[m].pc \in {"limiter", "cert"}
        /\ \/ GoesTo(m, "cert") \/ GoesTo(m, "addnode")
           \/ Returns(m) /\ UNCHANGED <<tag, inbounds>> /\ ~Present(tag)
    BY <1>0, <1>7, GotoState, DoneState, Owned
       DEF NewLimiter, Cert, Pcs, fieldVars, NInv
  <2>2. Running = None
    BY <1>0, <1>2, <2>1 DEF Running, Window
  <2>3. Running' = None
    BY <1>2, <1>3, <2>1, <2>2 DEF Running, Window, GoesTo, Returns, Present
  <2> QED
    BY <1>4, <2>1, <2>2, <2>3
<1>8. CASE AddNode(m)
  <2>1. /\ mon[m].pc = "addnode" /\ GoesTo(m, "addusers") /\ tag' = tag
        /\ inbounds' = [inbounds EXCEPT ![tag] = [cfg |-> mon[m].node, users |-> {}]]
    BY <1>0, <1>8, GotoState DEF AddNode, Pcs, fieldVars
  <2>2. mon[m].node # None
    BY <1>0, <2>1, ControllerAssumption DEF Struct, Placed, Reloading
  <2>3. /\ mon[m].node = asked[fetched] /\ fetched > newest
        /\ Losing \/ asked[fetched] # asked[newest]
    BY <1>0, <2>1, <2>2 DEF HasNewer, InHand
  <2>4. ctl \in Started /\ Making /\ ~Making' /\ newest' = fetched
    BY <1>0, <1>1, <1>2, <1>3, <2>1 DEF Window, GoesTo
  <2>5. inbounds'[tag].cfg = mon[m].node
    BY <1>0, <2>1 DEF TypeOK
  <2>6. Running = None /\ Running' = asked[fetched]
    BY <1>0, <2>1, <2>3, <2>4, <2>5 DEF Running, Started
  <2>7. fetched \in 1..Len(asked)
    BY <1>0 DEF NInv, Asking, Pending
  <2>8. Promise!PutOn(fetched)
    BY <1>0, <1>1, <2>3, <2>4, <2>6 DEF Promise!PutOn, Up, Started
  <2> QED
    BY <2>7, <2>8 DEF Promise!Next
<1> QED
  BY <1>5, <1>6, <1>7, <1>8
     DEF MonitorStep, Reload, Diff, DelNodePanics, AddNodePanics, WrongType

-----------------------------------------------------------------------------
(* The steps put together, for a task that is never restarted.             *)
LEMMA NodeInit ==
  ASSUME HistoryInit
  PROVE  NInv /\ Promise!Init
<1>1. /\ ctl = "none" /\ panelNode \in NodeCfgs
      /\ \A m \in Monitors : mon[m].pc = "gone" /\ mon[m].node = None
      /\ \A t \in Tags : ~Present(t)
  BY DEF HistoryInit, Init, FreshProcess, Gone, Present, NoInbound
<1>2. BInv
  BY <1>1, InboundInit DEF HistoryInit, Init, BInv, IInv, Alone, AddedFirst
<1>3. asked = <<panelNode>> /\ fetched = 0 /\ newest = 0
  BY DEF HistoryInit, InitHistory
<1>4. Asking
  BY <1>1, <1>3 DEF Asking
<1>5. Pending
  BY <1>1 DEF Pending, Active, HasNewer, InHand
<1>6. Promise!Init
  BY <1>1, <1>3 DEF Promise!Init, Up, Running
<1> QED
  BY <1>2, <1>4, <1>5, <1>6 DEF NInv

LEMMA NodeStutter ==
  ASSUME NInv, UNCHANGED <<vars, historyVars>>, Replaced
  PROVE  NInv' /\ UNCHANGED Promise!nodeVars
<1>1. BInv'
  BY BaseStep DEF NInv
<1>2. UNCHANGED <<panelNode, nodeSeen, ctl, info, tag, mon, inbounds>>
  BY DEF vars, panelVars, clientVars, fieldVars
<1>3. Asking'
  BY <1>2 DEF NInv, Asking, historyVars
<1>4. Pending'
  BY <1>2 DEF NInv, Pending, Active, HasNewer, historyVars
<1>5. UNCHANGED Promise!nodeVars
  BY <1>2, PromiseAside DEF Up, Running, Making
<1> QED
  BY <1>1, <1>3, <1>4, <1>5 DEF NInv

(* Were the task restarted, a second channel would have been made.         *)
LEMMA NoSecondChannel ==
  ASSUME BInv, chan' <= 1, NEW m \in Monitors
  PROVE  ~NewInterval(m)
<1> SUFFICES ASSUME NewInterval(m) PROVE FALSE
  OBVIOUS
<1>1. chan' = chan + 1 /\ mon[m].pc # "gone" /\ chan \in Nat
  BY DEF NewInterval, Spawn, BInv, Struct, TypeOK
<1> QED
  BY <1>1 DEF BInv, Alone

LEMMA NodeStep ==
  ASSUME NInv, HistoryNext, chan <= 1, chan' <= 1, Replaced
  PROVE  NInv' /\ [Promise!Next]_(Promise!nodeVars)
<1>0. BInv /\ BInv' /\ Next /\ History
  BY BaseStep DEF NInv, HistoryNext
<1>1. Struct' /\ panelNode' \in NodeCfgs
  BY <1>0 DEF BInv, Struct, TypeOK
<1>2. Asking'
  BY <1>0, <1>1, AskingStep
<1>3. ASSUME PanelStep \/ Restart
      PROVE  Pending' /\ [Promise!Next]_(Promise!nodeVars)
  BY <1>0, <1>3, PendingPanel, PromisePanel
<1>4. ASSUME StartStep
      PROVE  Pending' /\ [Promise!Next]_(Promise!nodeVars)
  <2>1. Pending'
    BY <1>0, <1>4, PendingStart
  <2> QED
    BY <1>0, <1>2, <1>4, <2>1, PromiseStart DEF NInv
<1>5. ASSUME CloseStep
      PROVE  Pending' /\ [Promise!Next]_(Promise!nodeVars)
  BY <1>0, <1>5, PendingClose, PromiseClose
<1>6. ASSUME NEW m \in Monitors, MonitorStep(m)
      PROVE  Pending' /\ [Promise!Next]_(Promise!nodeVars)
  <2>1. ~NewInterval(m)
    BY <1>0, NoSecondChannel
  <2>2. CASE ~Panic
    BY <1>0, <1>1, <1>6, <2>1, <2>2, PendingMonitor, PromiseMonitor
  <2>3. CASE Panic
    <3>1. mon[m].pc # "gone"
      BY <1>0, <1>6, <2>1, <2>3
         DEF MonitorStep, Stop, Fetch, FetchFails, FetchUsers,
             FetchUsersFails, Reload, DelNode, DelNodePanics, NewLimiter,
             Cert, AddNode, AddNodePanics, AddAllUsers, NewInterval,
             SameInterval, Diff, NothingToDo, Compare, DelUsers, AddUsers,
             UpdateUser, WrongType
    <3> QED
      BY <1>0, <2>3, <3>1, PendingPanic, PromisePanic
  <2> QED
    BY <2>2, <2>3
<1>7. Pending' /\ [Promise!Next]_(Promise!nodeVars)
  BY <1>0, <1>3, <1>4, <1>5, <1>6 DEF Next
<1> QED
  BY <1>0, <1>2, <1>7 DEF NInv

(* As long as the monitor's task is not restarted, the node's inbound only *)
(* goes forward through the configurations the panel has held, and is not  *)
(* reset for nothing: whatever requests, certificates, changes of the      *)
(* users or calls into the core fail, whenever the process dies, and       *)
(* whenever the panel takes the node off the machine (node/task.go,        *)
(* node/controller.go and the caching of api/panel/node.go).  Only where   *)
(* AddUsers in Start may fail must certificates not, and the node stay on  *)
(* the machine (Replaced).                                                 *)
THEOREM GoesForward ==
  ASSUME Replaced
  PROVE  HistorySpec /\ [](chan <= 1) => RunsForward
<1>1. HistoryInit => NInv /\ Promise!Init
  BY NodeInit
<1>2. /\ NInv /\ chan <= 1 /\ (chan <= 1)'
      /\ [HistoryNext]_<<vars, historyVars>>
      => NInv' /\ [Promise!Next]_(Promise!nodeVars)
  BY NodeStep, NodeStutter
<1> QED
  BY <1>1, <1>2, PTL DEF HistorySpec, RunsForward, Promise!Spec

-----------------------------------------------------------------------------
(* The task is restarted for a new interval only: a panel that keeps to    *)
(* one never has it restarted.                                             *)
SamePull == \A p, q \in Pulls : p = q
OneChannel == chan <= 1 /\ (chan # 0 => interval \in Pulls)

LEMMA OneChannelStep ==
  ASSUME SamePull, Struct, Alone, OneChannel, [Next]_vars
  PROVE  OneChannel'
<1>1. CASE Panic
  BY <1>1 DEF Panic, OneChannel
<1>2. CASE CloseTasks \/ UNCHANGED <<taskVars, mon>>
  BY <1>2 DEF CloseTasks, taskVars, OneChannel
<1>3. CASE StartTasks
  <2>1. chan = 0 /\ info \in NodeCfgs
    BY <1>3 DEF StartTasks, Struct, Quiet, Starting, Placed, Owning
  <2> QED
    BY <1>3, <2>1 DEF StartTasks, Spawn, OneChannel, Pulls
<1>4. ASSUME NEW m \in Monitors, MonitorStep(m), ~Panic
      PROVE  OneChannel'
  <2>1. CASE NewInterval(m)
    <3>1. /\ mon[m].pc = "tasks" /\ mon[m].node \in NodeCfgs
          /\ interval # mon[m].node.pull
      BY <2>1 DEF NewInterval, Struct, Placed, Reloading
    <3>2. chan # 0
      BY <3>1 DEF Alone
    <3> QED
      BY <3>1, <3>2 DEF SamePull, OneChannel, Pulls
  <2>2. CASE ~NewInterval(m)
    BY <1>4, <2>2, MonitorMoves DEF Struct, taskVars, OneChannel
  <2> QED
    BY <2>1, <2>2
<1> QED
  BY <1>1, <1>2, <1>3, <1>4, TaskMoves

(* So it is, always, with a panel that never changes the pull interval.    *)
THEOREM GoesForwardAtOneInterval ==
  ASSUME SamePull, Replaced
  PROVE  HistorySpec => RunsForward
<1>1. HistoryInit => Struct /\ Alone /\ OneChannel
  <2>1. HistoryInit => BInv /\ chan = 0
    BY NodeInit DEF NInv, HistoryInit, Init, FreshProcess
  <2> QED
    BY <2>1 DEF BInv, OneChannel
<1>2. Struct /\ Alone /\ OneChannel /\ [HistoryNext]_<<vars, historyVars>>
        => (Struct /\ Alone /\ OneChannel)'
  BY StructStep, AloneStep, OneChannelStep DEF HistoryNext
<1>3. HistorySpec => [](chan <= 1)
  <2>1. Struct /\ Alone /\ OneChannel => chan <= 1
    BY DEF OneChannel
  <2> QED
    BY <1>1, <1>2, <2>1, PTL DEF HistorySpec
<1> QED
  BY <1>3, GoesForward, PTL
=============================================================================
