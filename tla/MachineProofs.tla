---------------------------- MODULE MachineProofs ----------------------------
(***************************************************************************)
(* Proofs about Machine, for any nodes, intervals and number of goroutines *)
(* of the pull task: every Controller that runs is the one the machine has *)
(* for its node.  The argument is mutual exclusion: whoever is between     *)
(* Lock and the end of the sync holds the mutex, so that a node found      *)
(* without a controller still has none when its Start returns.  And the    *)
(* pull task goes on: a sync ends on the channel its task has by then.     *)
(***************************************************************************)
EXTENDS MC_Machine, TLAPS

Holding == {"start", "starting", "close"}

(* The mutex is held throughout syncNodes and updateTasks. *)
LockInv == \A w \in Workers : work[w].pc \in Holding => lock = w

(* The node being started has no controller. *)
StartingInv ==
  \A w \in Workers :
    work[w].pc = "starting" => work[w].node \in Nodes \ controllers

IInv == TypeOK /\ OneController /\ LockInv /\ StartingInv

-----------------------------------------------------------------------------
(* A goroutine that is done holds nothing, and the others go on. *)
LEMMA FinishedState ==
  ASSUME NEW w \in Workers, NEW t \in TaskState,
         work \in [Workers -> WorkState]
  PROVE  /\ Finished(work, w, t) \in [Workers -> WorkState]
         /\ Finished(work, w, t)[w].pc \in {"gone", "wait"}
         /\ \A v \in Workers \ {w} : Finished(work, w, t)[v] = work[v]
<1> DEFINE x == IF w = Main THEN Gone
                ELSE [Gone EXCEPT !.pc = "wait", !.obj = work[w].obj,
                        !.ch = IF work[w].obj = t.obj THEN t.ch ELSE work[w].ch]
<1>1. /\ work[w] \in WorkState
      /\ t.ch \in Nat
  BY DEF TaskState
<1>2. work[w].obj \in Nat /\ work[w].ch \in Nat
  BY <1>1 DEF WorkState
<1>3. x \in WorkState /\ x.pc \in {"gone", "wait"}
  BY <1>1, <1>2 DEF Gone, WorkState
<1>4. Finished(work, w, t) = [work EXCEPT ![w] = x]
  BY DEF Finished
<1> QED
  BY <1>3, <1>4

(* A new goroutine waits, and the others go on. *)
LEMMA SpawnedState ==
  ASSUME NEW t \in TaskState, NEW ws \in [Workers -> WorkState],
         NEW new \in Spawned(ws, t)
  PROVE  /\ new \in [Workers -> WorkState]
         /\ \A v \in Workers : new[v] = ws[v] \/ new[v].pc = "wait"
<1>1. PICK s \in Syncs :
        new = [ws EXCEPT ![s] = [Gone EXCEPT !.pc = "wait", !.obj = t.obj,
                                             !.ch = t.ch]]
  BY DEF Spawned
<1>2. [Gone EXCEPT !.pc = "wait", !.obj = t.obj, !.ch = t.ch] \in WorkState
  BY DEF Gone, WorkState, TaskState
<1> QED
  BY <1>1, <1>2 DEF Workers

(* What the work of others keeps of LockInv and StartingInv when one       *)
(* goroutine moves, the nodes and the mutex staying.                       *)
LEMMA OneMoves ==
  ASSUME IInv, UNCHANGED <<controllers, running, lost>>,
         work' \in [Workers -> WorkState], lock' \in Workers \cup {None},
         NEW w \in Workers,
         \A v \in Workers \ {w} :
           work'[v] = work[v] \/ work'[v].pc \notin Holding,
         work'[w].pc \in Holding => lock' = w,
         lock' = lock \/ lock \in {w, None},
         work'[w].pc = "starting" => work'[w].node \in Nodes \ controllers
  PROVE  OneController' /\ LockInv' /\ StartingInv'
<1>1. OneController'
  BY DEF IInv, OneController
<1>2. LockInv'
  <2>1. SUFFICES ASSUME NEW v \in Workers, work'[v].pc \in Holding
                 PROVE  lock' = v
    BY DEF LockInv
  <2>2. CASE v = w
    BY <2>1, <2>2
  <2>3. CASE v # w
    <3>1. work'[v] = work[v]
      BY <2>1, <2>3
    <3>2. lock = v
      BY <2>1, <3>1 DEF IInv, LockInv
    <3>3. v # None
      BY MachineAssumption DEF Workers
    <3> QED
      BY <2>3, <3>2, <3>3
  <2> QED
    BY <2>2, <2>3
<1>3. StartingInv'
  BY DEF IInv, StartingInv, Holding
<1> QED
  BY <1>1, <1>2, <1>3

-----------------------------------------------------------------------------
(* The panel and the loss of an inbound touch none of this. *)
LEMMA OutsideStep ==
  ASSUME IInv, PanelStep \/ (\E n \in Nodes : LoseInbound(n))
  PROVE  IInv'
<1>0. UNCHANGED <<exited, controllers, running, lock, task, ids, work>>
  BY DEF PanelStep, ChangeList, ChangePull, LoseInbound, nodeVars, taskVars
<1>1. OneController' /\ LockInv' /\ StartingInv'
  BY <1>0 DEF IInv, OneController, LockInv, StartingInv
<1>2. TypeOK'
  <2>1. /\ listed' \in SUBSET Nodes /\ pull' \in Pulls
        /\ changes' \in 0..MaxChanges /\ lost' \in SUBSET controllers
    BY MachineAssumption
       DEF IInv, TypeOK, PanelStep, ChangeList, ChangePull, LoseInbound,
           nodeVars, panelVars
  <2> QED
    BY <1>0, <2>1 DEF IInv, TypeOK
<1> QED
  BY <1>1, <1>2 DEF IInv

(* Nor do the steps outside syncNodes and those that only decide. *)
LEMMA WaitStep ==
  ASSUME IInv, NEW w \in Workers,
         \/ Stop(w) \/ Request(w) \/ RequestFails(w) \/ Lock(w)
         \/ StartFails(w) \/ ToClose(w)
         \/ \E n \in Nodes : Keep(w, n) \/ NewController(w, n)
         \/ \E n \in Nodes : CloseFails(w, n)
  PROVE  IInv'
<1>0. /\ TypeOK /\ work \in [Workers -> WorkState] /\ work[w] \in WorkState
      /\ task \in TaskState
      /\ listed \in SUBSET Nodes /\ pull \in Pulls
  BY DEF IInv, TypeOK
<1>1. UNCHANGED <<panelVars, nodeVars, taskVars>> /\ exited' \in BOOLEAN
  BY <1>0 DEF Stop, Request, RequestFails, Lock, StartFails, ToClose, Keep,
              NewController, CloseFails, TypeOK
<1> DEFINE Moved ==
       /\ work' \in [Workers -> WorkState] /\ lock' \in Workers \cup {None}
       /\ \A v \in Workers \ {w} : work'[v] = work[v]
       /\ work'[w].pc \in Holding => lock' = w
       /\ lock' = lock \/ lock \in {w, None}
       /\ work'[w].pc = "starting" => work'[w].node \in Nodes \ controllers
<1>2. Moved
  <2>1. CASE Stop(w)
    BY <1>0, <2>1 DEF Stop, Gone, WorkState, Holding, TypeOK
  <2>2. CASE Request(w)
    BY <1>0, <2>2 DEF Request, WorkState, Holding, TypeOK
  <2>3. CASE RequestFails(w)
    BY <1>0, <2>3, FinishedState DEF RequestFails, Holding, TypeOK
  <2>4. CASE Lock(w)
    BY <1>0, <2>4 DEF Lock, WorkState, Holding, TypeOK
  <2>5. CASE StartFails(w)
    BY <1>0, <2>5 DEF StartFails, WorkState, Holding, TypeOK, IInv, LockInv
  <2>6. CASE ToClose(w)
    BY <1>0, <2>6 DEF ToClose, WorkState, Holding, TypeOK, IInv, LockInv
  <2>7. ASSUME NEW n \in Nodes, Keep(w, n)
        PROVE  Moved
    BY <1>0, <2>7 DEF Keep, WorkState, Holding, TypeOK, IInv, LockInv
  <2>8. ASSUME NEW n \in Nodes, NewController(w, n)
        PROVE  Moved
    BY <1>0, <2>8 DEF NewController, WorkState, Holding, TypeOK, IInv, LockInv
  <2>9. ASSUME NEW n \in Nodes, CloseFails(w, n)
        PROVE  Moved
    BY <1>0, <2>9, FinishedState
       DEF CloseFails, Holding, TypeOK, IInv, LockInv
  <2> QED
    BY <2>1, <2>2, <2>3, <2>4, <2>5, <2>6, <2>7, <2>8, <2>9
<1>3. OneController' /\ LockInv' /\ StartingInv'
  BY <1>1, <1>2, OneMoves DEF nodeVars
<1>4. TypeOK'
  BY <1>0, <1>1, <1>2 DEF TypeOK, panelVars, nodeVars, taskVars
<1> QED
  BY <1>3, <1>4 DEF IInv

-----------------------------------------------------------------------------
(* A node's Start returns: nobody else holds the mutex, and the node still *)
(* has no controller.                                                      *)
LEMMA StartedStep ==
  ASSUME IInv, NEW w \in Workers, Started(w)
  PROVE  IInv'
<1> DEFINE n == work[w].node
<1>0. /\ TypeOK /\ work \in [Workers -> WorkState] /\ work[w] \in WorkState
      /\ work[w].pc = "starting" /\ n \in Nodes \ controllers /\ lock = w
      /\ running \in [Nodes -> Nat] /\ running[n] = 0
  BY DEF IInv, TypeOK, Started, LockInv, StartingInv, Holding, OneController
<1>1. /\ running' = [running EXCEPT ![n] = 1]
      /\ controllers' = controllers \cup {n}
      /\ UNCHANGED <<listed, pull, changes, exited, lost, lock, task, ids>>
      /\ work' = [work EXCEPT ![w].pc = "start", ![w].node = None]
  <2>1. running[n] + 1 = 1
    BY <1>0
  <2> HIDE DEF n
  <2>2. running' = [running EXCEPT ![n] = 1] /\ controllers' = controllers \cup {n}
    BY <2>1 DEF Started, n
  <2>3. UNCHANGED <<listed, pull, changes, exited, lost, lock, task, ids>>
    BY DEF Started, panelVars, taskVars
  <2> QED
    BY <2>2, <2>3 DEF Started
<1>2. TypeOK'
  <2>1. work' \in [Workers -> WorkState]
    BY <1>0, <1>1 DEF WorkState
  <2> QED
    BY <1>0, <1>1, <2>1 DEF TypeOK
<1>3. OneController'
  BY <1>0, <1>1 DEF IInv, OneController
<1>4. /\ \A v \in Workers \ {w} : work'[v] = work[v] /\ work[v].pc \notin Holding
      /\ work'[w].pc = "start"
  BY <1>0, <1>1 DEF IInv, LockInv, WorkState
<1>5. LockInv' /\ StartingInv'
  BY <1>0, <1>1, <1>4 DEF LockInv, StartingInv, Holding
<1> QED
  BY <1>2, <1>3, <1>5 DEF IInv

LEMMA CloseNodeStep ==
  ASSUME IInv, NEW w \in Workers, NEW n \in Nodes, CloseNode(w, n)
  PROVE  IInv'
<1>0. /\ TypeOK /\ work[w].pc = "close" /\ n \in controllers \ lost /\ lock = w
      /\ running \in [Nodes -> Nat] /\ running[n] = 1
  BY DEF IInv, TypeOK, CloseNode, LockInv, Holding, OneController
<1>1. /\ running' = [running EXCEPT ![n] = 0]
      /\ controllers' = controllers \ {n}
      /\ UNCHANGED <<listed, pull, changes, exited, lost, lock, task, ids, work>>
  BY <1>0 DEF CloseNode, panelVars, taskVars
<1>2. TypeOK'
  BY <1>0, <1>1 DEF TypeOK
<1>3. OneController'
  BY <1>0, <1>1 DEF IInv, OneController
<1>4. LockInv' /\ StartingInv'
  BY <1>1 DEF IInv, LockInv, StartingInv
<1> QED
  BY <1>2, <1>3, <1>4 DEF IInv

LEMMA RollbackStep ==
  ASSUME IInv, Rollback
  PROVE  IInv'
<1>0. /\ TypeOK /\ work \in [Workers -> WorkState] /\ Main \in Workers
      /\ lock = Main
  BY DEF IInv, TypeOK, Rollback, LockInv, Holding, Workers
<1>1. /\ running' = [n \in Nodes |-> 0] /\ controllers' = {} /\ lost' = {}
      /\ exited' = TRUE /\ lock' = None
      /\ UNCHANGED <<listed, pull, changes, task, ids>>
      /\ work' = [work EXCEPT ![Main] = Gone]
  BY DEF Rollback, panelVars, taskVars
<1>2. Gone \in WorkState /\ Gone.pc = "gone"
  BY DEF Gone, WorkState
<1>3. TypeOK'
  <2>1. work' \in [Workers -> WorkState]
    BY <1>0, <1>1, <1>2
  <2> QED
    BY <1>0, <1>1, <2>1 DEF TypeOK
<1>4. OneController'
  BY <1>1 DEF OneController
<1>5. \A v \in Workers : work'[v].pc \notin Holding
  BY <1>0, <1>1, <1>2 DEF IInv, LockInv, Holding
<1>6. LockInv' /\ StartingInv'
  BY <1>5 DEF LockInv, StartingInv, Holding
<1> QED
  BY <1>3, <1>4, <1>6 DEF IInv

(* At the end of a sync its goroutine is done, and at most one that waits  *)
(* comes in.                                                               *)
LEMMA UpdateTasksState ==
  ASSUME TypeOK, NEW w \in Workers, UpdateTasks(w)
  PROVE  /\ task' \in TaskState /\ ids' \in Nat
         /\ work' \in [Workers -> WorkState]
         /\ \A v \in Workers \ {w} :
              work'[v] = work[v] \/ work'[v].pc = "wait"
         /\ work'[w].pc \in {"gone", "wait"}
<1> DEFINE p == work[w].pull
           t == NewTask(p)
<1>0. /\ work \in [Workers -> WorkState] /\ task \in TaskState /\ ids \in Nat
      /\ p \in Pulls \cup {0}
  BY DEF TypeOK, WorkState
<1>1. t \in TaskState
  BY <1>0 DEF NewTask, TaskState
<1>2. CASE work' \in Spawned(Finished(work, w, t), t) /\ task' = t /\ ids' = ids + 1
  <2> DEFINE ws == Finished(work, w, t)
  <2>1. /\ ws \in [Workers -> WorkState]
        /\ ws[w].pc \in {"gone", "wait"}
        /\ \A v \in Workers \ {w} : ws[v] = work[v]
    BY <1>0, <1>1, FinishedState
  <2>2. /\ work' \in [Workers -> WorkState]
        /\ \A v \in Workers : work'[v] = ws[v] \/ work'[v].pc = "wait"
    <3> HIDE DEF ws, t
    <3> QED
      BY <1>1, <1>2, <2>1, SpawnedState DEF ws
  <2> QED
    BY <1>0, <1>1, <1>2, <2>1, <2>2
<1>3. CASE work' = Finished(work, w, task) /\ UNCHANGED taskVars
  BY <1>0, <1>3, FinishedState DEF taskVars
<1>4. CASE /\ task' = [obj |-> 0, ch |-> 0, interval |-> 0] /\ UNCHANGED ids
           /\ work' = Finished(work, w, task')
  <2>1. task' \in TaskState
    BY <1>4 DEF TaskState
  <2> QED
    BY <1>0, <1>4, <2>1, FinishedState
<1> QED
  BY <1>2, <1>3, <1>4 DEF UpdateTasks

(* The end of a sync: the mutex is given back.                             *)
LEMMA UpdateTasksStep ==
  ASSUME IInv, NEW w \in Workers, UpdateTasks(w)
  PROVE  IInv'
<1>0. /\ TypeOK /\ work[w].pc = "close" /\ lock = w /\ lock' = None
      /\ UNCHANGED <<panelVars, exited, nodeVars>>
  BY DEF IInv, UpdateTasks, LockInv, Holding
<1>1. /\ task' \in TaskState /\ ids' \in Nat
      /\ work' \in [Workers -> WorkState]
      /\ \A v \in Workers \ {w} : work'[v] = work[v] \/ work'[v].pc = "wait"
      /\ work'[w].pc \in {"gone", "wait"}
  BY <1>0, UpdateTasksState
<1>2. OneController' /\ LockInv' /\ StartingInv'
  BY <1>0, <1>1, OneMoves, MachineAssumption DEF nodeVars, Holding
<1>3. TypeOK'
  BY <1>0, <1>1 DEF TypeOK, panelVars, nodeVars
<1> QED
  BY <1>2, <1>3 DEF IInv

-----------------------------------------------------------------------------
LEMMA IInvInit ==
  ASSUME Init
  PROVE  IInv
<1>1. \A w \in Workers : work[w] \in WorkState /\ work[w].pc \in {"gone", "wait"}
  BY DEF Init, Gone, WorkState
<1>2. TypeOK
  <2>1. work \in [Workers -> WorkState]
    BY <1>1 DEF Init
  <2>2. /\ listed \in SUBSET Nodes /\ pull \in Pulls /\ changes = 0
        /\ exited = FALSE /\ controllers = {} /\ lost = {} /\ lock = None
        /\ running = [n \in Nodes |-> 0] /\ ids = 0
    BY DEF Init
  <2>3. task \in TaskState
    BY DEF Init, TaskState
  <2>4. changes \in 0..MaxChanges
    BY <2>2, MachineAssumption
  <2> QED
    BY <2>1, <2>2, <2>3, <2>4 DEF TypeOK
<1>3. OneController
  BY DEF Init, OneController
<1>4. LockInv /\ StartingInv
  BY <1>1 DEF LockInv, StartingInv, Holding
<1> QED
  BY <1>2, <1>3, <1>4 DEF IInv

LEMMA IInvStep ==
  ASSUME IInv, [Next]_vars
  PROVE  IInv'
<1>1. ASSUME NEW w \in Workers, WorkStep(w)
      PROVE  IInv'
  BY <1>1, WaitStep, StartedStep, CloseNodeStep, UpdateTasksStep DEF WorkStep
<1>2. CASE UNCHANGED vars
  BY <1>2 DEF vars, panelVars, nodeVars, taskVars, IInv, TypeOK, OneController,
              LockInv, StartingInv
<1> QED
  BY <1>1, <1>2, OutsideStep, RollbackStep DEF Next

LEMMA Invariance == Spec => []IInv
<1> QED
  BY IInvInit, IInvStep, PTL DEF Spec

(* Every variable of the machine (node/machine.go) holds a value of its    *)
(* kind, for any nodes and any number of goroutines.                       *)
THEOREM TypeCorrect == Spec => []TypeOK
<1>1. IInv => TypeOK
  BY DEF IInv
<1> QED
  BY <1>1, Invariance, PTL

(* syncNodes never starts a second Controller beside one that runs, and    *)
(* never forgets one: those that run are those in Machine.controllers.     *)
THEOREM ControllersOwned == Spec => []OneController
<1>1. IInv => OneController
  BY DEF IInv
<1> QED
  BY <1>1, Invariance, PTL

-----------------------------------------------------------------------------
(* The goroutine s is the one that goes on by the pull task there is.      *)
Follows(s) ==
  /\ work[s].pc # "gone" /\ work[s].obj = task.obj
  /\ work[s].pc = "wait" => work[s].ch = task.ch

(* What a goroutine does in a sync leaves it its task object, and takes it *)
(* out of the wait.                                                        *)
LEMMA FollowsStep ==
  ASSUME TypeOK, NEW w \in Workers, NEW s \in Syncs, Follows(s),
         \/ Stop(w) \/ Request(w) \/ RequestFails(w) \/ Lock(w)
         \/ Started(w) \/ StartFails(w) \/ ToClose(w)
         \/ \E n \in Nodes : Keep(w, n) \/ NewController(w, n)
         \/ \E n \in Nodes : CloseNode(w, n) \/ CloseFails(w, n)
  PROVE  Follows(s)'
<1>0. /\ work \in [Workers -> WorkState] /\ s \in Workers /\ s # Main
      /\ work[s] \in WorkState /\ work[w] \in WorkState
  BY MachineAssumption DEF TypeOK, Workers
<1>1. UNCHANGED task
  BY DEF Stop, Request, RequestFails, Lock, Started, StartFails, ToClose, Keep,
         NewController, CloseNode, CloseFails, taskVars
<1>2. CASE work'[s] = work[s]
  BY <1>1, <1>2 DEF Follows
<1>3. CASE work'[s] # work[s]
  <2>1. CASE Stop(w)
    BY <1>0, <1>3, <2>1 DEF Stop, Follows
  <2>2. CASE RequestFails(w) \/ \E n \in Nodes : CloseFails(w, n)
    <3>1. work' = Finished(work, w, task)
      BY <2>2 DEF RequestFails, CloseFails
    <3>2. /\ w = s
          /\ work'[s] = [Gone EXCEPT !.pc = "wait", !.obj = work[s].obj,
                           !.ch = IF work[s].obj = task.obj THEN task.ch ELSE work[s].ch]
      BY <1>0, <1>3, <3>1 DEF Finished
    <3> QED
      BY <1>1, <3>2 DEF Follows, Gone
  <2>3. CASE \/ Request(w) \/ Lock(w) \/ Started(w) \/ StartFails(w) \/ ToClose(w)
             \/ \E n \in Nodes : Keep(w, n) \/ NewController(w, n)
             \/ \E n \in Nodes : CloseNode(w, n)
    <3>1. /\ w = s /\ work'[s].obj = work[s].obj
          /\ work'[s].pc \in {"lock", "start", "starting", "close"}
      <4>1. CASE Request(w) \/ Lock(w)
        BY <1>0, <1>3, <4>1 DEF Request, Lock, WorkState
      <4>2. CASE Started(w) \/ StartFails(w) \/ ToClose(w)
        BY <1>0, <1>3, <4>2 DEF Started, StartFails, ToClose, WorkState
      <4>3. ASSUME NEW n \in Nodes, Keep(w, n) \/ NewController(w, n)
            PROVE  /\ w = s /\ work'[s].obj = work[s].obj
                   /\ work'[s].pc \in {"lock", "start", "starting", "close"}
        <5>1. w = s /\ work[s].pc = "start"
          BY <1>0, <1>3, <4>3 DEF Keep, NewController
        <5>2. CASE Keep(w, n)
          BY <1>0, <5>1, <5>2 DEF Keep, WorkState
        <5>3. CASE NewController(w, n)
          BY <1>0, <5>1, <5>3 DEF NewController, WorkState
        <5> QED
          BY <4>3, <5>2, <5>3
      <4>4. ASSUME NEW n \in Nodes, CloseNode(w, n)
            PROVE  FALSE
        BY <1>3, <4>4 DEF CloseNode
      <4> QED
        BY <2>3, <4>1, <4>2, <4>3, <4>4
    <3> QED
      BY <1>1, <3>1 DEF Follows
  <2> QED
    BY <2>1, <2>2, <2>3
<1> QED
  BY <1>2, <1>3

(* updateTasks makes a goroutine for each object and channel it makes, and *)
(* the one that runs it waits on the channel its task has then.            *)
LEMMA SpawnedFollows ==
  ASSUME TypeOK, NEW w \in Workers, UpdateTasks(w), SyncGoesOn
  PROVE  SyncGoesOn'
<1> DEFINE p == work[w].pull
           t == NewTask(p)
<1>0. /\ work \in [Workers -> WorkState] /\ task \in TaskState
      /\ work[w] \in WorkState /\ p \in Pulls \cup {0} /\ ids \in Nat
  BY DEF TypeOK, WorkState
<1>1. CASE task' = t /\ work' \in Spawned(Finished(work, w, t), t)
  <2> DEFINE ws == Finished(work, w, t)
  <2>1. t \in TaskState
    BY <1>0 DEF NewTask, TaskState
  <2>2. ws \in [Workers -> WorkState]
    BY <1>0, <2>1, FinishedState
  <2> HIDE DEF ws, t
  <2>3. PICK s \in Syncs :
          work' = [ws EXCEPT ![s] = [Gone EXCEPT !.pc = "wait", !.obj = t.obj,
                                                 !.ch = t.ch]]
    BY <1>1 DEF Spawned, ws
  <2>4. work'[s] = [Gone EXCEPT !.pc = "wait", !.obj = t.obj, !.ch = t.ch]
    BY <2>2, <2>3 DEF Workers
  <2> QED
    BY <1>1, <2>4 DEF SyncGoesOn, Gone
<1>2. CASE UNCHANGED taskVars /\ work' = Finished(work, w, task)
  <2>1. SUFFICES ASSUME task.obj # 0
                 PROVE  SyncGoesOn'
    BY <1>2 DEF SyncGoesOn, taskVars
  <2>2. PICK s \in Syncs : Follows(s)
    BY <2>1 DEF SyncGoesOn, Follows
  <2>3. s \in Workers /\ s # Main
    BY MachineAssumption DEF Workers
  <2>4. CASE s = w
    <3>1. work'[s] = [Gone EXCEPT !.pc = "wait", !.obj = work[s].obj,
                       !.ch = IF work[s].obj = task.obj THEN task.ch ELSE work[s].ch]
      BY <1>0, <1>2, <2>3, <2>4 DEF Finished
    <3>2. work'[s].pc = "wait" /\ work'[s].obj = task.obj /\ work'[s].ch = task.ch
      BY <2>2, <3>1 DEF Follows, Gone
    <3> QED
      BY <1>2, <3>2 DEF SyncGoesOn, taskVars
  <2>5. CASE s # w
    <3>1. work'[s] = work[s]
      BY <1>0, <1>2, <2>3, <2>5, FinishedState
    <3> QED
      BY <1>2, <2>2, <3>1 DEF SyncGoesOn, Follows, taskVars
  <2> QED
    BY <2>4, <2>5
<1>3. CASE task' = [obj |-> 0, ch |-> 0, interval |-> 0]
  BY <1>3 DEF SyncGoesOn
<1> QED
  BY <1>1, <1>2, <1>3 DEF UpdateTasks

LEMMA SyncGoesOnStep ==
  ASSUME TypeOK, SyncGoesOn, [Next]_vars
  PROVE  SyncGoesOn'
<1>1. ASSUME NEW w \in Workers, WorkStep(w), ~UpdateTasks(w)
      PROVE  SyncGoesOn'
  <2>1. UNCHANGED task
    BY <1>1 DEF WorkStep, Stop, Request, RequestFails, Lock, Started, StartFails,
                ToClose, Keep, NewController, CloseNode, CloseFails, taskVars
  <2>2. \A s \in Syncs : Follows(s) => Follows(s)'
    BY <1>1, FollowsStep DEF WorkStep
  <2> QED
    BY <2>1, <2>2 DEF SyncGoesOn, Follows
<1>2. CASE PanelStep \/ (\E n \in Nodes : LoseInbound(n)) \/ UNCHANGED vars
  <2>1. UNCHANGED <<task, work>>
    BY <1>2 DEF PanelStep, ChangeList, ChangePull, LoseInbound, vars, taskVars
  <2> QED
    BY <2>1 DEF SyncGoesOn
<1>3. CASE Rollback
  <2>1. /\ UNCHANGED task
        /\ \A s \in Syncs : work'[s] = work[s]
    BY <1>3, MachineAssumption DEF Rollback, taskVars, TypeOK, Workers
  <2> QED
    BY <2>1 DEF SyncGoesOn
<1> QED
  BY <1>1, <1>2, <1>3, SpawnedFollows DEF Next

(* An interval that changes restarts the pull task from within its own     *)
(* Execute, and responses are applied out of order: as long as there is a  *)
(* pull task, a goroutine goes on by the object and the channel it has.    *)
THEOREM PullNeverStops == Spec => []SyncGoesOn
<1>1. Init => SyncGoesOn
  BY DEF Init, SyncGoesOn
<1>2. TypeOK /\ SyncGoesOn /\ [Next]_vars => SyncGoesOn'
  BY SyncGoesOnStep
<1> QED
  BY <1>1, <1>2, TypeCorrect, PTL DEF Spec

-----------------------------------------------------------------------------
(* What the machine has come to run, it keeps.                             *)

(* A sync starts no node but those of the response it has.                 *)
ByResponse ==
  \A w \in Workers :
    /\ work[w].pc \in {"start", "starting"} => work[w].todo \subseteq work[w].resp
    /\ work[w].pc = "starting" => work[w].node \in work[w].resp

LEMMA ByResponseStep ==
  ASSUME TypeOK, ByResponse, [Next]_vars
  PROVE  ByResponse'
<1>0. work \in [Workers -> WorkState]
  BY DEF TypeOK
<1> DEFINE Good(v) ==
       /\ v.pc \in {"start", "starting"} => v.todo \subseteq v.resp
       /\ v.pc = "starting" => v.node \in v.resp
<1>1. \A w \in Workers : work[w] \in WorkState /\ Good(work[w])
  BY <1>0 DEF ByResponse
<1>2. ASSUME NEW w \in Workers, WorkStep(w), NEW v \in Workers
      PROVE  Good(work'[v])
  <2>1. CASE Stop(w)
    BY <1>0, <1>1, <2>1 DEF Stop, Gone
  <2>2. CASE RequestFails(w) \/ \E n \in Nodes : CloseFails(w, n)
    <3>1. work' = Finished(work, w, task) /\ task \in TaskState
      BY <2>2 DEF RequestFails, CloseFails, TypeOK
    <3>2. work'[v] = work[v] \/ work'[v].pc \in {"gone", "wait"}
      BY <1>0, <3>1, FinishedState
    <3> QED
      BY <1>1, <3>2
  <2>3. CASE Request(w) \/ Lock(w)
    BY <1>0, <1>1, <2>3 DEF Request, Lock, WorkState
  <2>4. CASE \E n \in Nodes : Keep(w, n) \/ NewController(w, n)
    <3>1. PICK n \in Nodes : Keep(w, n) \/ NewController(w, n)
      BY <2>4
    <3>2. n \in work[w].todo /\ work[w].pc = "start" /\ work[w].todo \subseteq work[w].resp
      BY <1>1, <3>1 DEF Keep, NewController
    <3>3. CASE Keep(w, n)
      BY <1>0, <1>1, <3>2, <3>3 DEF Keep, WorkState
    <3>4. CASE NewController(w, n)
      BY <1>0, <1>1, <3>2, <3>4 DEF NewController, WorkState
    <3> QED
      BY <3>1, <3>3, <3>4
  <2>5. CASE Started(w) \/ StartFails(w)
    BY <1>0, <1>1, <2>5 DEF Started, StartFails, WorkState
  <2>6. CASE ToClose(w)
    BY <1>0, <1>1, <2>6 DEF ToClose, WorkState
  <2>7. CASE \E n \in Nodes : CloseNode(w, n)
    BY <1>1, <2>7 DEF CloseNode
  <2>8. CASE UpdateTasks(w)
    <3>1. work'[v] = work[v] \/ work'[v].pc \in {"gone", "wait"}
      BY <2>8, UpdateTasksState
    <3> QED
      BY <1>1, <3>1
  <2> QED
    BY <1>2, <2>1, <2>2, <2>3, <2>4, <2>5, <2>6, <2>7, <2>8 DEF WorkStep
<1>3. CASE Rollback
  BY <1>0, <1>1, <1>3 DEF Rollback, Gone, ByResponse
<1>4. CASE PanelStep \/ (\E n \in Nodes : LoseInbound(n)) \/ UNCHANGED vars
  <2>1. UNCHANGED work
    BY <1>4 DEF PanelStep, ChangeList, ChangePull, LoseInbound, vars
  <2> QED
    BY <2>1 DEF ByResponse
<1> QED
  BY <1>2, <1>3, <1>4 DEF Next, ByResponse

(* The machine runs the listed nodes, and no sync under way has an older   *)
(* response.                                                               *)
Settled ==
  /\ Synced
  /\ \A w \in Workers : work[w].pc \notin {"gone", "wait"} => work[w].resp = listed

KeepsSettled ==
  Settled /\ UNCHANGED listed => Settled' /\ UNCHANGED <<controllers, running>>

LEMMA SettledStep ==
  ASSUME IInv, ByResponse, Settled, UNCHANGED listed, [Next]_vars
  PROVE  Settled' /\ UNCHANGED <<controllers, running>>
<1>0. /\ TypeOK /\ work \in [Workers -> WorkState] /\ lost \subseteq controllers
      /\ controllers \subseteq Nodes
  BY DEF IInv, TypeOK
<1>1. \A w \in Workers : work[w].pc # "starting"
  BY <1>0 DEF IInv, StartingInv, ByResponse, Settled, Synced
<1>2. \A w \in Workers, n \in Nodes : ~CloseNode(w, n) /\ ~NewController(w, n)
  BY <1>0 DEF CloseNode, NewController, ByResponse, Settled, Synced
<1>3. ~Rollback /\ \A w \in Workers : ~Started(w) /\ ~StartFails(w)
  BY <1>1 DEF Rollback, Started, StartFails, Workers
<1>4. UNCHANGED <<controllers, running>> /\ lost \subseteq lost'
  BY <1>2, <1>3
     DEF Next, WorkStep, PanelStep, ChangeList, ChangePull, LoseInbound, Stop,
         Request, RequestFails, Lock, Keep, ToClose, CloseFails, UpdateTasks,
         nodeVars, vars
<1>5. Synced'
  BY <1>4 DEF Settled, Synced
<1>6. ASSUME NEW w \in Workers, WorkStep(w), NEW v \in Workers
      PROVE  \/ work'[v].pc \in {"gone", "wait"}
             \/ work'[v].resp = listed
  <2>0. work[v].pc \in {"gone", "wait"} \/ work[v].resp = listed
    BY DEF Settled
  <2>1. CASE Stop(w)
    BY <1>0, <2>0, <2>1 DEF Stop, Gone
  <2>2. CASE RequestFails(w) \/ \E n \in Nodes : CloseFails(w, n)
    <3>1. work' = Finished(work, w, task) /\ task \in TaskState
      BY <1>0, <2>2 DEF RequestFails, CloseFails, TypeOK
    <3>2. work'[v] = work[v] \/ work'[v].pc \in {"gone", "wait"}
      BY <1>0, <3>1, FinishedState
    <3> QED
      BY <2>0, <3>2
  <2>3. CASE Request(w)
    BY <1>0, <2>0, <2>3 DEF Request, WorkState
  <2>4. CASE Lock(w) \/ ToClose(w) \/ \E n \in Nodes : Keep(w, n)
    BY <1>0, <2>0, <2>4 DEF Lock, ToClose, Keep, WorkState
  <2>5. CASE UpdateTasks(w)
    <3>1. work'[v] = work[v] \/ work'[v].pc \in {"gone", "wait"}
      BY <1>0, <2>5, UpdateTasksState
    <3> QED
      BY <2>0, <3>1
  <2> QED
    BY <1>2, <1>3, <1>6, <2>1, <2>2, <2>3, <2>4, <2>5 DEF WorkStep
<1>7. CASE PanelStep \/ (\E n \in Nodes : LoseInbound(n)) \/ UNCHANGED vars
  <2>1. UNCHANGED work
    BY <1>7 DEF PanelStep, ChangeList, ChangePull, LoseInbound, vars
  <2> QED
    BY <1>4, <1>5, <2>1 DEF Settled
<1>8. ASSUME NEW w \in Workers, WorkStep(w)
      PROVE  Settled'
  BY <1>5, <1>6, <1>8 DEF Settled
<1> QED
  BY <1>3, <1>4, <1>7, <1>8 DEF Next

(* The safety half of Converges: while the list stays the same, a machine  *)
(* that runs the listed nodes starts and closes no controller any more,    *)
(* though requests fail, tasks are restarted, syncs overlap and nodes lose *)
(* their inbound, once no sync has an older response (syncNodes).          *)
THEOREM SettledStays == Spec => [][KeepsSettled]_vars
<1>1. Init => ByResponse
  BY DEF Init, ByResponse, Gone
<1>2. TypeOK /\ ByResponse /\ [Next]_vars => ByResponse'
  BY ByResponseStep
<1>3. IInv /\ ByResponse /\ [Next]_vars => [KeepsSettled]_vars
  BY SettledStep DEF KeepsSettled
<1> QED
  BY <1>1, <1>2, <1>3, TypeCorrect, Invariance, PTL DEF Spec

-----------------------------------------------------------------------------
(* Unsigned integers: a difference that is not negative is the true one.   *)
LEMMA MinusExact ==
  ASSUME NEW a \in Word, NEW b \in 0..a
  PROVE  Minus(a, b) = a - b
BY StatusAssumption DEF Word, Minus

LEMMA InWord ==
  ASSUME NEW a \in Nat, NEW b \in Word
  PROVE  /\ Plus(a, b) \in Word /\ Times(a, b) \in Word
         /\ a \in Word => Minus(a, b) \in Word
<1>1. \A x \in Nat : x % Values \in Word
  BY StatusAssumption DEF Word
<1>2. b \in Nat /\ a + b \in Nat /\ a * b \in Nat /\ a + Values - b \in Nat
  BY StatusAssumption DEF Word
<1> QED
  BY <1>1, <1>2 DEF Plus, Times, Minus

(* What is left of a total is no more than it. *)
LEMMA RestSound ==
  ASSUME NEW total \in Word, NEW x \in Word
  PROVE  /\ Minus(total, AtMost(x, total)) = total - AtMost(x, total)
         /\ Minus(total, AtMost(x, total)) <= total
<1>1. AtMost(x, total) \in 0..total
  BY DEF AtMost, Word
<1>2. Minus(total, AtMost(x, total)) = total - AtMost(x, total)
  BY <1>1, MinusExact
<1> QED
  BY <1>1, <1>2 DEF Word

LEMMA CpuSound ==
  ASSUME NEW c \in [lastTotal : Word, lastIdle : Word, total : Word, idle : Word]
  PROVE  LET cpu   == Cpu(c.lastTotal, c.lastIdle, c.total, c.idle)
             ticks == c.total - c.lastTotal
             idle  == c.idle - c.lastIdle IN
         /\ Sound(cpu)
         /\ ticks > 0 /\ idle \in 0..ticks
              => cpu = [total |-> ticks, used |-> ticks - idle]
<1> DEFINE cpu   == Cpu(c.lastTotal, c.lastIdle, c.total, c.idle)
           t     == Minus(c.total, c.lastTotal)
           i     == Minus(c.idle, c.lastIdle)
<1>0. /\ c.lastTotal \in Word /\ c.lastIdle \in Word /\ c.total \in Word
      /\ c.idle \in Word
  OBVIOUS
<1>1. CASE ~(c.total > c.lastTotal)
  <2>1. cpu = [total |-> 1, used |-> 0]
    BY <1>1 DEF Cpu
  <2> QED
    BY <1>0, <1>1, <2>1 DEF Sound, Word
<1>2. CASE c.total > c.lastTotal
  <2>1. t = c.total - c.lastTotal
    <3>1. c.lastTotal \in 0..c.total
      BY <1>0, <1>2 DEF Word
    <3> QED
      BY <1>0, <3>1, MinusExact
  <2>2. t \in Word /\ i \in Word
    BY <1>0, InWord DEF Word
  <2>3. cpu.total = t /\ cpu.used = Minus(t, AtMost(i, t))
    BY <1>2 DEF Cpu
  <2>4. cpu = [total |-> t, used |-> Minus(t, AtMost(i, t))]
    BY <1>2 DEF Cpu
  <2>5. Sound(cpu)
    BY <2>2, <2>3, RestSound DEF Sound
  <2>6. ASSUME c.idle - c.lastIdle \in 0..(c.total - c.lastTotal)
        PROVE  Minus(t, AtMost(i, t)) = t - (c.idle - c.lastIdle)
    <3>1. c.lastIdle \in 0..c.idle
      BY <1>0, <2>6 DEF Word
    <3>2. i = c.idle - c.lastIdle
      BY <1>0, <3>1, MinusExact
    <3>3. AtMost(i, t) = i
      BY <2>1, <2>6, <3>2 DEF AtMost, Word
    <3> HIDE DEF t, i
    <3> QED
      BY <2>2, <3>2, <3>3, RestSound
  <2> HIDE DEF cpu, t, i
  <2> QED
    BY <2>1, <2>4, <2>5, <2>6 DEF cpu
<1> QED
  BY <1>1, <1>2

LEMMA MemorySound ==
  ASSUME NEW m \in [total : Word, available : Word \cup {Absent}, free : Word,
                    buffers : Nat, cached : Word, reclaimable : Nat,
                    shmem : Word]
  PROVE  Sound(Memory(m))
<1> DEFINE some == Plus(m.free, m.buffers)
           more == Plus(some, m.cached)
           sum == Plus(more, m.reclaimable)
<1>1. m.buffers \in Nat /\ m.reclaimable \in Nat /\ Word \subseteq Nat
  BY DEF Word
<1>2. sum \in Word
  <2>1. some \in Nat
    BY <1>1, StatusAssumption DEF Plus, Word
  <2>2. more \in Nat
    <3> HIDE DEF some
    <3> QED
      BY <1>1, <2>1, StatusAssumption DEF Plus, Word
  <2> HIDE DEF more
  <2> QED
    BY <1>1, <2>2, StatusAssumption DEF Plus, Word
<1>3. Available(m) \in Word
  <2>1. Minus(sum, m.shmem) \in Word
    BY <1>1, <1>2, InWord
  <2> QED
    BY <1>2, <2>1 DEF Available
<1> QED
  BY <1>3, RestSound DEF Sound, Memory

LEMMA DiskSound ==
  ASSUME NEW d \in [blocks : Word, free : Word, size : Word]
  PROVE  Sound(Disk(d.blocks, d.free, d.size))
<1>1. Word \subseteq Nat
  BY DEF Word
<1>2. Times(d.blocks, d.size) \in Word /\ Times(d.free, d.size) \in Word
  BY <1>1, InWord
<1> QED
  BY <1>2, RestSound DEF Sound, Disk

(* Whatever the kernel says, at whatever moments the two status tasks take *)
(* the last sample, the panel is never told that more is used than there   *)
(* is, for unsigned integers of any width.                                 *)
THEOREM FiguresSound == Spec => []StatusSound
<1>1. Misreported.cpu = {}
  BY CpuSound DEF Misreported
<1>2. Misreported.memory = {}
  <2>1. \A m \in [total : Word, available : Word \cup {Absent}, free : Word,
                  buffers : {0, 1}, cached : Word, reclaimable : {0, 1},
                  shmem : Word] : Sound(Memory(m))
    BY MemorySound
  <2> QED
    BY <2>1 DEF Misreported
<1>3. Misreported.disk = {}
  BY DiskSound DEF Misreported
<1>4. DOMAIN Misreported = {"cpu", "memory", "disk"}
  BY DEF Misreported
<1>5. StatusSound
  BY <1>1, <1>2, <1>3, <1>4 DEF StatusSound
<1> QED
  BY <1>5, PTL

=============================================================================
