------------------------------- MODULE Machine -------------------------------
(***************************************************************************)
(* A machine keeps one controller for every node the panel lists           *)
(* (node/machine.go).  Start, called once by the main goroutine, and       *)
(* syncTask, run by the pull task, request the list and then, under the    *)
(* mutex, start what is missing, close what is not listed any more, and    *)
(* set the pull task to the interval of the response.                      *)
(*                                                                         *)
(* An interval that changes restarts the pull task from within its own     *)
(* Execute: the goroutine goes on beside the new one (see Task), requests  *)
(* overlap, and responses may be applied out of order.  A request, a       *)
(* wait for the mutex, and a node's Start are steps of their own; what     *)
(* happens in Start and Close is Controller's subject.  Close of the       *)
(* machine, called when the configuration file changes, is in Service, and *)
(* the status task, which touches no node, is left out.                    *)
(***************************************************************************)
EXTENDS Naturals, FiniteSets

CONSTANTS
  Nodes,
  Pulls,      \* intervals the panel may ask for, 0 for none
  Syncs,      \* goroutines of the pull task (bounds the model)
  Main,       \* the main goroutine
  MaxChanges, \* changes of the panel's answer (bounds the model)
  MaxLosses,  \* nodes that may lose their inbound (bounds the model)
  None        \* no goroutine, no node

ASSUME MachineAssumption ==
  /\ Pulls \subseteq Nat /\ MaxChanges \in Nat /\ MaxLosses \in Nat
  /\ Main \notin Syncs /\ None \notin Syncs \cup {Main} \cup Nodes

Workers == Syncs \cup {Main}

VARIABLES
  listed, pull,  \* the panel's answer
  changes,       \* how often it changed
  exited,        \* whether Start failed, which ends the process
  controllers,   \* Machine.controllers
  running,       \* node -> Controllers of it that were started, not closed
  lost,          \* nodes whose controller has no inbound (Controller, NodeUp)
  lock,          \* who holds Machine.access
  task,          \* Machine.pullTask: object (0 for nil), channel, Interval
  ids,           \* objects and channels made so far
  work           \* what each goroutine is doing

panelVars == <<listed, pull, changes>>
nodeVars  == <<controllers, running, lost>>
taskVars  == <<task, ids>>
vars == <<panelVars, exited, nodeVars, lock, taskVars, work>>

Gone == [pc |-> "gone", obj |-> 0, ch |-> 0, resp |-> {}, pull |-> 0,
         todo |-> {}, node |-> None]

TaskState == [obj : Nat, ch : Nat, interval : Pulls \cup {0}]

WorkState ==
  [pc : {"gone", "wait", "lock", "start", "starting", "close"},
   obj : Nat, ch : Nat, resp : SUBSET Nodes, pull : Pulls \cup {0},
   todo : SUBSET Nodes, node : Nodes \cup {None}]

(* Every variable holds a value of its kind. *)
TypeOK ==
  /\ listed \in SUBSET Nodes /\ pull \in Pulls /\ changes \in 0..MaxChanges
  /\ exited \in BOOLEAN
  /\ controllers \in SUBSET Nodes
  /\ running \in [Nodes -> Nat]
  /\ lost \in SUBSET controllers
  /\ lock \in Workers \cup {None}
  /\ task \in TaskState /\ ids \in Nat
  /\ work \in [Workers -> WorkState]

Init ==
  /\ listed \in SUBSET Nodes /\ pull \in Pulls /\ changes = 0
  /\ exited = FALSE
  /\ controllers = {} /\ running = [n \in Nodes |-> 0] /\ lost = {}
  /\ lock = None
  /\ task = [obj |-> 0, ch |-> 0, interval |-> 0] /\ ids = 0
  /\ work = [w \in Workers |-> IF w = Main THEN [Gone EXCEPT !.pc = "wait"]
                                           ELSE Gone]

-----------------------------------------------------------------------------
(* The panel's answer changes. *)
ChangeList(ns) ==
  /\ changes < MaxChanges /\ ns # listed
  /\ listed' = ns /\ changes' = changes + 1
  /\ UNCHANGED <<pull, exited, nodeVars, lock, taskVars, work>>

ChangePull(p) ==
  /\ changes < MaxChanges /\ p # pull
  /\ pull' = p /\ changes' = changes + 1
  /\ UNCHANGED <<listed, exited, nodeVars, lock, taskVars, work>>

(* A controller's monitor fails in a reload: the node has no inbound. *)
LoseInbound(n) ==
  /\ ~exited /\ n \in controllers \ lost /\ Cardinality(lost) < MaxLosses
  /\ lost' = lost \cup {n}
  /\ UNCHANGED <<panelVars, exited, controllers, running, lock, taskVars, work>>

-----------------------------------------------------------------------------
(* The goroutine w has done its Execute, when the pull task is t: it waits *)
(* on the channel its task object has now, which is the old one when the   *)
(* machine has another object.  Start has no more to do.                   *)
Finished(ws, w, t) ==
  [ws EXCEPT ![w] =
     IF w = Main THEN Gone
     ELSE [Gone EXCEPT !.pc = "wait", !.obj = ws[w].obj,
                       !.ch = IF ws[w].obj = t.obj THEN t.ch ELSE ws[w].ch]]

Stop(w) ==
  /\ w # Main /\ work[w].pc = "wait"
  /\ work[w].obj # task.obj \/ work[w].ch # task.ch
  /\ work' = [work EXCEPT ![w] = Gone]
  /\ UNCHANGED <<panelVars, exited, nodeVars, lock, taskVars>>

Request(w) ==
  /\ work[w].pc = "wait"
  /\ work' = [work EXCEPT ![w].pc = "lock", ![w].resp = listed, ![w].pull = pull]
  /\ UNCHANGED <<panelVars, exited, nodeVars, lock, taskVars>>

(* Mutant of RequestFails: the error is returned, and the task ends. *)
RequestFailsTask(w) ==
  /\ work[w].pc = "wait"
  /\ IF w = Main THEN exited' = TRUE ELSE UNCHANGED exited
  /\ work' = [work EXCEPT ![w] = Gone]
  /\ UNCHANGED <<panelVars, nodeVars, lock, taskVars>>

(* A failed request is logged; in Start it ends the process. *)
RequestFails(w) ==
  /\ work[w].pc = "wait"
  /\ IF w = Main THEN exited' = TRUE ELSE UNCHANGED exited
  /\ work' = Finished(work, w, task)
  /\ UNCHANGED <<panelVars, nodeVars, lock, taskVars>>

(* Mutant of Lock: it does not exclude. *)
LockShared(w) ==
  /\ work[w].pc = "lock"
  /\ lock' = w
  /\ work' = [work EXCEPT ![w].pc = "start", ![w].todo = work[w].resp]
  /\ UNCHANGED <<panelVars, exited, nodeVars, taskVars>>

Lock(w) ==
  /\ work[w].pc = "lock" /\ lock = None
  /\ lock' = w
  /\ work' = [work EXCEPT ![w].pc = "start", ![w].todo = work[w].resp]
  /\ UNCHANGED <<panelVars, exited, nodeVars, taskVars>>

-----------------------------------------------------------------------------
(* syncNodes: first each node of the response that has no controller is    *)
(* started.  A node that fails is skipped, and tried again by the next     *)
(* sync; in Start it ends the process.                                     *)
Keep(w, n) ==
  /\ work[w].pc = "start" /\ n \in work[w].todo \cap controllers
  /\ work' = [work EXCEPT ![w].todo = @ \ {n}]
  /\ UNCHANGED <<panelVars, exited, nodeVars, lock, taskVars>>

NewController(w, n) ==
  /\ work[w].pc = "start" /\ n \in work[w].todo \ controllers
  /\ work' = [work EXCEPT ![w].pc = "starting", ![w].node = n,
                          ![w].todo = @ \ {n}]
  /\ UNCHANGED <<panelVars, exited, nodeVars, lock, taskVars>>

Started(w) ==
  LET n == work[w].node IN
  /\ work[w].pc = "starting"
  /\ running' = [running EXCEPT ![n] = @ + 1]
  /\ controllers' = controllers \cup {n}
  /\ work' = [work EXCEPT ![w].pc = "start", ![w].node = None]
  /\ UNCHANGED <<panelVars, exited, lost, lock, taskVars>>

StartFails(w) ==
  /\ w # Main /\ work[w].pc = "starting"
  /\ work' = [work EXCEPT ![w].pc = "start", ![w].node = None]
  /\ UNCHANGED <<panelVars, exited, nodeVars, lock, taskVars>>

(* Strict: what this call started is closed again. *)
Rollback ==
  /\ work[Main].pc = "starting"
  /\ controllers' = {} /\ running' = [n \in Nodes |-> 0] /\ lost' = {}
  /\ exited' = TRUE /\ lock' = None
  /\ work' = [work EXCEPT ![Main] = Gone]
  /\ UNCHANGED <<panelVars, taskVars>>

ToClose(w) ==
  /\ work[w].pc = "start" /\ work[w].todo = {}
  /\ work' = [work EXCEPT ![w].pc = "close"]
  /\ UNCHANGED <<panelVars, exited, nodeVars, lock, taskVars>>

(* Mutant of CloseNode: an error of Close is ignored. *)
CloseNodeRegardless(w, n) ==
  /\ work[w].pc = "close" /\ n \in controllers \ work[w].resp
  /\ running' = [running EXCEPT ![n] = @ - 1]
  /\ controllers' = controllers \ {n}
  /\ UNCHANGED <<panelVars, exited, lost, lock, taskVars, work>>

(* Then each controller whose node the response does not list is closed,   *)
(* in the order of a Go map, which is random.                              *)
CloseNode(w, n) ==
  /\ work[w].pc = "close" /\ n \in controllers \ (work[w].resp \cup lost)
  /\ running' = [running EXCEPT ![n] = @ - 1]
  /\ controllers' = controllers \ {n}
  /\ UNCHANGED <<panelVars, exited, lost, lock, taskVars, work>>

(* Mutant of CloseFails: the mutex stays locked. *)
CloseFailsLocked(w, n) ==
  /\ work[w].pc = "close" /\ n \in lost \ work[w].resp
  /\ work' = Finished(work, w, task)
  /\ UNCHANGED <<panelVars, exited, nodeVars, lock, taskVars>>

(* The core has no inbound to delete: Close fails, and with it the sync.   *)
CloseFails(w, n) ==
  /\ work[w].pc = "close" /\ n \in lost \ work[w].resp
  /\ lock' = None
  /\ work' = Finished(work, w, task)
  /\ UNCHANGED <<panelVars, exited, nodeVars, taskVars>>

-----------------------------------------------------------------------------
(* updateTasks.  Task.Start makes a channel and a goroutine. *)
Spawned(ws, t) ==
  {[ws EXCEPT ![s] = [Gone EXCEPT !.pc = "wait", !.obj = t.obj, !.ch = t.ch]] :
     s \in {s \in Syncs : ws[s].pc = "gone"}}

(* The new pull task: an object of its own, or the same one restarted. *)
NewTask(p) == [obj |-> IF task.obj = 0 THEN ids + 1 ELSE task.obj,
               ch |-> ids + 1, interval |-> p]

(* Mutant of UpdateTasks: the closed task is not forgotten. *)
UpdateTasksKeepsClosed(w) ==
  LET p == work[w].pull  t == NewTask(p) IN
  /\ work[w].pc = "close" /\ controllers \subseteq work[w].resp
  /\ lock' = None
  /\ \/ /\ p > 0 /\ (task.obj = 0 \/ task.interval # p)
        /\ task' = t /\ ids' = ids + 1
        /\ work' \in Spawned(Finished(work, w, t), t)
     \/ /\ p > 0 /\ task.obj # 0 /\ task.interval = p
        /\ UNCHANGED taskVars
        /\ work' = Finished(work, w, task)
     \/ /\ p = 0
        /\ task' = [task EXCEPT !.ch = ids + 1] /\ ids' = ids + 1
        /\ work' = Finished(work, w, task)
  /\ UNCHANGED <<panelVars, exited, nodeVars>>

UpdateTasks(w) ==
  LET p == work[w].pull  t == NewTask(p) IN
  /\ work[w].pc = "close" /\ controllers \subseteq work[w].resp
  /\ lock' = None
  /\ \/ /\ p > 0 /\ (task.obj = 0 \/ task.interval # p)
        /\ task' = t /\ ids' = ids + 1
        /\ work' \in Spawned(Finished(work, w, t), t)
     \/ /\ p > 0 /\ task.obj # 0 /\ task.interval = p
        /\ UNCHANGED taskVars
        /\ work' = Finished(work, w, task)
     \/ /\ p = 0
        /\ task' = [obj |-> 0, ch |-> 0, interval |-> 0] /\ UNCHANGED ids
        /\ work' = Finished(work, w, task')
  /\ UNCHANGED <<panelVars, exited, nodeVars>>

-----------------------------------------------------------------------------
PanelStep ==
  \/ \E ns \in SUBSET Nodes : ChangeList(ns)
  \/ \E p \in Pulls : ChangePull(p)

WorkStep(w) ==
  \/ Stop(w) \/ Request(w) \/ RequestFails(w) \/ Lock(w)
  \/ \E n \in Nodes : Keep(w, n) \/ NewController(w, n)
  \/ Started(w) \/ StartFails(w) \/ ToClose(w)
  \/ \E n \in Nodes : CloseNode(w, n) \/ CloseFails(w, n)
  \/ UpdateTasks(w)

Next ==
  \/ PanelStep
  \/ \E n \in Nodes : LoseInbound(n)
  \/ \E w \in Workers : WorkStep(w)
  \/ Rollback

Spec == Init /\ [][Next]_vars

(***************************************************************************)
(* Tasks tick and calls return.  A request repeated for ever succeeds now  *)
(* and then, and so does each node's Start; and a Go map is gone over in   *)
(* random order, so that each controller is now and then the first.  The   *)
(* mutex need not be fair.                                                 *)
(***************************************************************************)
FairSpec ==
  /\ Spec
  /\ \A w \in Workers : WF_vars(WorkStep(w))
  /\ SF_vars(\E s \in Syncs : Request(s))
  /\ \A n \in Nodes :
       /\ SF_vars(\E s \in Syncs : work[s].node = n /\ Started(s))
       /\ SF_vars(\E s \in Syncs : CloseNode(s, n))

-----------------------------------------------------------------------------
(* Every Controller that runs is the one the machine has for its node, so  *)
(* that a later sync can close it: none is started beside another one and  *)
(* forgotten with its tasks, however many syncs overlap.                   *)
OneController ==
  \A n \in Nodes : running[n] = IF n \in controllers THEN 1 ELSE 0

(* As long as the machine has a pull task, a goroutine is about to sync by *)
(* it, whatever restarts and late responses came.                          *)
SyncGoesOn ==
  task.obj # 0 =>
    \E s \in Syncs : /\ work[s].pc # "gone" /\ work[s].obj = task.obj
                     /\ work[s].pc = "wait" => work[s].ch = task.ch

(* The controllers are those of the listed nodes, but for the nodes whose  *)
(* Close can only fail.                                                    *)
Synced ==
  \A n \in Nodes \ lost : n \in controllers <=> n \in listed

(* Once the panel's answer stops changing, and as long as it asks to be    *)
(* pulled, the machine comes to run the listed nodes and keeps to them: a  *)
(* late response, a failed start or a node whose Close always fails keeps  *)
(* no other node from being started or closed.                             *)
Converges == <>[](exited \/ task.obj = 0 \/ Synced)

=============================================================================
