------------------------------- MODULE Service -------------------------------
(***************************************************************************)
(* The process, once it has started (cmd/server.go): a file watcher        *)
(* (conf/watch.go) starts a goroutine for a changed configuration file,    *)
(* which sleeps for five seconds, loads the file, closes nodes and core    *)
(* and makes new ones (node/node.go, core/sing/sing.go).  Meanwhile each   *)
(* machine's pull task syncs its nodes (Machine).                          *)
(*                                                                         *)
(* Nothing excludes two reloads: they share the configuration, the core    *)
(* and the slice of machines, variables of the main goroutine.  They       *)
(* begin at least ten seconds apart, but take as long as their requests.   *)
(* What a reload makes has its number: the core, the slice, and, with the  *)
(* index in the slice, the machines.  The first start is number 1.         *)
(*                                                                         *)
(* A machine's nodes and its pull task, if the panel asks for one, are     *)
(* taken together (Machine has them apart), and of the monitors of its     *)
(* nodes one is followed, of a node the panel may change (Controller has   *)
(* all of its steps): Close does not wait for it.  What AddNode refuses,   *)
(* and a sync that closes a node beside its monitor, are Controller's.  A  *)
(* Tick is five seconds.                                                   *)
(***************************************************************************)
EXTENDS Naturals, FiniteSets

CONSTANTS
  Configs,  \* contents of the file
  First,    \* the one the process started with
  Broken,   \* a content that does not load, and the empty configuration
  Size,     \* machines in a configuration
  Pulled,   \* machines whose panel asks to be pulled
  Changing, \* machines with a node that the panel may change
  MaxEdits, \* changes of the file (bounds the model)
  MaxLosses \* machines with a node that lost its inbound (bounds the model)

ASSUME ServiceAssumption ==
  /\ First \in Configs /\ Broken \notin Configs /\ Size \in Nat
  /\ Pulled \subseteq Nat \X Nat /\ Changing \subseteq Nat \X Nat
  /\ MaxEdits \in Nat /\ MaxLosses \in Nat

Reloads  == 2..(MaxEdits + 1)
Numbers  == 1..(MaxEdits + 1)
Machines == Numbers \X (1..Size)
NoMachine == <<0, 0>>

VARIABLES
  file, edits, \* the file, and how often it was written
  watched,     \* whether the file is still the one that is watched
  events,      \* events the watcher has not received
  window,      \* Ticks until events are no longer ignored
  conf,        \* the configuration
  core, open,  \* vc (0 for nil), and the cores not closed
  field,       \* Node.machines: a slice (0 for nil)
  slices,      \* what is in the slices
  mach,        \* the machines
  work,        \* the goroutines of the reloads
  down,        \* what ended the process, if anything did
  \* What happened, for the properties:
  overlap,     \* whether two reloads ever overlapped
  missed,      \* whether a change was ignored that no reload was to load
  caught,      \* machines closed while their sync was under way
  beside       \* machines closed while a monitor was reloading a node

fileVars == <<file, edits, watched, events>>
coreVars == <<core, open>>
nodeVars == <<field, slices, mach>>
hist     == <<overlap, missed, caught, beside>>
vars == <<fileVars, window, conf, coreVars, nodeVars, work, down, hist>>

Contents == Configs \cup {Broken}
Monitor(m) == IF m \in Changing THEN "rest" ELSE "none"
NotMade    == [core |-> 0, conf |-> Broken, runs |-> "no", sync |-> "none",
               mon |-> "none"]
Started(m, c, v) == [core |-> c, conf |-> v, runs |-> "up",
                     sync |-> IF m \in Pulled THEN "busy" ELSE "none",
                     mon |-> Monitor(m)]

(* runs: whether it runs, and whether with a node whose inbound is lost;   *)
(* sync: where the goroutine of the pull task is; mon: where the monitor   *)
(* is: it has a change to apply ("reload"), the inbound is deleted and not *)
(* there again ("window"), or it is ("tail").                              *)
MachineState ==
  [core : Numbers \cup {0}, conf : Contents, runs : {"no", "up", "lost"},
   sync : {"none", "parked", "busy", "apply"},
   mon : {"none", "rest", "reload", "window", "tail"}]

(* left: Ticks to sleep; i and slice: where Node.Close and Node.Start are; *)
(* core and conf: what Node.Start was called with.                         *)
WorkState ==
  [pc : {"none", "sleep", "close", "undo", "core", "new", "start", "nodes",
         "machine", "done", "failed"},
   left : 0..1, i : 1..(Size + 1), slice : Numbers \cup {0},
   core : Numbers \cup {0}, conf : Contents]

Idle == [pc |-> "none", left |-> 1, i |-> 1, slice |-> 0, core |-> 0,
         conf |-> Broken]

(* Every variable holds a value of its kind. *)
TypeOK ==
  /\ file \in Contents /\ edits \in 0..MaxEdits /\ events \in 0..MaxEdits
  /\ watched \in BOOLEAN
  /\ window \in 0..2 /\ conf \in Contents
  /\ core \in Numbers \cup {0} /\ open \in SUBSET Numbers
  /\ field \in Numbers \cup {0}
  /\ slices \in [Numbers -> [1..Size -> Machines \cup {NoMachine}]]
  /\ mach \in [Machines -> MachineState]
  /\ work \in [Reloads -> WorkState]
  /\ down \in {"no", "close of nil", "use of nil", "no slice", "core gone",
               "inbound lost", "in reload", "monitor"}
  /\ overlap \in BOOLEAN /\ missed \in BOOLEAN /\ caught \in SUBSET Machines
  /\ beside \in SUBSET Machines

(* serverHandle has started everything, and waits for a signal. *)
Init ==
  /\ file = First /\ conf = First /\ edits = 0 /\ events = 0 /\ window = 0
  /\ watched = TRUE
  /\ core = 1 /\ open = {1} /\ field = 1
  /\ slices = [n \in Numbers |-> [i \in 1..Size |->
                 IF n = 1 THEN <<1, i>> ELSE NoMachine]]
  /\ mach = [m \in Machines |-> IF m[1] = 1 THEN Started(m, 1, file)
                             ELSE NotMade]
  /\ work = [r \in Reloads |-> Idle]
  /\ down = "no"
  /\ overlap = FALSE /\ missed = FALSE /\ caught = {} /\ beside = {}

Goto(r, pc) == work' = [work EXCEPT ![r].pc = pc]
Dies(why)   == down' = why
Asleep  == \E r \in Reloads : work[r].pc = "sleep"
Active  == {r \in Reloads : work[r].pc \notin {"none", "sleep", "done", "failed"}}

-----------------------------------------------------------------------------
(* The file is written, with something else or the same; a change of a DNS *)
(* file counts as the latter.  The watch is on the file that was there at  *)
(* the start: the event of its replacement by another one is the last.     *)
Edit(v, replaced) ==
  /\ edits < MaxEdits
  /\ file' = v /\ edits' = edits + 1
  /\ watched' = (watched /\ ~replaced)
  /\ \/ watched /\ events' = events + 1 /\ UNCHANGED missed
     \/ /\ ~watched /\ UNCHANGED events
        /\ missed' = (missed \/ (events = 0 /\ ~Asleep /\ conf # v))
  /\ UNCHANGED <<window, conf, coreVars, nodeVars, work, down, overlap, caught,
                 beside>>

(* Mutant of Tick: the window is counted down when it is over, too. *)
TickAlways ==
  /\ window' = window - 1
  /\ work' = [r \in Reloads |->
                IF work[r].pc = "sleep" THEN [work[r] EXCEPT !.left = 0] ELSE work[r]]
  /\ UNCHANGED <<fileVars, conf, coreVars, nodeVars, down, hist>>

Tick ==
  /\ window > 0
  /\ window' = window - 1
  /\ work' = [r \in Reloads |->
                IF work[r].pc = "sleep" THEN [work[r] EXCEPT !.left = 0] ELSE work[r]]
  /\ UNCHANGED <<fileVars, conf, coreVars, nodeVars, down, hist>>

(* Mutant of Accept: no reload is started beside another one. *)
AcceptUnlessBusy ==
  /\ events > 0 /\ window = 0
  /\ events' = events - 1 /\ window' = 2
  /\ IF Active # {} THEN UNCHANGED work
     ELSE \E r \in Reloads :
            /\ work[r].pc = "none"
            /\ \A q \in 2..(r - 1) : work[q].pc # "none"
            /\ Goto(r, "sleep")
  /\ UNCHANGED <<file, edits, watched, conf, coreVars, nodeVars, down, hist>>

(* The watcher receives an event: a goroutine is started, ... *)
Accept ==
  /\ events > 0 /\ window = 0
  /\ events' = events - 1 /\ window' = 2
  /\ \E r \in Reloads :
       /\ work[r].pc = "none"
       /\ \A q \in 2..(r - 1) : work[q].pc # "none"
       /\ Goto(r, "sleep")
  /\ UNCHANGED <<file, edits, watched, conf, coreVars, nodeVars, down, hist>>

(* ... unless one was started in the last ten seconds. *)
Ignore ==
  /\ events > 0 /\ window > 0
  /\ events' = events - 1
  /\ missed' = (missed \/ (~Asleep /\ conf # file))
  /\ UNCHANGED <<file, edits, watched, window, conf, coreVars, nodeVars, work,
                 down, overlap, caught, beside>>

(* What does not load leaves the empty configuration, and the reload goes  *)
(* on with it.  Node.Close looks at the slice there is now.                *)
Load(r) ==
  /\ work[r].pc = "sleep" /\ work[r].left = 0
  /\ conf' = file
  /\ work' = [work EXCEPT ![r].pc = "close", ![r].i = 1, ![r].slice = field]
  /\ overlap' = (overlap \/ Active # {})
  /\ UNCHANGED <<fileVars, window, coreVars, nodeVars, down, missed, caught,
                 beside>>

-----------------------------------------------------------------------------
(* Node.Close: Machine.Close of each machine there is, which takes the     *)
(* machine's mutex.  A controller that has no inbound to delete panics.    *)
Closing(r) == work[r].pc \in {"close", "undo"}
AtEnd(r)   == work[r].slice = 0 \/ work[r].i > Size
Current(r) == slices[work[r].slice][work[r].i]

Skip(r) ==
  /\ Closing(r) /\ ~AtEnd(r) /\ Current(r) = NoMachine
  /\ work' = [work EXCEPT ![r].i = @ + 1]
  /\ UNCHANGED <<fileVars, window, conf, coreVars, nodeVars, down, hist>>

(* The inbound of one of its nodes is away, in a reload of the node. *)
InWindow(m) == mach[m].runs = "up" /\ mach[m].mon = "window"

(* Mutant of CloseMachine: the nodes are closed and the tasks are not. *)
CloseMachineKeepsTask(r) ==
  /\ Closing(r) /\ ~AtEnd(r) /\ Current(r) # NoMachine
  /\ LET m == Current(r) IN
     /\ mach[m].sync # "apply"
     /\ mach[m].runs # "lost" /\ ~InWindow(m)
     /\ mach' = [mach EXCEPT ![m].runs = "no"]
     /\ caught' = IF mach[m].sync = "busy" THEN caught \cup {m} ELSE caught
     /\ beside' = IF mach[m].mon \in {"reload", "tail"} THEN beside \cup {m}
                  ELSE beside
  /\ work' = [work EXCEPT ![r].i = @ + 1]
  /\ UNCHANGED <<fileVars, window, conf, coreVars, field, slices, down, overlap,
                 missed>>

(* A sync, or a monitor, that waits for a tick ends; another one goes on.  *)
(* (On a core that is gone this works for a machine without nodes.)        *)
CloseMachine(r) ==
  /\ Closing(r) /\ ~AtEnd(r) /\ Current(r) # NoMachine
  /\ LET m == Current(r) IN
     /\ mach[m].sync # "apply"
     /\ mach[m].runs # "lost" /\ ~InWindow(m)
     /\ mach' = [mach EXCEPT ![m].runs = "no",
                             ![m].sync = IF @ = "parked" THEN "none" ELSE @,
                             ![m].mon = IF @ = "rest" THEN "none" ELSE @]
     /\ caught' = IF mach[m].sync = "busy" THEN caught \cup {m} ELSE caught
     /\ beside' = IF mach[m].mon \in {"reload", "tail"} THEN beside \cup {m}
                  ELSE beside
  /\ work' = [work EXCEPT ![r].i = @ + 1]
  /\ UNCHANGED <<fileVars, window, conf, coreVars, field, slices, down, overlap,
                 missed>>

(* The inbound of a node cannot be deleted: a reload of the node failed    *)
(* after it was gone, or is just making a new one, or the core is closed.  *)
CloseMachinePanics(r) ==
  /\ Closing(r) /\ ~AtEnd(r) /\ Current(r) # NoMachine
  /\ LET m == Current(r) IN
     /\ mach[m].sync # "apply"
     /\ \/ mach[m].runs = "lost" /\ Dies("inbound lost")
        \/ InWindow(m) /\ Dies("in reload")
        \/ mach[m].runs = "up" /\ mach[m].core \notin open /\ Dies("core gone")
  /\ UNCHANGED <<fileVars, window, conf, coreVars, nodeVars, work, hist>>

NodesClosed(r) ==
  /\ Closing(r) /\ AtEnd(r)
  /\ field' = 0
  /\ Goto(r, IF work[r].pc = "close" THEN "core" ELSE "failed")
  /\ UNCHANGED <<fileVars, window, conf, coreVars, slices, mach, down, hist>>

-----------------------------------------------------------------------------
(* The core is closed.  There may be none, and a core that was closed      *)
(* returns an error, with which the reload ends.                           *)
CloseCore(r) ==
  /\ work[r].pc = "core"
  /\ IF core = 0 THEN Dies("close of nil") /\ UNCHANGED <<work, open>>
     ELSE /\ open' = open \ {core} /\ UNCHANGED down
          /\ \/ core \in open /\ Goto(r, "new")
             \/ Goto(r, "failed")
  /\ UNCHANGED <<fileVars, window, conf, core, nodeVars, hist>>

(* NewCore needs a configuration; what it returns becomes vc. *)
NewCore(r) ==
  /\ work[r].pc = "new" /\ conf # Broken
  /\ core' = r /\ open' = open \cup {r}
  /\ Goto(r, "start")
  /\ UNCHANGED <<fileVars, window, conf, nodeVars, down, hist>>

(* Mutant of NewCoreFails: the error is logged, and the reload goes on. *)
NewCoreFailsNoReturn(r) ==
  /\ work[r].pc = "new"
  /\ core' = 0
  /\ Goto(r, "start")
  /\ UNCHANGED <<fileVars, window, conf, open, nodeVars, down, hist>>

NewCoreFails(r) ==
  /\ work[r].pc = "new"
  /\ core' = 0
  /\ Goto(r, "failed")
  /\ UNCHANGED <<fileVars, window, conf, open, nodeVars, down, hist>>

(* A core that fails to start closes itself. *)
StartCore(r) ==
  /\ work[r].pc = "start"
  /\ IF core = 0 THEN Dies("use of nil") /\ UNCHANGED <<work, open>>
     ELSE /\ UNCHANGED down
          /\ \/ Goto(r, "nodes") /\ UNCHANGED open
             \/ Goto(r, "failed") /\ open' = open \ {core}
  /\ UNCHANGED <<fileVars, window, conf, core, nodeVars, hist>>

-----------------------------------------------------------------------------
(* Node.Start makes a slice and starts the machines one by one; the first  *)
(* that fails has it close those that are in the slice.                    *)
StartNodes(r) ==
  /\ work[r].pc = "nodes"
  /\ field' = r
  /\ work' = [work EXCEPT ![r].pc = "machine", ![r].i = 1, ![r].core = core,
                          ![r].conf = conf]
  /\ UNCHANGED <<fileVars, window, conf, coreVars, slices, mach, down, hist>>

(* The machine is put into the slice that there is by then. *)
StartMachine(r) ==
  /\ work[r].pc = "machine" /\ work[r].i <= Size
  /\ LET m == <<r, work[r].i>> IN
     \/ /\ work[r].core # 0 /\ field # 0
        /\ slices' = [slices EXCEPT ![field][work[r].i] = m]
        /\ mach' = [mach EXCEPT ![m] = Started(m, work[r].core, work[r].conf)]
        /\ work' = [work EXCEPT ![r].i = @ + 1]
        /\ UNCHANGED down
     \/ /\ work[r].core = 0 \/ field = 0
        /\ Dies(IF work[r].core = 0 THEN "use of nil" ELSE "no slice")
        /\ UNCHANGED <<slices, mach, work>>
  /\ UNCHANGED <<fileVars, window, conf, coreVars, field, hist>>

StartMachineFails(r) ==
  /\ work[r].pc = "machine" /\ work[r].i <= Size
  /\ work' = [work EXCEPT ![r].pc = "undo", ![r].i = 1, ![r].slice = field]
  /\ UNCHANGED <<fileVars, window, conf, coreVars, nodeVars, down, hist>>

NodesStarted(r) ==
  /\ work[r].pc = "machine" /\ work[r].i > Size
  /\ Goto(r, "done")
  /\ UNCHANGED <<fileVars, window, conf, coreVars, nodeVars, down, hist>>

-----------------------------------------------------------------------------
(* The pull task's goroutine of the machine m (see Task, Machine).  It is  *)
(* parked in the select until a tick or Close.  When it is busy, it may    *)
(* request, fail to, return, and find a tick, also beside a Close.         *)
Others == <<fileVars, window, conf, coreVars, field, slices, work, down, hist>>

Park(m) ==
  /\ mach[m].sync = "busy"
  /\ mach' = [mach EXCEPT ![m].sync =
                 IF mach[m].runs = "no" THEN "none" ELSE "parked"]
  /\ UNCHANGED Others

PullTick(m) ==
  /\ mach[m].sync = "parked"
  /\ mach' = [mach EXCEPT ![m].sync = "busy"]
  /\ UNCHANGED Others

LockMachine(m) ==
  /\ mach[m].sync = "busy"
  /\ mach' = [mach EXCEPT ![m].sync = "apply"]
  /\ UNCHANGED Others

(* What has no controller is started, and the pull task made if there is   *)
(* none; nothing asks whether the machine was closed.                      *)
Synced(m) ==
  /\ mach[m].sync = "apply"
  /\ mach' = [mach EXCEPT ![m].sync = "busy",
                          ![m].runs = IF @ = "no" THEN "up" ELSE @,
                          ![m].mon = IF @ = "none" THEN Monitor(m) ELSE @]
  /\ UNCHANGED Others

(* A node that is not listed cannot be closed. *)
SyncFails(m) ==
  /\ mach[m].sync = "apply"
  /\ mach' = [mach EXCEPT ![m].sync = "busy"]
  /\ UNCHANGED Others

-----------------------------------------------------------------------------
(* The monitor of a node of m, which takes no lock.  A poll finds a change *)
(* of the node; Close may come from here on without its knowing.           *)
BeginReload(m) ==
  /\ mach[m].mon = "rest"
  /\ mach' = [mach EXCEPT ![m].mon = "reload"]
  /\ UNCHANGED Others

DelNode(m) ==
  /\ mach[m].mon = "reload" /\ mach[m].runs = "up" /\ mach[m].core \in open
  /\ mach' = [mach EXCEPT ![m].mon = "window"]
  /\ UNCHANGED Others

(* log.Panic: an earlier reload lost the inbound, or Close deleted it.     *)
DelNodePanics(m) ==
  /\ mach[m].mon = "reload"
  /\ \/ mach[m].runs = "lost" /\ Dies("inbound lost")
     \/ mach[m].runs = "no" /\ Dies("monitor")
     \/ mach[m].runs = "up" /\ mach[m].core \notin open /\ Dies("monitor")
  /\ UNCHANGED <<fileVars, window, conf, coreVars, nodeVars, work, hist>>

(* The certificate request fails, and the monitor returns (Controller,     *)
(* NodeUp).                                                                *)
LoseInbound(m) ==
  /\ mach[m].mon = "window" /\ mach[m].runs = "up"
  /\ Cardinality({n \in Machines : mach[n].runs = "lost"}) < MaxLosses
  /\ mach' = [mach EXCEPT ![m].runs = "lost", ![m].mon = "rest"]
  /\ UNCHANGED Others

(* A core that is gone takes another inbound, or refuses to. *)
AddNode(m) ==
  /\ mach[m].mon = "window"
  /\ mach' = [mach EXCEPT ![m].mon = "tail"]
  /\ UNCHANGED Others

AddNodePanics(m) ==
  /\ mach[m].mon = "window" /\ mach[m].core \notin open
  /\ Dies("monitor")
  /\ UNCHANGED <<fileVars, window, conf, coreVars, nodeVars, work, hist>>

(* The monitor waits for the next tick, and ends when it was closed; but a *)
(* new interval has it restart its own task, also after Close.             *)
EndReload(m) ==
  /\ mach[m].mon = "tail"
  /\ \/ mach' = [mach EXCEPT ![m].mon = "rest"]
     \/ mach[m].runs = "no" /\ mach' = [mach EXCEPT ![m].mon = "none"]
  /\ UNCHANGED Others

-----------------------------------------------------------------------------
WatchStep == Accept \/ Ignore

ReloadStep(r) ==
  \/ Load(r) \/ Skip(r) \/ CloseMachine(r) \/ CloseMachinePanics(r)
  \/ NodesClosed(r) \/ CloseCore(r) \/ NewCore(r) \/ NewCoreFails(r)
  \/ StartCore(r) \/ StartNodes(r) \/ StartMachine(r) \/ StartMachineFails(r)
  \/ NodesStarted(r)

SyncStep(m) == LockMachine(m) \/ Synced(m) \/ SyncFails(m) \/ Park(m)

MonitorStep(m) ==
  \/ BeginReload(m) \/ DelNode(m) \/ DelNodePanics(m) \/ LoseInbound(m)
  \/ AddNode(m) \/ AddNodePanics(m) \/ EndReload(m)

Next ==
  /\ down = "no"
  /\ \/ \E v \in Contents, replaced \in BOOLEAN : Edit(v, replaced)
     \/ Tick
     \/ WatchStep
     \/ \E r \in Reloads : ReloadStep(r)
     \/ \E m \in Machines : SyncStep(m) \/ PullTick(m) \/ MonitorStep(m)

Spec == Init /\ [][Next]_vars

-----------------------------------------------------------------------------
Settled == events = 0 /\ ~Asleep /\ Active = {}
Held    == IF field = 0 THEN {} ELSE {slices[field][i] : i \in 1..Size}

(* When all is done, the configuration is what the file holds and all      *)
(* machines run it, unless the reload failed, also after changes in quick  *)
(* succession and reloads that take long: the only changes that are lost   *)
(* come within ten seconds of another one, after the reload for that one   *)
(* has read the file, or after the file was replaced by another one and    *)
(* the reload for that has read it.  (After reloads that overlapped,       *)
(* machines may be older.)                                                 *)
ChangeLoaded ==
  down = "no" /\ Settled /\ ~missed =>
    /\ conf = file
    /\ ~overlap => \A m \in Held :
         m # NoMachine /\ mach[m].conf = file /\ mach[m].runs # "no"

(* Reloads that do not overlap leave nothing behind, wherever they end:    *)
(* one core at most is open, and every machine that runs is held by the    *)
(* node, to be closed by the next reload, and runs on that core.  The      *)
(* exception is a machine whose sync was under way when it was closed.     *)
OneGeneration ==
  ~overlap =>
    /\ open \subseteq {core}
    /\ \A m \in Machines \ caught :
         mach[m].runs # "no" => m \in Held /\ mach[m].core = core /\ core \in open

(* The monitor that ended the process was closed beside, or is one of a    *)
(* machine whose sync was.                                                 *)
ClosedBeside ==
  \E m \in caught \cup beside : mach[m].mon \in {"reload", "window"}

(* Reloads that do not overlap end the process only where an earlier       *)
(* failure shows (no core was made, or an inbound is lost), or where they  *)
(* meet a monitor that is reloading a node: Close finds the inbound away,  *)
(* or the monitor does, after Close.  No monitor dies of a machine that    *)
(* was not closed beside it.                                               *)
SurvivesReload ==
  \/ overlap
  \/ down \in {"no", "close of nil", "inbound lost", "in reload"}
  \/ down = "monitor" /\ ClosedBeside

=============================================================================
