---------------------------- MODULE ServiceProofs ----------------------------
(***************************************************************************)
(* The reloads of the process, for any number of machines, changes of the  *)
(* file and contents of it: no change is lost but those the watcher        *)
(* ignores (Heard), and reloads that do not overlap leave each other a     *)
(* process in order (Orderly).                                             *)
(***************************************************************************)
EXTENDS Service, TLAPS

(* A change is heard of, or on its way.                                    *)
Heard == missed = FALSE => conf = file \/ events > 0 \/ Asleep

(* A machine that is closed has no goroutine, unless it was caught, but    *)
(* for a monitor that it was closed beside.                                *)
Parted ==
  \A m \in Machines \ caught :
    mach[m].runs = "no" =>
      mach[m].sync = "none" /\ (m \notin beside => mach[m].mon = "none")

Struct == TypeOK /\ events <= edits

(* One reload at a time.                                                   *)
Single == \A r, s \in Active : r = s

(* A reload has not started this machine of its own.                       *)
Before == {"none", "sleep", "close", "core", "new", "start", "nodes"}

Unmade(n, j) ==
  /\ n \in Reloads
  /\ \/ work[n].pc \in Before
     \/ work[n].pc = "machine" /\ work[n].i <= j

(* The slices have the machines that were started, at their places.        *)
Slots ==
  \A n \in Numbers, j \in 1..Size :
    /\ slices[n][j] \in {NoMachine, <<n, j>>}
    /\ Unmade(n, j) => slices[n][j] = NoMachine /\ <<n, j>> \notin caught

(* Whatever runs is in the slice of the node, and on the core.             *)
Kept ==
  \A n \in Numbers, j \in 1..Size :
    <<n, j>> \notin caught /\ mach[<<n, j>>].runs # "no" =>
      /\ n = field /\ slices[n][j] = <<n, j>>
      /\ mach[<<n, j>>].core = core /\ core \in open

(* The machine runs the configuration.                                     *)
Filled(j) ==
  /\ slices[field][j] = <<field, j>>
  /\ mach[<<field, j>>].conf = conf /\ mach[<<field, j>>].runs # "no"

(* How far the reload is: it closes what the node has, one by one; the     *)
(* node has nothing; the core has been closed; there is a new one; the     *)
(* machines are started, one by one.                                       *)
Doing(r) ==
  /\ Closing(r) =>
       /\ work[r].slice = field
       /\ field # 0 => \A j \in 1..Size :
            /\ j < work[r].i => mach[<<field, j>>].runs = "no" \/ <<field, j>> \in caught
            /\ j >= work[r].i => <<field, j>> \notin caught
  /\ work[r].pc \in {"core", "new", "start", "nodes"} => field = 0
  /\ work[r].pc = "new" => open = {}
  /\ work[r].pc \in {"start", "nodes"} => core \in open
  /\ work[r].pc = "machine" =>
       /\ field = r /\ core \in open
       /\ work[r].core = core /\ work[r].conf = conf
       /\ \A j \in 1..Size : <<r, j>> \notin caught /\ (j < work[r].i => Filled(j))

(* Between reloads the node has all its machines, or none.                 *)
Rest ==
  Active = {} /\ field # 0 =>
    \A j \in 1..Size : <<field, j>> \notin caught /\ Filled(j)

Orderly ==
  /\ Single /\ Slots /\ open \subseteq {core} /\ Kept
  /\ \A r \in Reloads : Doing(r)
  /\ Rest

Sequential == overlap = FALSE => Orderly

-----------------------------------------------------------------------------
(* What a step does to the goroutine of the reload r.                      *)
WorkPcs == {"none", "sleep", "close", "undo", "core", "new", "start", "nodes",
            "machine", "done", "failed"}

OnlyWork(r) ==
  /\ work' \in [Reloads -> WorkState]
  /\ \A q \in Reloads \ {r} : work'[q] = work[q]

Becomes(r, p, i, n, k, v) ==
  /\ OnlyWork(r)
  /\ work'[r].pc = p /\ work'[r].i = i /\ work'[r].slice = n
  /\ work'[r].core = k /\ work'[r].conf = v

Moves(r, p) ==
  Becomes(r, p, work[r].i, work[r].slice, work[r].core, work[r].conf)

StepsOn(r) ==
  Becomes(r, work[r].pc, work[r].i + 1, work[r].slice, work[r].core, work[r].conf)

LEMMA WorkBecomes ==
  ASSUME work \in [Reloads -> WorkState], NEW r \in Reloads, NEW s \in WorkState,
         work' = [work EXCEPT ![r] = s]
  PROVE  OnlyWork(r) /\ work'[r] = s
BY DEF OnlyWork

LEMMA WorkTyped ==
  ASSUME TypeOK, NEW r \in Reloads
  PROVE  /\ work \in [Reloads -> WorkState] /\ work[r] \in WorkState
         /\ work[r].pc \in WorkPcs /\ work[r].i \in 1..(Size + 1)
         /\ work[r].i \in Nat /\ Size \in Nat
         /\ work[r].slice \in Numbers \cup {0} /\ work[r].core \in Numbers \cup {0}
         /\ work[r].conf \in Contents /\ 1 \in 1..(Size + 1)
<1>1. work \in [Reloads -> WorkState] /\ work[r] \in WorkState
  BY DEF TypeOK
<1>2. Size \in Nat /\ 1 \in 1..(Size + 1)
  BY ServiceAssumption
<1>3. work[r].pc \in WorkPcs /\ work[r].i \in 1..(Size + 1)
      /\ work[r].slice \in Numbers \cup {0} /\ work[r].core \in Numbers \cup {0}
      /\ work[r].conf \in Contents
  BY <1>1 DEF WorkState, WorkPcs
<1>4. work[r].i \in Nat
  BY <1>2, <1>3
<1> QED
  BY <1>1, <1>2, <1>3, <1>4

LEMMA GotoState ==
  ASSUME TypeOK, NEW r \in Reloads, NEW p \in WorkPcs, Goto(r, p)
  PROVE  Moves(r, p)
<1> DEFINE s == [work[r] EXCEPT !.pc = p]
<1>1. s \in WorkState /\ s.pc = p /\ s.i = work[r].i /\ s.slice = work[r].slice
      /\ s.core = work[r].core /\ s.conf = work[r].conf
  BY WorkTyped DEF WorkState, WorkPcs
<1>2. work' = [work EXCEPT ![r] = s]
  BY DEF Goto
<1> HIDE DEF s
<1> QED
  BY <1>1, <1>2, WorkTyped, WorkBecomes DEF Moves, Becomes

LEMMA ClosingState ==
  ASSUME TypeOK, NEW r \in Reloads, NEW p \in {"close", "undo"},
         work' = [work EXCEPT ![r].pc = p, ![r].i = 1, ![r].slice = field]
  PROVE  Becomes(r, p, 1, field, work[r].core, work[r].conf)
<1> DEFINE s == [work[r] EXCEPT !.pc = p, !.i = 1, !.slice = field]
<1>1. s \in WorkState /\ s.pc = p /\ s.i = 1 /\ s.slice = field
      /\ s.core = work[r].core /\ s.conf = work[r].conf
  <2>1. field \in Numbers \cup {0}
    BY DEF TypeOK
  <2> QED
    BY <2>1, WorkTyped DEF WorkState, WorkPcs
<1>2. work' = [work EXCEPT ![r] = s]
  OBVIOUS
<1> HIDE DEF s
<1> QED
  BY <1>1, <1>2, WorkTyped, WorkBecomes DEF Becomes

LEMMA NextIndexState ==
  ASSUME TypeOK, NEW r \in Reloads, work[r].i <= Size,
         work' = [work EXCEPT ![r].i = @ + 1]
  PROVE  StepsOn(r)
<1> DEFINE s == [work[r] EXCEPT !.i = @ + 1]
<1>1. work[r].i + 1 \in 1..(Size + 1)
  BY WorkTyped
<1>2. s \in WorkState /\ s.pc = work[r].pc /\ s.i = work[r].i + 1
      /\ s.slice = work[r].slice /\ s.core = work[r].core /\ s.conf = work[r].conf
  BY <1>1, WorkTyped DEF WorkState, WorkPcs
<1>3. work' = [work EXCEPT ![r] = s]
  OBVIOUS
<1> HIDE DEF s
<1> QED
  BY <1>2, <1>3, WorkTyped, WorkBecomes DEF StepsOn, Becomes

LEMMA MachineIndexState ==
  ASSUME TypeOK, NEW r \in Reloads, StartNodes(r)
  PROVE  Becomes(r, "machine", 1, work[r].slice, core, conf)
<1> DEFINE s == [work[r] EXCEPT !.pc = "machine", !.i = 1, !.core = core,
                                !.conf = conf]
<1>1. s \in WorkState /\ s.pc = "machine" /\ s.i = 1 /\ s.slice = work[r].slice
      /\ s.core = core /\ s.conf = conf
  <2>1. core \in Numbers \cup {0} /\ conf \in Contents
    BY DEF TypeOK
  <2> QED
    BY <2>1, WorkTyped DEF WorkState, WorkPcs
<1>2. work' = [work EXCEPT ![r] = s]
  BY DEF StartNodes
<1> HIDE DEF s
<1> QED
  BY <1>1, <1>2, WorkTyped, WorkBecomes DEF Becomes

(* What one does to the machine m.                                         *)
OnlyMach(m) ==
  /\ mach' \in [Machines -> MachineState]
  /\ \A n \in Machines \ {m} : mach'[n] = mach[n]

Runs  == {"no", "up", "lost"}
Syncs == {"none", "parked", "busy", "apply"}
Mons  == {"none", "rest", "reload", "window", "tail"}

Is(m, k, v, runs, sync, mon) ==
  /\ OnlyMach(m)
  /\ mach'[m].core = k /\ mach'[m].conf = v
  /\ mach'[m].runs = runs /\ mach'[m].sync = sync /\ mach'[m].mon = mon

LEMMA MachBecomes ==
  ASSUME mach \in [Machines -> MachineState], NEW m \in Machines,
         NEW s \in MachineState, mach' = [mach EXCEPT ![m] = s]
  PROVE  OnlyMach(m) /\ mach'[m] = s
BY DEF OnlyMach

LEMMA MachTyped ==
  ASSUME TypeOK, NEW m \in Machines
  PROVE  /\ mach \in [Machines -> MachineState] /\ mach[m] \in MachineState
         /\ mach[m].core \in Numbers \cup {0} /\ mach[m].conf \in Contents
         /\ mach[m].runs \in Runs /\ mach[m].sync \in Syncs
         /\ mach[m].mon \in Mons
<1>1. mach[m] \in MachineState
  BY DEF TypeOK
<1> QED
  BY <1>1 DEF TypeOK, MachineState, Runs, Syncs, Mons

LEMMA MachState ==
  ASSUME TypeOK, NEW m \in Machines, NEW runs \in Runs, NEW sync \in Syncs,
         NEW mon \in Mons,
         mach' = [mach EXCEPT ![m] = [@ EXCEPT !.runs = runs, !.sync = sync,
                                               !.mon = mon]]
  PROVE  Is(m, mach[m].core, mach[m].conf, runs, sync, mon)
<1> DEFINE s == [mach[m] EXCEPT !.runs = runs, !.sync = sync, !.mon = mon]
<1>1. s \in MachineState /\ s.core = mach[m].core /\ s.conf = mach[m].conf
      /\ s.runs = runs /\ s.sync = sync /\ s.mon = mon
  BY MachTyped DEF MachineState, Runs, Syncs, Mons
<1>2. mach' = [mach EXCEPT ![m] = s]
  OBVIOUS
<1> HIDE DEF s
<1> QED
  BY <1>1, <1>2, MachTyped, MachBecomes DEF Is

(* What CloseMachine leaves of a machine.                                  *)
Left(m)    == IF mach[m].sync = "parked" THEN "none" ELSE mach[m].sync
LeftMon(m) == IF mach[m].mon = "rest" THEN "none" ELSE mach[m].mon

LEMMA CloseMachineState ==
  ASSUME TypeOK, NEW r \in Reloads, CloseMachine(r), Current(r) \in Machines
  PROVE  Is(Current(r), mach[Current(r)].core, mach[Current(r)].conf, "no",
            Left(Current(r)), LeftMon(Current(r)))
<1> DEFINE m == Current(r)
<1>1. Left(m) \in Syncs /\ LeftMon(m) \in Mons /\ "no" \in Runs
  BY MachTyped DEF Left, LeftMon, Syncs, Mons, Runs
<1>2. mach' = [mach EXCEPT ![m].runs = "no",
                           ![m].sync = IF @ = "parked" THEN "none" ELSE @,
                           ![m].mon = IF @ = "rest" THEN "none" ELSE @]
  BY DEF CloseMachine
<1> HIDE DEF m
<1>3. m \in Machines /\ mach[m] \in MachineState
      /\ mach \in [Machines -> MachineState]
  BY MachTyped DEF m
<1>4. mach' = [mach EXCEPT ![m] = [@ EXCEPT !.runs = "no", !.sync = Left(m),
                                            !.mon = LeftMon(m)]]
  BY <1>2, <1>3 DEF Left, LeftMon, MachineState
<1> QED
  BY <1>1, <1>3, <1>4, MachState DEF m

(* The goroutines of a machine go on, or end the process.                  *)
GoesOn(m) ==
  \/ SyncStep(m) \/ PullTick(m) \/ BeginReload(m) \/ DelNode(m)
  \/ LoseInbound(m) \/ AddNode(m) \/ EndReload(m)

GivesUp(m) == DelNodePanics(m) \/ AddNodePanics(m)

LEMMA Machinery ==
  ASSUME NEW m \in Machines, SyncStep(m) \/ PullTick(m) \/ MonitorStep(m)
  PROVE  GoesOn(m) \/ GivesUp(m)
BY DEF MonitorStep, GoesOn, GivesUp

(* What they make of it: neither closes it, and only the pull task's       *)
(* starts it again.                                                        *)
Goes(m, runs, sync, mon) ==
  /\ Is(m, mach[m].core, mach[m].conf, runs, sync, mon)
  /\ runs = "no" => mach[m].runs = "no"
  /\ \/ mach[m].sync # "none"
     \/ /\ mach[m].mon # "none" /\ sync = mach[m].sync
        /\ mach[m].runs = "no" => runs = "no"

LEMMA SyncState ==
  ASSUME TypeOK, NEW m \in Machines, GoesOn(m)
  PROVE  /\ \E runs \in Runs, sync \in Syncs, mon \in Mons : Goes(m, runs, sync, mon)
         /\ UNCHANGED Others
<1>0. /\ mach \in [Machines -> MachineState] /\ mach[m] \in MachineState
      /\ mach[m].runs \in Runs /\ mach[m].sync \in Syncs /\ mach[m].mon \in Mons
  BY MachTyped
<1>1. ASSUME NEW runs \in Runs, NEW sync \in Syncs, NEW mon \in Mons,
             mach' = [mach EXCEPT ![m] = [@ EXCEPT !.runs = runs, !.sync = sync,
                                                   !.mon = mon]],
             runs = "no" => mach[m].runs = "no",
             \/ mach[m].sync # "none"
             \/ /\ mach[m].mon # "none" /\ sync = mach[m].sync
                /\ mach[m].runs = "no" => runs = "no",
             UNCHANGED Others
      PROVE  /\ \E rs \in Runs, sc \in Syncs, mn \in Mons : Goes(m, rs, sc, mn)
             /\ UNCHANGED Others
  <2>1. Goes(m, runs, sync, mon)
    BY <1>1, MachState DEF Goes
  <2> QED
    BY <1>1, <2>1
<1>2. CASE LockMachine(m) \/ PullTick(m) \/ SyncFails(m) \/ Park(m)
  <2>1. PICK sync \in Syncs : mach' = [mach EXCEPT ![m].sync = sync]
    BY <1>2 DEF LockMachine, PullTick, SyncFails, Park, Syncs
  <2>2. mach' = [mach EXCEPT ![m] = [@ EXCEPT !.runs = mach[m].runs, !.sync = sync,
                                              !.mon = mach[m].mon]]
    BY <1>0, <2>1 DEF MachineState
  <2>3. mach[m].sync # "none" /\ UNCHANGED Others
    BY <1>2 DEF LockMachine, PullTick, SyncFails, Park
  <2> QED
    BY <1>0, <1>1, <2>2, <2>3
<1>3. CASE Synced(m)
  <2>1. PICK runs \in {"up", "lost"}, mon \in Mons :
          mach' = [mach EXCEPT ![m].sync = "busy", ![m].runs = runs, ![m].mon = mon]
    BY <1>0, <1>3 DEF Synced, Monitor, Runs, Mons
  <2>2. mach' = [mach EXCEPT ![m] = [@ EXCEPT !.runs = runs, !.sync = "busy",
                                              !.mon = mon]]
    BY <1>0, <2>1 DEF MachineState
  <2>3. mach[m].sync # "none" /\ UNCHANGED Others
    BY <1>3 DEF Synced
  <2> QED
    BY <1>1, <2>2, <2>3 DEF Runs, Syncs
<1>4. CASE BeginReload(m) \/ DelNode(m) \/ AddNode(m) \/ EndReload(m)
  <2>1. PICK mon \in Mons : mach' = [mach EXCEPT ![m].mon = mon]
    BY <1>4 DEF BeginReload, DelNode, AddNode, EndReload, Mons
  <2>2. mach' = [mach EXCEPT ![m] = [@ EXCEPT !.runs = mach[m].runs,
                                              !.sync = mach[m].sync, !.mon = mon]]
    BY <1>0, <2>1 DEF MachineState
  <2>3. mach[m].mon # "none" /\ UNCHANGED Others
    BY <1>4 DEF BeginReload, DelNode, AddNode, EndReload
  <2> QED
    BY <1>0, <1>1, <2>2, <2>3
<1>5. CASE LoseInbound(m)
  <2>1. mach' = [mach EXCEPT ![m].runs = "lost", ![m].mon = "rest"]
    BY <1>5 DEF LoseInbound
  <2>2. mach' = [mach EXCEPT ![m] = [@ EXCEPT !.runs = "lost", !.sync = mach[m].sync,
                                              !.mon = "rest"]]
    BY <1>0, <2>1 DEF MachineState
  <2>3. mach[m].runs # "no" /\ mach[m].mon # "none" /\ UNCHANGED Others
    BY <1>5 DEF LoseInbound
  <2> QED
    BY <1>0, <1>1, <2>2, <2>3 DEF Runs, Mons
<1> QED
  BY <1>2, <1>3, <1>4, <1>5 DEF GoesOn, SyncStep

-----------------------------------------------------------------------------
(* Every variable keeps its kind.                                          *)
Downs == {"no", "close of nil", "use of nil", "no slice", "core gone",
          "inbound lost", "in reload", "monitor"}

LEMMA Typed ==
  ASSUME TypeOK
  PROVE  /\ file \in Contents /\ edits \in 0..MaxEdits /\ events \in 0..MaxEdits
         /\ window \in 0..2 /\ conf \in Contents
         /\ core \in Numbers \cup {0} /\ open \in SUBSET Numbers
         /\ field \in Numbers \cup {0}
         /\ slices \in [Numbers -> [1..Size -> Machines \cup {NoMachine}]]
         /\ mach \in [Machines -> MachineState]
         /\ work \in [Reloads -> WorkState] /\ down \in Downs
         /\ overlap \in BOOLEAN /\ missed \in BOOLEAN /\ caught \in SUBSET Machines
         /\ watched \in BOOLEAN /\ beside \in SUBSET Machines
BY DEF TypeOK, Downs

LEMMA StructAs ==
  ASSUME file' \in Contents, edits' \in 0..MaxEdits, events' \in 0..MaxEdits,
         events' <= edits', window' \in 0..2, conf' \in Contents,
         core' \in Numbers \cup {0}, open' \in SUBSET Numbers,
         field' \in Numbers \cup {0},
         slices' \in [Numbers -> [1..Size -> Machines \cup {NoMachine}]],
         mach' \in [Machines -> MachineState],
         work' \in [Reloads -> WorkState], down' \in Downs,
         overlap' \in BOOLEAN, missed' \in BOOLEAN, caught' \in SUBSET Machines,
         watched' \in BOOLEAN, beside' \in SUBSET Machines
  PROVE  Struct'
BY DEF Struct, TypeOK, Downs

LEMMA ConstantsTyped ==
  /\ MaxEdits \in Nat /\ Size \in Nat /\ 1 \in Numbers /\ 0 \notin Numbers
  /\ Numbers \subseteq Nat \ {0} /\ Reloads \subseteq Numbers
  /\ \A n \in Numbers, j \in 1..Size : <<n, j>> \in Machines
  /\ \A m \in Machines : m = <<m[1], m[2]>> /\ m[1] \in Numbers /\ m[2] \in 1..Size
  /\ NoMachine \notin Machines
  /\ First \in Contents /\ Broken \in Contents
<1>1. MaxEdits \in Nat /\ Size \in Nat /\ First \in Contents /\ Broken \in Contents
  BY ServiceAssumption DEF Contents
<1>2. /\ 1 \in Numbers /\ 0 \notin Numbers /\ Numbers \subseteq Nat \ {0}
      /\ Reloads \subseteq Numbers
  BY <1>1 DEF Numbers, Reloads
<1>3. NoMachine \notin Machines
  BY <1>2 DEF NoMachine, Machines
<1> QED
  BY <1>1, <1>2, <1>3 DEF Machines

LEMMA StructInit == Init => Struct
<1> SUFFICES ASSUME Init
             PROVE  Struct
  OBVIOUS
<1>1. Idle \in WorkState
  BY ConstantsTyped DEF Idle, WorkState
<1>2. work \in [Reloads -> WorkState]
  BY <1>1 DEF Init
<1>3. ASSUME NEW m \in Machines
      PROVE  NotMade \in MachineState /\ Started(m, 1, file) \in MachineState
  BY ConstantsTyped DEF Init, NotMade, Started, Monitor, MachineState
<1>4. mach \in [Machines -> MachineState]
  BY <1>3 DEF Init
<1>5. slices \in [Numbers -> [1..Size -> Machines \cup {NoMachine}]]
  BY ConstantsTyped DEF Init
<1>6. open \in SUBSET Numbers /\ core \in Numbers \cup {0} /\ field \in Numbers \cup {0}
  BY ConstantsTyped DEF Init
<1>7. edits \in 0..MaxEdits /\ events \in 0..MaxEdits /\ window \in 0..2 /\ events <= edits
  BY ConstantsTyped DEF Init
<1> QED
  BY <1>2, <1>4, <1>5, <1>6, <1>7, ConstantsTyped DEF Init, Struct, TypeOK

LEMMA StructWorld ==
  ASSUME Struct, \/ \E v \in Contents, replaced \in BOOLEAN : Edit(v, replaced)
                 \/ Tick \/ Accept \/ Ignore
  PROVE  Struct'
<1>0. TypeOK /\ events <= edits
  BY DEF Struct
<1> USE DEF fileVars, coreVars, nodeVars, hist
<1>1. ASSUME NEW v \in Contents, NEW replaced \in BOOLEAN, Edit(v, replaced)
      PROVE  Struct'
  <2>1. edits' \in 0..MaxEdits /\ events' \in 0..MaxEdits /\ events' <= edits'
    BY <1>0, <1>1, Typed, ConstantsTyped DEF Edit
  <2> QED
    BY <1>0, <1>1, <2>1, Typed, StructAs DEF Edit
<1>2. CASE Tick
  <2>1. window' \in 0..2
    BY <1>0, <1>2, Typed DEF Tick
  <2>2. work' \in [Reloads -> WorkState]
    <3>1. ASSUME NEW r \in Reloads
          PROVE  [work[r] EXCEPT !.left = 0] \in WorkState
      BY <1>0, WorkTyped DEF WorkState
    <3> QED
      BY <1>0, <1>2, <3>1, Typed DEF Tick
  <2> QED
    BY <1>0, <1>2, <2>1, <2>2, Typed, StructAs DEF Tick
<1>3. CASE Accept
  <2>1. events' \in 0..MaxEdits /\ events' <= edits' /\ window' \in 0..2
    BY <1>0, <1>3, Typed, ConstantsTyped DEF Accept
  <2>2. work' \in [Reloads -> WorkState]
    <3>1. PICK r \in Reloads : Goto(r, "sleep")
      BY <1>3 DEF Accept
    <3> QED
      BY <1>0, <3>1, GotoState DEF WorkPcs, Moves, Becomes, OnlyWork
  <2> QED
    BY <1>0, <1>3, <2>1, <2>2, Typed, StructAs DEF Accept
<1>4. CASE Ignore
  <2>1. events' \in 0..MaxEdits /\ events' <= edits'
    BY <1>0, <1>4, Typed, ConstantsTyped DEF Ignore
  <2>2. missed' \in BOOLEAN
    BY <1>4 DEF Ignore
  <2> QED
    BY <1>0, <1>4, <2>1, <2>2, Typed, StructAs DEF Ignore
<1> QED
  BY <1>1, <1>2, <1>3, <1>4

(* Where the closing of machines is.                                       *)
LEMMA CurrentTyped ==
  ASSUME TypeOK, NEW r \in Reloads, ~AtEnd(r)
  PROVE  /\ work[r].slice \in Numbers /\ work[r].i \in 1..Size /\ work[r].i <= Size
         /\ Current(r) \in Machines \cup {NoMachine}
<1>1. work[r].slice \in Numbers /\ work[r].i \in 1..Size /\ work[r].i <= Size
  BY WorkTyped DEF AtEnd
<1>2. slices[work[r].slice] \in [1..Size -> Machines \cup {NoMachine}]
  BY <1>1, Typed
<1> QED
  BY <1>1, <1>2 DEF Current

LEMMA StructReload ==
  ASSUME Struct, NEW r \in Reloads, ReloadStep(r)
  PROVE  Struct'
<1>0. TypeOK /\ events <= edits
  BY DEF Struct
<1> USE DEF fileVars, coreVars, nodeVars, hist
<1>1. CASE Load(r)
  <2>1. work' \in [Reloads -> WorkState]
    BY <1>0, <1>1, ClosingState DEF Load, Becomes, OnlyWork
  <2>2. overlap' \in BOOLEAN
    BY <1>1 DEF Load
  <2> QED
    BY <1>0, <1>1, <2>1, <2>2, Typed, StructAs DEF Load
<1>2. CASE Skip(r)
  <2>1. work' \in [Reloads -> WorkState]
    BY <1>0, <1>2, CurrentTyped, NextIndexState
       DEF Skip, StepsOn, Becomes, OnlyWork
  <2> QED
    BY <1>0, <1>2, <2>1, Typed, StructAs DEF Skip
<1>3. CASE CloseMachine(r)
  <2>1. work' \in [Reloads -> WorkState]
    BY <1>0, <1>3, CurrentTyped, NextIndexState
       DEF CloseMachine, StepsOn, Becomes, OnlyWork
  <2>2. Current(r) \in Machines
    BY <1>0, <1>3, CurrentTyped DEF CloseMachine
  <2>3. mach' \in [Machines -> MachineState]
    BY <1>0, <1>3, <2>2, CloseMachineState DEF Is, OnlyMach
  <2>4. caught' \in SUBSET Machines /\ beside' \in SUBSET Machines
    BY <1>0, <1>3, <2>2, Typed DEF CloseMachine
  <2> QED
    BY <1>0, <1>3, <2>1, <2>3, <2>4, Typed, StructAs DEF CloseMachine
<1>4. CASE CloseMachinePanics(r)
  <2>1. down' \in Downs
    BY <1>4 DEF CloseMachinePanics, Dies, Downs
  <2> QED
    BY <1>0, <1>4, <2>1, Typed, StructAs DEF CloseMachinePanics
<1>5. ASSUME work' \in [Reloads -> WorkState], down' \in Downs,
             core' \in Numbers \cup {0}, open' \in SUBSET Numbers,
             field' \in Numbers \cup {0},
             UNCHANGED <<fileVars, window, conf, slices, mach, hist>>
      PROVE  Struct'
  BY <1>0, <1>5, Typed, StructAs
<1>6. CASE NodesClosed(r)
  <2>1. PICK p \in {"core", "failed"} : Goto(r, p)
    BY <1>6 DEF NodesClosed
  <2>2. work' \in [Reloads -> WorkState]
    BY <1>0, <2>1, GotoState DEF WorkPcs, Moves, Becomes, OnlyWork
  <2> QED
    BY <1>0, <1>5, <1>6, <2>2, Typed DEF NodesClosed
<1>7. ASSUME work' = work \/ \E p \in WorkPcs : Goto(r, p)
      PROVE  work' \in [Reloads -> WorkState]
  BY <1>0, <1>7, Typed, GotoState DEF Moves, Becomes, OnlyWork
<1>8. CASE CloseCore(r)
  <2>1. /\ work' = work \/ \E p \in WorkPcs : Goto(r, p)
        /\ down' \in Downs /\ open' \in SUBSET Numbers
    BY <1>0, <1>8, Typed DEF CloseCore, WorkPcs, Dies, Downs
  <2> QED
    BY <1>0, <1>5, <1>7, <1>8, <2>1, Typed DEF CloseCore
<1>9. CASE NewCore(r) \/ NewCoreFails(r)
  <2>1. \E p \in WorkPcs : Goto(r, p)
    BY <1>9 DEF NewCore, NewCoreFails, WorkPcs
  <2>2. core' \in Numbers \cup {0} /\ open' \in SUBSET Numbers
    BY <1>0, <1>9, Typed, ConstantsTyped DEF NewCore, NewCoreFails
  <2> QED
    BY <1>0, <1>5, <1>7, <1>9, <2>1, <2>2, Typed DEF NewCore, NewCoreFails
<1>10. CASE StartCore(r)
  <2>1. /\ work' = work \/ \E p \in WorkPcs : Goto(r, p)
        /\ down' \in Downs /\ open' \in SUBSET Numbers
    BY <1>0, <1>10, Typed DEF StartCore, WorkPcs, Dies, Downs
  <2> QED
    BY <1>0, <1>5, <1>7, <1>10, <2>1, Typed DEF StartCore
<1>11. CASE StartNodes(r)
  <2>1. work' \in [Reloads -> WorkState]
    BY <1>0, <1>11, MachineIndexState DEF Becomes, OnlyWork
  <2> QED
    BY <1>0, <1>5, <1>11, <2>1, Typed, ConstantsTyped DEF StartNodes
<1>12. CASE StartMachine(r)
  <2>0. work[r].i <= Size
    BY <1>12 DEF StartMachine
  <2>1. work[r].i \in 1..Size /\ <<r, work[r].i>> \in Machines
    <3>1. work[r].i \in 1..Size
      BY <1>0, <2>0, WorkTyped
    <3> QED
      BY <3>1, ConstantsTyped
  <2>2. CASE work[r].core # 0 /\ field # 0
    <3> DEFINE m == <<r, work[r].i>>
               s == Started(m, work[r].core, work[r].conf)
    <3>1. /\ slices' = [slices EXCEPT ![field][work[r].i] = m]
          /\ mach' = [mach EXCEPT ![m] = s]
          /\ work' = [work EXCEPT ![r].i = @ + 1] /\ down' = down
      BY <1>12, <2>2 DEF StartMachine
    <3>2. s \in MachineState
      BY <1>0, <2>2, WorkTyped DEF Started, Monitor, MachineState
    <3>3. field \in Numbers
      BY <1>0, <2>2, Typed
    <3> HIDE DEF s, m
    <3>4. m \in Machines
      BY <2>1 DEF m
    <3>5. mach' \in [Machines -> MachineState]
      BY <1>0, <3>1, <3>2, <3>4, Typed
    <3>6. slices' \in [Numbers -> [1..Size -> Machines \cup {NoMachine}]]
      BY <1>0, <2>1, <3>1, <3>3, <3>4, Typed
    <3>7. work' \in [Reloads -> WorkState]
      BY <1>0, <2>0, <3>1, NextIndexState DEF StepsOn, Becomes, OnlyWork
    <3> QED
      BY <1>0, <1>12, <3>1, <3>5, <3>6, <3>7, Typed, StructAs DEF StartMachine
  <2>3. CASE work[r].core = 0 \/ field = 0
    <3>1. /\ UNCHANGED <<slices, mach, work, core, open, field>>
          /\ UNCHANGED <<fileVars, window, conf, hist>>
          /\ down' \in Downs
      BY <1>12, <2>3 DEF StartMachine, Dies, Downs
    <3> QED
      BY <1>0, <1>5, <3>1, Typed
  <2> QED
    BY <2>2, <2>3
<1>13. CASE StartMachineFails(r)
  <2>1. work' \in [Reloads -> WorkState]
    BY <1>0, <1>13, ClosingState DEF StartMachineFails, Becomes, OnlyWork
  <2> QED
    BY <1>0, <1>5, <1>13, <2>1, Typed DEF StartMachineFails
<1>14. CASE NodesStarted(r)
  <2>1. \E p \in WorkPcs : Goto(r, p)
    BY <1>14 DEF NodesStarted, WorkPcs
  <2> QED
    BY <1>0, <1>5, <1>7, <1>14, <2>1, Typed DEF NodesStarted
<1> QED
  BY <1>1, <1>2, <1>3, <1>4, <1>6, <1>8, <1>9, <1>10, <1>11, <1>12, <1>13,
     <1>14
     DEF ReloadStep

LEMMA StructStep ==
  ASSUME Struct, [Next]_vars
  PROVE  Struct'
<1>0. TypeOK /\ events <= edits
  BY DEF Struct
<1>1. CASE UNCHANGED vars
  BY <1>0, <1>1, Typed, StructAs DEF vars, fileVars, coreVars, nodeVars, hist
<1>2. ASSUME NEW m \in Machines, GoesOn(m)
      PROVE  Struct'
  <2>1. mach' \in [Machines -> MachineState] /\ UNCHANGED Others
    BY <1>0, <1>2, SyncState DEF Goes, Is, OnlyMach
  <2> QED
    BY <1>0, <2>1, Typed, StructAs DEF Others, fileVars, coreVars, hist
<1>3. ASSUME NEW m \in Machines, GivesUp(m)
      PROVE  Struct'
  <2>1. down' \in Downs /\ UNCHANGED <<fileVars, window, conf, coreVars, nodeVars, work, hist>>
    BY <1>3 DEF GivesUp, DelNodePanics, AddNodePanics, Dies, Downs
  <2> QED
    BY <1>0, <2>1, Typed, StructAs DEF fileVars, coreVars, nodeVars, hist
<1> QED
  BY <1>1, <1>2, <1>3, Machinery, StructWorld, StructReload DEF Next, WatchStep

(* Every variable of the process keeps a value of its kind, for any number *)
(* of machines and of changes of the file: there is a goroutine for every  *)
(* reload, and none goes past the end of the slice (cmd/server.go,         *)
(* node/node.go).                                                          *)
THEOREM TypeCorrect == Spec => []TypeOK
<1>1. Struct => TypeOK
  BY DEF Struct
<1> QED
  BY <1>1, StructInit, StructStep, PTL DEF Spec

-----------------------------------------------------------------------------
(* A change is heard of.                                                   *)
LEMMA HeardStep ==
  ASSUME Struct, Heard, [Next]_vars
  PROVE  Heard'
<1>0. TypeOK
  BY DEF Struct
<1> USE DEF fileVars, coreVars, nodeVars, hist
<1>1. ASSUME UNCHANGED <<missed, conf, file, events>>, Asleep => Asleep'
      PROVE  Heard'
  BY <1>1 DEF Heard
<1>2. ASSUME NEW r \in Reloads, OnlyWork(r),
             work[r].pc = "sleep" => work'[r].pc = "sleep"
      PROVE  Asleep => Asleep'
  BY <1>2 DEF Asleep, OnlyWork
<1>3. ASSUME NEW v \in Contents, NEW replaced \in BOOLEAN, Edit(v, replaced)
      PROVE  Heard'
  <2>1. CASE watched
    <3>1. events' > 0
      BY <1>0, <1>3, <2>1, Typed DEF Edit
    <3> QED
      BY <3>1 DEF Heard
  <2>2. CASE ~watched
    <3>1. /\ missed' = (missed \/ (events = 0 /\ ~Asleep /\ conf # v))
          /\ file' = v /\ UNCHANGED <<events, conf, work>>
      BY <1>3, <2>2 DEF Edit
    <3>2. Asleep' <=> Asleep
      BY <3>1 DEF Asleep
    <3>3. events \in Nat
      BY <1>0, Typed, ConstantsTyped
    <3>4. CASE events = 0 /\ ~Asleep /\ conf # v
      BY <3>1, <3>4 DEF Heard
    <3>5. CASE ~(events = 0 /\ ~Asleep /\ conf # v)
      <4>1. conf' = file' \/ events' > 0 \/ Asleep'
        BY <3>1, <3>2, <3>3, <3>5
      <4> QED
        BY <4>1 DEF Heard
    <3> QED
      BY <3>4, <3>5
  <2> QED
    BY <2>1, <2>2
<1>4. CASE Tick
  <2>1. ASSUME NEW r \in Reloads
        PROVE  work'[r].pc = work[r].pc
    <3>1. work[r] \in WorkState
      BY <1>0, WorkTyped
    <3> QED
      BY <1>4, <3>1 DEF Tick, WorkState
  <2> QED
    BY <1>1, <1>4, <2>1 DEF Tick, Asleep
<1>5. CASE Accept
  <2>1. PICK r \in Reloads : Goto(r, "sleep")
    BY <1>5 DEF Accept
  <2>2. Asleep'
    BY <1>0, <2>1, GotoState DEF WorkPcs, Moves, Becomes, Asleep
  <2> QED
    BY <2>2 DEF Heard
<1>6. CASE Ignore
  <2>1. /\ missed' = (missed \/ (~Asleep /\ conf # file))
        /\ UNCHANGED <<conf, file, work>>
    BY <1>6 DEF Ignore
  <2>2. Asleep' <=> Asleep
    BY <2>1 DEF Asleep
  <2> QED
    BY <2>1, <2>2 DEF Heard
<1>7. ASSUME NEW r \in Reloads, ReloadStep(r)
      PROVE  Heard'
  <2>1. CASE Load(r)
    BY <2>1 DEF Load, Heard
  <2>2. CASE ~Load(r)
    <3>1. UNCHANGED <<missed, conf, file, events>> /\ work[r].pc # "sleep"
      BY <1>7, <2>2
         DEF ReloadStep, Skip, CloseMachine, CloseMachinePanics, NodesClosed,
             CloseCore, NewCore, NewCoreFails, StartCore, StartNodes,
             StartMachine, StartMachineFails, NodesStarted, Closing
    <3>2. \A q \in Reloads \ {r} : work'[q] = work[q]
      BY <1>0, <1>7, <2>2, Typed
         DEF ReloadStep, Skip, CloseMachine, CloseMachinePanics, NodesClosed,
             CloseCore, NewCore, NewCoreFails, StartCore, StartNodes,
             StartMachine, StartMachineFails, NodesStarted, Goto
    <3> QED
      BY <1>1, <3>1, <3>2 DEF Asleep
  <2> QED
    BY <2>1, <2>2
<1>8. ASSUME NEW m \in Machines, GoesOn(m)
      PROVE  Heard'
  BY <1>0, <1>1, <1>8, SyncState DEF Others, Asleep
<1>9. CASE UNCHANGED vars
  BY <1>1, <1>9 DEF vars, Asleep
<1>10. ASSUME NEW m \in Machines, GivesUp(m)
       PROVE  Heard'
  BY <1>1, <1>10 DEF GivesUp, DelNodePanics, AddNodePanics, Asleep
<1> QED
  BY <1>3, <1>4, <1>5, <1>6, <1>7, <1>8, <1>9, <1>10, Machinery DEF Next, WatchStep

(* A machine that is closed has no goroutine, unless it was caught.        *)
LEMMA PartedStep ==
  ASSUME Struct, Parted, [Next]_vars
  PROVE  Parted'
<1>0. TypeOK
  BY DEF Struct
<1> USE DEF fileVars, coreVars, nodeVars, hist
<1>1. CASE UNCHANGED <<mach, caught, beside>>
  BY <1>1 DEF Parted
<1>2. ASSUME NEW m \in Machines, GoesOn(m)
      PROVE  Parted'
  <2>1. PICK runs \in Runs, sync \in Syncs, mon \in Mons :
          Goes(m, runs, sync, mon)
    BY <1>0, <1>2, SyncState
  <2>2. caught' = caught /\ beside' = beside
    BY <1>0, <1>2, SyncState DEF Others
  <2> QED
    BY <2>1, <2>2 DEF Parted, Goes, Is, OnlyMach
<1>3. ASSUME NEW r \in Reloads, CloseMachine(r)
      PROVE  Parted'
  <2> DEFINE m == Current(r)
  <2>1. /\ m \in Machines /\ mach[m].sync # "apply"
        /\ mach[m].runs # "lost" /\ ~InWindow(m)
    BY <1>0, <1>3, CurrentTyped DEF CloseMachine
  <2>2. /\ Is(m, mach[m].core, mach[m].conf, "no", Left(m), LeftMon(m))
        /\ caught' = IF mach[m].sync = "busy" THEN caught \cup {m} ELSE caught
        /\ beside' = IF mach[m].mon \in {"reload", "tail"} THEN beside \cup {m}
                     ELSE beside
    BY <1>0, <1>3, <2>1, CloseMachineState DEF CloseMachine
  <2>3. /\ mach[m].sync \in Syncs /\ mach[m].runs \in Runs
        /\ mach[m].mon \in Mons
    BY <1>0, <2>1, MachTyped
  <2> HIDE DEF m
  <2>4. ASSUME m \notin caught'
        PROVE  mach'[m].sync = "none" /\ (m \notin beside' => mach'[m].mon = "none")
    <3>1. mach[m].sync \in {"none", "parked"} /\ m \notin caught
      BY <2>1, <2>2, <2>3, <2>4 DEF Syncs
    <3>2. mach'[m].sync = "none"
      BY <2>2, <3>1 DEF Is, Left
    <3>3. ASSUME m \notin beside'
          PROVE  mach'[m].mon = "none"
      <4>1. mach[m].mon \in {"none", "rest", "window"} /\ m \notin beside
        BY <2>2, <2>3, <3>3 DEF Mons
      <4>2. mach[m].mon # "window"
        BY <2>1, <2>3, <3>1, <4>1 DEF InWindow, Parted, Runs
      <4> QED
        BY <2>2, <4>1, <4>2 DEF Is, LeftMon
    <3> QED
      BY <3>2, <3>3
  <2>5. ASSUME NEW n \in Machines, n # m
        PROVE  /\ mach'[n] = mach[n] /\ (n \in caught' <=> n \in caught)
               /\ n \in beside' <=> n \in beside
    BY <2>2, <2>5 DEF Is, OnlyMach
  <2> QED
    BY <2>4, <2>5 DEF Parted
<1>4. ASSUME NEW r \in Reloads, StartMachine(r)
      PROVE  Parted'
  <2>1. CASE mach' = mach
    BY <1>1, <1>4, <2>1 DEF StartMachine
  <2>2. CASE mach' # mach
    <3> DEFINE m == <<r, work[r].i>>
    <3>1. mach' = [mach EXCEPT ![m] = Started(m, work[r].core, work[r].conf)]
      BY <1>4, <2>2 DEF StartMachine
    <3>2. \A n \in Machines : mach'[n] = mach[n] \/ mach'[n].runs = "up"
      BY <1>0, <3>1, Typed DEF Started
    <3> QED
      BY <1>4, <3>2 DEF Parted, StartMachine
  <2> QED
    BY <2>1, <2>2
<1>5. ASSUME NEW r \in Reloads, ReloadStep(r), ~CloseMachine(r), ~StartMachine(r)
      PROVE  UNCHANGED <<mach, caught, beside>>
  BY <1>5
     DEF ReloadStep, Load, Skip, CloseMachinePanics, NodesClosed, CloseCore,
         NewCore, NewCoreFails, StartCore, StartNodes, StartMachineFails,
         NodesStarted
<1>6. ASSUME \/ \E v \in Contents, replaced \in BOOLEAN : Edit(v, replaced)
             \/ Tick \/ WatchStep \/ UNCHANGED vars
             \/ \E m \in Machines : GivesUp(m)
      PROVE  UNCHANGED <<mach, caught, beside>>
  BY <1>6
     DEF Edit, Tick, WatchStep, Accept, Ignore, vars, GivesUp, DelNodePanics,
         AddNodePanics
<1> QED
  BY <1>1, <1>2, <1>3, <1>4, <1>5, <1>6, Machinery DEF Next

-----------------------------------------------------------------------------
(* One reload at a time: what it finds, ...                                *)
LEMMA OrderlyParts ==
  ASSUME Orderly, NEW r \in Active
  PROVE  /\ r \in Reloads /\ Active = {r} /\ Slots /\ open \subseteq {core} /\ Kept
         /\ Doing(r)
BY DEF Orderly, Single, Active

(* ... and what it has to leave.                                           *)
LEMMA OrderlyAgain ==
  ASSUME NEW r \in Reloads, Active' \subseteq {r}, Doing(r)', Rest', Slots',
         open' \subseteq {core'}, Kept'
  PROVE  Orderly'
<1>1. Single'
  BY DEF Single
<1>2. ASSUME NEW q \in Reloads
      PROVE  Doing(q)'
  <2>1. CASE q \in Active'
    BY <2>1
  <2>2. CASE q \notin Active'
    <3>1. work'[q].pc \in {"none", "sleep", "done", "failed"}
      BY <2>2 DEF Active
    <3> QED
      BY <3>1 DEF Doing, Closing
  <2> QED
    BY <2>1, <2>2
<1> QED
  BY <1>1, <1>2 DEF Orderly

LEMMA StaysAlone ==
  ASSUME NEW r \in Reloads, Active \subseteq {r}, OnlyWork(r)
  PROVE  /\ Active' \subseteq {r}
         /\ work'[r].pc \notin {"none", "sleep", "done", "failed"} => Active' # {}
BY DEF Active, OnlyWork

(* No slot is filled, and no reload goes back to where it has made less.   *)
LEMMA SlotsKept ==
  ASSUME Slots, NEW r \in Reloads, OnlyWork(r), UNCHANGED slices,
         \A n \in Numbers, j \in 1..Size :
           <<n, j>> \in caught' => <<n, j>> \in caught \/ slices[n][j] # NoMachine,
         work'[r].pc \in Before => work[r].pc \in Before,
         work'[r].pc = "machine" => work[r].pc \in Before
  PROVE  Slots'
<1>1. ASSUME NEW n \in Numbers, NEW j \in 1..Size, Unmade(n, j)'
      PROVE  Unmade(n, j)
  <2>1. CASE n = r
    BY <1>1, <2>1 DEF Unmade
  <2>2. CASE n # r
    BY <1>1, <2>2 DEF Unmade, OnlyWork
  <2> QED
    BY <2>1, <2>2
<1> QED
  BY <1>1 DEF Slots

(* Nothing runs but what was caught.                                       *)
NoneRuns ==
  \A n \in Numbers, j \in 1..Size :
    <<n, j>> \in caught \/ mach[<<n, j>>].runs = "no"

LEMMA KeptWhileNone ==
  ASSUME NoneRuns, UNCHANGED <<mach, caught>>
  PROVE  Kept'
BY DEF NoneRuns, Kept

LEMMA NoneRunsWithoutSlice ==
  ASSUME Kept, field = 0
  PROVE  NoneRuns
<1>1. \A n \in Numbers : n # 0
  BY ConstantsTyped
<1> QED
  BY <1>1 DEF Kept, NoneRuns

(* Whatever leaves the nodes, the core and the reloads under way alone.    *)
SameWork(q) ==
  /\ work'[q].pc = work[q].pc /\ work'[q].i = work[q].i
  /\ work'[q].slice = work[q].slice /\ work'[q].core = work[q].core
  /\ work'[q].conf = work[q].conf

LEMMA OrderlyAside ==
  ASSUME Orderly, UNCHANGED <<conf, core, open, field, slices, mach, caught>>,
         \A q \in Reloads :
           SameWork(q) \/ (work[q].pc = "none" /\ work'[q].pc = "sleep")
  PROVE  Orderly'
<1>1. Active' = Active
  BY DEF Active, SameWork
<1>2. Single' /\ Rest' /\ Kept'
  BY <1>1 DEF Orderly, Single, Rest, Filled, Kept
<1>3. \A n \in Numbers, j \in 1..Size : Unmade(n, j)' => Unmade(n, j)
  BY DEF Unmade, Before, SameWork
<1>4. Slots'
  BY <1>3 DEF Orderly, Slots
<1>5. ASSUME NEW q \in Reloads
      PROVE  Doing(q)'
  <2>0. Doing(q)
    BY DEF Orderly
  <2>1. CASE SameWork(q)
    BY <2>0, <2>1 DEF SameWork, Doing, Closing, Filled
  <2>2. CASE work'[q].pc = "sleep"
    BY <2>2 DEF Doing, Closing
  <2> QED
    BY <2>1, <2>2
<1> QED
  BY <1>2, <1>4, <1>5 DEF Orderly

LEMMA OrderlyWorld ==
  ASSUME Struct, Orderly,
         \/ \E v \in Contents, replaced \in BOOLEAN : Edit(v, replaced)
         \/ Tick \/ Accept \/ Ignore \/ UNCHANGED vars
  PROVE  Orderly'
<1>0. TypeOK
  BY DEF Struct
<1> USE DEF fileVars, coreVars, nodeVars, hist
<1>1. CASE Tick
  <2>1. ASSUME NEW q \in Reloads
        PROVE  SameWork(q)
    <3>1. work[q] \in WorkState
      BY <1>0, WorkTyped
    <3> QED
      BY <1>1, <3>1 DEF Tick, WorkState, SameWork
  <2> QED
    BY <1>1, <2>1, OrderlyAside DEF Tick
<1>2. CASE Accept
  <2>1. PICK r \in Reloads : work[r].pc = "none" /\ Goto(r, "sleep")
    BY <1>2 DEF Accept
  <2>2. Moves(r, "sleep")
    BY <1>0, <2>1, GotoState DEF WorkPcs
  <2>3. \A q \in Reloads : SameWork(q) \/ (work[q].pc = "none" /\ work'[q].pc = "sleep")
    BY <2>1, <2>2 DEF Moves, Becomes, OnlyWork, SameWork
  <2> QED
    BY <1>2, <2>3, OrderlyAside DEF Accept
<1>3. CASE Ignore \/ UNCHANGED vars \/ \E v \in Contents, replaced \in BOOLEAN : Edit(v, replaced)
  BY <1>3, OrderlyAside DEF Ignore, Edit, vars, SameWork
<1> QED
  BY <1>1, <1>2, <1>3

(* A sync makes no machine run that was closed, unless it was caught.      *)
LEMMA OrderlySync ==
  ASSUME Struct, Parted, Orderly, NEW m \in Machines,
         GoesOn(m)
  PROVE  Orderly'
<1>0. TypeOK
  BY DEF Struct
<1>1. PICK runs \in Runs, sync \in Syncs, mon \in Mons : Goes(m, runs, sync, mon)
  BY <1>0, SyncState
<1>2. UNCHANGED <<conf, core, open, field, slices, caught, work>>
  BY <1>0, SyncState DEF Others, coreVars, hist
<1>3. ASSUME NEW n \in Machines
      PROVE  /\ mach'[n].core = mach[n].core /\ mach'[n].conf = mach[n].conf
             /\ mach[n].runs # "no" => mach'[n].runs # "no"
             /\ n \notin caught => (mach'[n].runs # "no" <=> mach[n].runs # "no")
  BY <1>1, <1>2 DEF Goes, Is, OnlyMach, Parted
<1>4. \A n \in Numbers, j \in 1..Size : <<n, j>> \in Machines
  BY ConstantsTyped
<1>5. Slots' /\ Single' /\ Active' = Active
  BY <1>2 DEF Orderly, Slots, Unmade, Single, Active
<1>6. Kept'
  BY <1>2, <1>3, <1>4 DEF Orderly, Kept
<1>7. field \in Numbers \cup {0}
  BY <1>0, Typed
<1>8. ASSUME NEW j \in 1..Size, field # 0
      PROVE  Filled(j) => Filled(j)'
  BY <1>2, <1>3, <1>4, <1>7, <1>8 DEF Filled
<1>9. Rest'
  BY <1>2, <1>5, <1>8 DEF Orderly, Rest
<1>10. ASSUME NEW q \in Reloads
       PROVE  Doing(q)'
  <2>0. Doing(q) /\ q # 0
    BY ConstantsTyped DEF Orderly
  <2>1. ASSUME work[q].pc = "machine"
        PROVE  \A j \in 1..Size : <<q, j>> \notin caught /\ (j < work[q].i => Filled(j)')
    BY <1>8, <2>0, <2>1 DEF Doing
  <2>2. ASSUME Closing(q), field # 0, NEW j \in 1..Size, j < work[q].i
        PROVE  mach'[<<field, j>>].runs = "no" \/ <<field, j>> \in caught
    <3>1. mach[<<field, j>>].runs = "no" \/ <<field, j>> \in caught
      BY <2>0, <2>2 DEF Doing
    <3> QED
      BY <1>3, <1>4, <1>7, <2>2, <3>1
  <2> QED
    BY <1>2, <2>0, <2>1, <2>2 DEF Doing, Closing
<1> QED
  BY <1>2, <1>5, <1>6, <1>9, <1>10 DEF Orderly

LEMMA OrderlyLoad ==
  ASSUME Struct, Orderly, NEW r \in Reloads, Load(r), overlap' = FALSE
  PROVE  Orderly'
<1>0. TypeOK
  BY DEF Struct
<1>1. /\ Active = {} /\ work[r].pc = "sleep"
      /\ UNCHANGED <<core, open, field, slices, mach, caught>>
  BY DEF Load, coreVars, nodeVars
<1>2. Becomes(r, "close", 1, field, work[r].core, work[r].conf)
  BY <1>0, ClosingState DEF Load
<1>3. OnlyWork(r) /\ work'[r].pc = "close" /\ work'[r].i = 1 /\ work'[r].slice = field
  BY <1>2 DEF Becomes
<1>4. Slots'
  BY <1>1, <1>3, SlotsKept DEF Orderly, Before
<1>5. Kept' /\ open' \subseteq {core'}
  BY <1>1 DEF Orderly, Kept
<1>6. Active' \subseteq {r} /\ Active' # {}
  BY <1>1, <1>3, StaysAlone
<1>7. Doing(r)'
  <2>1. field # 0 => \A j \in 1..Size : <<field, j>> \notin caught
    BY <1>1 DEF Orderly, Rest
  <2>2. \A j \in 1..Size : ~(j < 1)
    OBVIOUS
  <2> QED
    BY <1>1, <1>3, <2>1, <2>2 DEF Doing, Closing
<1> QED
  BY <1>4, <1>5, <1>6, <1>7, OrderlyAgain DEF Rest

(* Nodes are closed: Node.Close.                                           *)
LEMMA OrderlyClosing ==
  ASSUME Struct, Orderly, NEW r \in Reloads,
         Skip(r) \/ CloseMachine(r) \/ NodesClosed(r)
  PROVE  Orderly'
<1>0. TypeOK /\ Closing(r) /\ r \in Active
  BY DEF Struct, Skip, CloseMachine, NodesClosed, Closing, Active
<1>1. /\ Active = {r} /\ Slots /\ open \subseteq {core} /\ Kept /\ Doing(r)
  BY <1>0, OrderlyParts
<1>2. /\ work[r].slice = field
      /\ field # 0 => \A j \in 1..Size :
           /\ j < work[r].i => mach[<<field, j>>].runs = "no" \/ <<field, j>> \in caught
           /\ j >= work[r].i => <<field, j>> \notin caught
  BY <1>0, <1>1 DEF Doing
<1>3. UNCHANGED <<conf, core, open, slices>>
  BY DEF Skip, CloseMachine, NodesClosed, coreVars, nodeVars
<1>4. CASE Skip(r) \/ CloseMachine(r)
  <2> DEFINE i == work[r].i
  <2>1. ~AtEnd(r) /\ field' = field /\ work' = [work EXCEPT ![r].i = @ + 1]
    BY <1>4 DEF Skip, CloseMachine, nodeVars
  <2>2. i \in 1..Size /\ i <= Size /\ field \in Numbers /\ field # 0
    BY <1>0, <1>2, <2>1, CurrentTyped, ConstantsTyped
  <2>3. StepsOn(r)
    BY <1>0, <2>1, <2>2, NextIndexState
  <2>4. /\ OnlyWork(r) /\ work'[r].pc = work[r].pc /\ work'[r].i = i + 1
        /\ work'[r].slice = work[r].slice
    BY <2>3 DEF StepsOn, Becomes
  <2>5. Active' \subseteq {r} /\ Active' # {}
    BY <1>0, <1>1, <2>4, StaysAlone DEF Closing
  <2>6. Current(r) = slices[field][i]
    BY <1>2 DEF Current
  <2> HIDE DEF i
  <2>7. slices[field][i] \in {NoMachine, <<field, i>>} /\ <<field, i>> \in Machines
    BY <1>1, <2>2, ConstantsTyped DEF Slots
  <2>8. \A j \in 1..Size : /\ j < i + 1 <=> j < i \/ j = i
                           /\ j >= i + 1 => j >= i /\ j # i
    BY <2>2
  <2>9. CASE Skip(r)
    <3>1. slices[field][i] = NoMachine /\ UNCHANGED <<mach, caught>>
      BY <2>6, <2>9 DEF Skip, nodeVars, hist
    <3>2. mach[<<field, i>>].runs = "no" \/ <<field, i>> \in caught
      BY <1>1, <2>2, <2>7, <3>1, ConstantsTyped DEF Kept
    <3>3. Doing(r)'
      BY <1>0, <1>2, <2>1, <2>2, <2>4, <2>8, <3>1, <3>2 DEF Doing, Closing, i
    <3>4. Slots'
      BY <1>0, <1>1, <1>3, <2>4, <3>1, SlotsKept DEF Closing
    <3>5. Kept'
      BY <1>1, <1>3, <2>1, <3>1 DEF Kept
    <3> QED
      BY <1>1, <1>3, <2>5, <3>3, <3>4, <3>5, OrderlyAgain DEF Rest
  <2>10. CASE CloseMachine(r)
    <3>1. Current(r) = <<field, i>> /\ slices[field][i] = <<field, i>>
      BY <2>6, <2>7, <2>10 DEF CloseMachine
    <3>2. Is(Current(r), mach[Current(r)].core, mach[Current(r)].conf, "no",
             Left(Current(r)), LeftMon(Current(r)))
      BY <1>0, <2>7, <2>10, <3>1, CloseMachineState
    <3>3. /\ OnlyMach(<<field, i>>) /\ mach'[<<field, i>>].runs = "no"
      BY <3>1, <3>2 DEF Is
    <3>4. caught \subseteq caught' /\ caught' \subseteq caught \cup {<<field, i>>}
      BY <2>10, <3>1 DEF CloseMachine
    <3>5. ASSUME NEW j \in 1..Size, j # i
          PROVE  /\ mach'[<<field, j>>] = mach[<<field, j>>]
                 /\ <<field, j>> \in caught' <=> <<field, j>> \in caught
      BY <2>2, <3>3, <3>4, <3>5, ConstantsTyped DEF OnlyMach
    <3>6. Doing(r)'
      BY <1>0, <1>2, <2>1, <2>2, <2>4, <2>8, <3>3, <3>5 DEF Doing, Closing, i
    <3>7. Slots'
      <4>1. slices[field][i] # NoMachine
        BY <2>7, <3>1, ConstantsTyped
      <4>2. \A n \in Numbers, j \in 1..Size :
              <<n, j>> \in caught' => <<n, j>> \in caught \/ slices[n][j] # NoMachine
        BY <3>4, <4>1
      <4> QED
        BY <1>0, <1>1, <1>3, <2>4, <4>2, SlotsKept DEF Closing
    <3>8. Kept'
      <4>1. ASSUME NEW m \in Machines, m \notin caught', mach'[m].runs # "no"
            PROVE  m \notin caught /\ mach'[m] = mach[m]
        BY <3>3, <3>4, <4>1 DEF OnlyMach
      <4> QED
        BY <1>1, <1>3, <2>1, <4>1, ConstantsTyped DEF Kept
    <3> QED
      BY <1>1, <1>3, <2>5, <3>6, <3>7, <3>8, OrderlyAgain DEF Rest
  <2> QED
    BY <1>4, <2>9, <2>10
<1>5. CASE NodesClosed(r)
  <2>1. /\ AtEnd(r) /\ field' = 0 /\ UNCHANGED <<mach, caught>>
        /\ \E p \in {"core", "failed"} : Goto(r, p)
    BY <1>5 DEF NodesClosed, hist
  <2>2. PICK p \in {"core", "failed"} : Moves(r, p)
    BY <1>0, <2>1, GotoState DEF WorkPcs
  <2>3. OnlyWork(r) /\ work'[r].pc = p
    BY <2>2 DEF Moves, Becomes
  <2>4. NoneRuns
    <3>1. CASE field = 0
      BY <1>1, <3>1, NoneRunsWithoutSlice
    <3>2. CASE field # 0
      <4>1. work[r].i \in Nat /\ Size \in Nat /\ work[r].i > Size
        BY <1>0, <1>2, <2>1, <3>2, WorkTyped DEF AtEnd
      <4>2. \A j \in 1..Size : j < work[r].i
        BY <4>1
      <4> QED
        BY <1>1, <1>2, <3>2, <4>2 DEF NoneRuns, Kept
    <3> QED
      BY <3>1, <3>2
  <2>5. Kept'
    BY <2>1, <2>4, KeptWhileNone
  <2>6. CASE p = "core"
    <3>1. Slots'
      <4>1. CASE work[r].pc # "close"
        <5>1. Goto(r, "failed")
          BY <1>5, <4>1 DEF NodesClosed
        <5>2. work'[r].pc = "failed"
          BY <1>0, <5>1, GotoState DEF WorkPcs, Moves, Becomes
        <5> QED
          BY <2>3, <2>6, <5>2
      <4> QED
        BY <1>1, <1>3, <2>1, <2>3, <2>6, <4>1, SlotsKept DEF Before
    <3>2. Doing(r)' /\ Rest'
      BY <2>1, <2>3, <2>6 DEF Doing, Closing, Rest
    <3> QED
      BY <1>1, <1>3, <2>3, <2>5, <3>1, <3>2, OrderlyAgain, StaysAlone
  <2>7. CASE p = "failed"
    <3>1. Slots'
      BY <1>1, <1>3, <2>1, <2>3, <2>7, SlotsKept DEF Before
    <3>2. Doing(r)' /\ Rest'
      BY <2>1, <2>3, <2>7 DEF Doing, Closing, Rest
    <3> QED
      BY <1>1, <1>3, <2>3, <2>5, <3>1, <3>2, OrderlyAgain, StaysAlone
  <2> QED
    BY <2>6, <2>7
<1> QED
  BY <1>4, <1>5

(* The core is closed, and another one made and started.                   *)
LEMMA OrderlyCore ==
  ASSUME Struct, Orderly, NEW r \in Reloads,
         CloseCore(r) \/ NewCore(r) \/ NewCoreFails(r) \/ StartCore(r)
  PROVE  Orderly'
<1>0. TypeOK /\ work[r].pc \in {"core", "new", "start"} /\ r \in Active
  BY DEF Struct, CloseCore, NewCore, NewCoreFails, StartCore, Active
<1>1. /\ Active = {r} /\ Slots /\ open \subseteq {core} /\ Kept /\ Doing(r)
  BY <1>0, OrderlyParts
<1>2. /\ field = 0 /\ NoneRuns
      /\ work[r].pc = "new" => open = {}
      /\ work[r].pc = "start" => core \in open
      /\ UNCHANGED <<conf, field, slices, mach, caught>>
  BY <1>0, <1>1, NoneRunsWithoutSlice
     DEF Doing, CloseCore, NewCore, NewCoreFails, StartCore, nodeVars, hist
<1>3. Kept'
  BY <1>2, KeptWhileNone
<1>4. ASSUME NEW p \in {"new", "start", "nodes", "failed"}, Goto(r, p),
             open' \subseteq {core'},
             p = "new" => open' = {},
             p \in {"start", "nodes"} => core' \in open'
      PROVE  Orderly'
  <2>1. Moves(r, p)
    BY <1>0, <1>4, GotoState DEF WorkPcs
  <2>2. OnlyWork(r) /\ work'[r].pc = p
    BY <2>1 DEF Moves, Becomes
  <2>3. Slots'
    BY <1>0, <1>1, <1>2, <2>2, SlotsKept DEF Before
  <2>4. Doing(r)' /\ Rest'
    BY <1>2, <1>4, <2>2 DEF Doing, Closing, Rest
  <2> QED
    BY <1>1, <1>3, <1>4, <2>2, <2>3, <2>4, OrderlyAgain, StaysAlone
<1>5. ASSUME UNCHANGED <<work, core, open>>
      PROVE  Orderly'
  BY <1>2, <1>5, OrderlyAside DEF SameWork
<1>6. CASE CloseCore(r)
  <2>1. CASE core = 0
    BY <1>5, <1>6, <2>1 DEF CloseCore
  <2>2. CASE core # 0
    <3>1. open' = {} /\ (Goto(r, "new") \/ Goto(r, "failed"))
      BY <1>1, <1>6, <2>2 DEF CloseCore
    <3> QED
      BY <1>4, <3>1
  <2> QED
    BY <2>1, <2>2
<1>7. CASE NewCore(r)
  <2>1. core' = r /\ open' = {r} /\ Goto(r, "start")
    BY <1>2, <1>7 DEF NewCore
  <2> QED
    BY <1>4, <2>1
<1>8. CASE NewCoreFails(r)
  <2>1. open' = {} /\ Goto(r, "failed")
    BY <1>2, <1>8 DEF NewCoreFails
  <2> QED
    BY <1>4, <2>1
<1>9. CASE StartCore(r)
  <2>1. core # 0 /\ core \in open /\ core' = core
    BY <1>0, <1>2, <1>9, Typed, ConstantsTyped DEF StartCore
  <2>2. CASE Goto(r, "nodes") /\ open' = open
    BY <1>1, <1>4, <2>1, <2>2
  <2>3. CASE Goto(r, "failed") /\ open' = open \ {core}
    BY <1>1, <1>4, <2>1, <2>3
  <2> QED
    BY <1>9, <2>1, <2>2, <2>3 DEF StartCore
<1> QED
  BY <1>6, <1>7, <1>8, <1>9

(* The machines are started, one by one: Node.Start.                       *)
LEMMA OrderlyStarting ==
  ASSUME Struct, Orderly, NEW r \in Reloads,
         StartNodes(r) \/ StartMachineFails(r) \/ NodesStarted(r)
  PROVE  Orderly'
<1>0. TypeOK /\ work[r].pc \in {"nodes", "machine"} /\ r \in Active
  BY DEF Struct, StartNodes, StartMachineFails, NodesStarted, Active
<1>1. /\ Active = {r} /\ Slots /\ open \subseteq {core} /\ Kept /\ Doing(r)
  BY <1>0, OrderlyParts
<1>2. /\ UNCHANGED <<conf, core, open, slices, mach, caught>>
  BY DEF StartNodes, StartMachineFails, NodesStarted, coreVars, nodeVars, hist
<1>3. CASE StartNodes(r)
  <2>1. field = 0 /\ core \in open /\ field' = r /\ work[r].pc = "nodes"
    BY <1>1, <1>3 DEF StartNodes, Doing
  <2>2. Becomes(r, "machine", 1, work[r].slice, core, conf)
    BY <1>0, <1>3, MachineIndexState
  <2>3. /\ OnlyWork(r) /\ work'[r].pc = "machine" /\ work'[r].i = 1
        /\ work'[r].core = core /\ work'[r].conf = conf
    BY <2>2 DEF Becomes
  <2>4. Active' \subseteq {r} /\ Active' # {}
    BY <1>0, <1>1, <2>3, StaysAlone
  <2>5. Slots'
    BY <1>1, <1>2, <2>1, <2>3, SlotsKept DEF Before
  <2>6. Kept'
    BY <1>1, <1>2, <2>1, NoneRunsWithoutSlice, KeptWhileNone
  <2>7. Doing(r)'
    <3>1. \A j \in 1..Size : <<r, j>> \notin caught /\ ~(j < 1)
      BY <1>1, <2>1, ConstantsTyped DEF Slots, Unmade, Before
    <3> QED
      BY <1>2, <2>1, <2>3, <3>1 DEF Doing, Closing
  <2> QED
    BY <1>1, <1>2, <2>4, <2>5, <2>6, <2>7, OrderlyAgain DEF Rest
<1>4. ASSUME work[r].pc = "machine"
      PROVE  /\ field = r /\ core \in open
             /\ \A j \in 1..Size :
                  <<r, j>> \notin caught /\ (j < work[r].i => Filled(j))
  BY <1>1, <1>4 DEF Doing
<1>5. CASE StartMachineFails(r)
  <2>1. Becomes(r, "undo", 1, field, work[r].core, work[r].conf)
    BY <1>0, <1>5, ClosingState DEF StartMachineFails
  <2>2. /\ OnlyWork(r) /\ work'[r].pc = "undo" /\ work'[r].i = 1
        /\ work'[r].slice = field /\ field' = field /\ field = r
    BY <1>4, <1>5, <2>1 DEF Becomes, StartMachineFails, nodeVars
  <2>3. Active' \subseteq {r} /\ Active' # {}
    BY <1>0, <1>1, <2>2, StaysAlone
  <2>4. Slots'
    BY <1>1, <1>2, <2>2, SlotsKept DEF Before
  <2>5. Kept'
    BY <1>1, <1>2, <2>2 DEF Kept
  <2>6. Doing(r)'
    <3>1. \A j \in 1..Size : <<field, j>> \notin caught /\ ~(j < 1)
      BY <1>4, <1>5 DEF StartMachineFails
    <3> QED
      BY <1>2, <2>2, <3>1 DEF Doing, Closing
  <2> QED
    BY <1>1, <1>2, <2>3, <2>4, <2>5, <2>6, OrderlyAgain DEF Rest
<1>6. CASE NodesStarted(r)
  <2>1. work[r].pc = "machine" /\ work[r].i > Size /\ field' = field /\ Moves(r, "done")
    BY <1>0, <1>6, GotoState DEF NodesStarted, nodeVars, WorkPcs
  <2>2. OnlyWork(r) /\ work'[r].pc = "done"
    BY <2>1 DEF Moves, Becomes
  <2>3. Active' \subseteq {r}
    BY <1>1, <2>2, StaysAlone
  <2>4. Slots'
    BY <1>1, <1>2, <2>2, SlotsKept DEF Before
  <2>5. Kept'
    BY <1>1, <1>2, <2>1 DEF Kept
  <2>6. Doing(r)'
    BY <2>2 DEF Doing, Closing
  <2>7. Rest'
    <3>1. \A j \in 1..Size : j < work[r].i
      BY <1>0, <2>1, WorkTyped
    <3>2. \A j \in 1..Size : <<field, j>> \notin caught /\ Filled(j)
      BY <1>4, <2>1, <3>1
    <3> QED
      BY <1>2, <2>1, <3>2 DEF Rest, Filled
  <2> QED
    BY <1>1, <1>2, <2>3, <2>4, <2>5, <2>6, <2>7, OrderlyAgain
<1> QED
  BY <1>3, <1>5, <1>6

LEMMA OrderlyStartMachine ==
  ASSUME Struct, Orderly, NEW r \in Reloads, StartMachine(r)
  PROVE  Orderly' /\ down' = down
<1> DEFINE i == work[r].i
           m == <<r, i>>
<1>0. TypeOK /\ work[r].pc = "machine" /\ r \in Active /\ i <= Size
  BY DEF Struct, StartMachine, Active
<1>1. /\ Active = {r} /\ Slots /\ open \subseteq {core} /\ Kept /\ Doing(r)
  BY <1>0, OrderlyParts
<1>2. /\ field = r /\ core \in open /\ work[r].core = core /\ work[r].conf = conf
      /\ \A j \in 1..Size : <<r, j>> \notin caught /\ (j < i => Filled(j))
  BY <1>0, <1>1 DEF Doing
<1>3. core # 0 /\ field # 0 /\ field \in Numbers /\ i \in Nat
  BY <1>0, <1>2, Typed, WorkTyped, ConstantsTyped
<1>4. /\ slices' = [slices EXCEPT ![r][i] = m]
      /\ mach' = [mach EXCEPT ![m] = Started(m, core, conf)]
      /\ work' = [work EXCEPT ![r].i = @ + 1] /\ down' = down
      /\ UNCHANGED <<conf, core, open, field, caught>>
  BY <1>2, <1>3 DEF StartMachine, coreVars, hist
<1>5. StepsOn(r)
  BY <1>0, <1>4, NextIndexState
<1>6. /\ OnlyWork(r) /\ work'[r].pc = "machine" /\ work'[r].i = i + 1
      /\ work'[r].core = core /\ work'[r].conf = conf
  BY <1>0, <1>2, <1>5 DEF StepsOn, Becomes
<1>7. i \in 1..Size /\ m \in Machines
  <2>1. i \in 1..Size
    BY <1>0, WorkTyped
  <2> QED
    BY <1>2, <1>3, <2>1, ConstantsTyped
<1>8. slices[r] \in [1..Size -> Machines \cup {NoMachine}] /\ r \in Numbers
  BY <1>0, <1>2, <1>3, Typed
<1> HIDE DEF i, m
<1>9. /\ slices'[r][i] = m
      /\ \A n \in Numbers, j \in 1..Size :
           n # r \/ j # i => slices'[n][j] = slices[n][j]
  BY <1>0, <1>4, <1>7, <1>8, Typed
<1>10. /\ mach'[m].core = core /\ mach'[m].conf = conf /\ mach'[m].runs = "up"
       /\ \A n \in Machines \ {m} : mach'[n] = mach[n]
  BY <1>0, <1>4, <1>7, Typed DEF Started
<1>11. ASSUME NEW n \in Numbers, NEW j \in 1..Size
       PROVE  /\ <<n, j>> \in Machines
              /\ <<n, j>> = m <=> n = r /\ j = i
  BY ConstantsTyped DEF m
<1>12. Active' \subseteq {r} /\ Active' # {}
  BY <1>0, <1>1, <1>6, StaysAlone
<1>13. \A j \in 1..Size : (j < i + 1 <=> j < i \/ j = i) /\ (i + 1 <= j => i <= j /\ j # i)
  BY <1>3
<1>14. Slots'
  <2>1. ASSUME NEW n \in Numbers, NEW j \in 1..Size, Unmade(n, j)'
        PROVE  Unmade(n, j) /\ ~(n = r /\ j = i)
    <3>1. CASE n = r
      BY <1>0, <1>6, <1>13, <2>1, <3>1 DEF Unmade, i, Before
    <3>2. CASE n # r
      BY <1>6, <2>1, <3>2 DEF Unmade, OnlyWork
    <3> QED
      BY <3>1, <3>2
  <2>2. ASSUME NEW n \in Numbers, NEW j \in 1..Size
        PROVE  /\ slices'[n][j] \in {NoMachine, <<n, j>>}
               /\ Unmade(n, j)' => slices'[n][j] = NoMachine /\ <<n, j>> \notin caught'
    <3>1. CASE n = r /\ j = i
      BY <1>9, <1>11, <2>1, <3>1
    <3>2. CASE n # r \/ j # i
      <4>1. slices'[n][j] = slices[n][j]
        BY <1>9, <3>2
      <4> QED
        BY <1>1, <1>4, <2>1, <4>1 DEF Slots
    <3> QED
      BY <3>1, <3>2
  <2> QED
    BY <2>2 DEF Slots
<1>15. Kept'
  BY <1>1, <1>2, <1>4, <1>9, <1>10, <1>11 DEF Kept
<1>16. Doing(r)'
  <2>1. ASSUME NEW j \in 1..Size, j < i + 1
        PROVE  Filled(j)'
    <3>1. CASE j = i
      BY <1>2, <1>4, <1>8, <1>9, <1>10, <1>11, <3>1 DEF Filled
    <3>2. CASE j # i
      <4>1. Filled(j)
        BY <1>2, <1>13, <2>1, <3>2
      <4> QED
        BY <1>2, <1>4, <1>8, <1>9, <1>10, <1>11, <3>2, <4>1 DEF Filled
    <3> QED
      BY <3>1, <3>2
  <2> QED
    BY <1>2, <1>4, <1>6, <2>1 DEF Doing, Closing
<1> QED
  BY <1>1, <1>4, <1>12, <1>14, <1>15, <1>16, OrderlyAgain DEF Rest

(* Why the process may end while one reload at a time goes on.             *)
Survivable == {"no", "close of nil", "inbound lost", "in reload"}
Endable    == down \in Survivable \/ (down = "monitor" /\ ClosedBeside)

LEMMA OrderlyReload ==
  ASSUME Struct, Orderly, NEW r \in Reloads, ReloadStep(r), ~Load(r),
         down \in Survivable
  PROVE  Orderly' /\ down' \in Survivable
<1>0. TypeOK
  BY DEF Struct
<1>1. CASE CloseMachinePanics(r)
  <2>1. UNCHANGED <<conf, core, open, field, slices, mach, caught, work>>
    BY <1>1 DEF CloseMachinePanics, coreVars, nodeVars, hist
  <2>2. Orderly'
    BY <2>1, OrderlyAside DEF SameWork
  <2>3. mach[Current(r)].runs = "up" => mach[Current(r)].core \in open
    <3>1. Closing(r) /\ r \in Active /\ ~AtEnd(r) /\ Current(r) \in Machines
      BY <1>0, <1>1, CurrentTyped DEF CloseMachinePanics, Closing, Active
    <3>2. Doing(r) /\ Slots /\ Kept
      BY <3>1, OrderlyParts
    <3>3. work[r].slice = field /\ field \in Numbers /\ work[r].i \in 1..Size
      BY <1>0, <3>1, <3>2, CurrentTyped DEF Doing
    <3>4. <<field, work[r].i>> \notin caught
      BY <3>1, <3>2, <3>3, ConstantsTyped DEF Doing
    <3>5. Current(r) = <<field, work[r].i>>
      BY <3>1, <3>2, <3>3, ConstantsTyped DEF Current, Slots
    <3> QED
      BY <3>2, <3>3, <3>4, <3>5 DEF Kept
  <2>4. down' \in {"inbound lost", "in reload"}
    BY <1>1, <2>3 DEF CloseMachinePanics, Dies
  <2> QED
    BY <2>2, <2>4 DEF Survivable
<1>2. CASE Skip(r) \/ CloseMachine(r) \/ NodesClosed(r)
  <2>1. down' = down
    BY <1>2 DEF Skip, CloseMachine, NodesClosed
  <2> QED
    BY <1>2, <2>1, OrderlyClosing
<1>3. CASE CloseCore(r) \/ NewCore(r) \/ NewCoreFails(r)
  <2>1. down' = down \/ down' = "close of nil"
    BY <1>3 DEF CloseCore, NewCore, NewCoreFails, Dies
  <2> QED
    BY <1>3, <2>1, OrderlyCore DEF Survivable
<1>4. CASE StartCore(r)
  <2>1. r \in Active /\ work[r].pc = "start"
    BY <1>4 DEF StartCore, Active
  <2>2. core \in open
    BY <2>1, OrderlyParts DEF Doing
  <2>3. core # 0
    BY <1>0, <2>2, Typed, ConstantsTyped
  <2>4. down' = down
    BY <1>4, <2>3 DEF StartCore
  <2> QED
    BY <1>4, <2>4, OrderlyCore
<1>5. CASE StartNodes(r) \/ StartMachineFails(r) \/ NodesStarted(r)
  <2>1. down' = down
    BY <1>5 DEF StartNodes, StartMachineFails, NodesStarted
  <2> QED
    BY <1>5, <2>1, OrderlyStarting
<1>6. CASE StartMachine(r)
  BY <1>6, OrderlyStartMachine
<1> QED
  BY <1>1, <1>2, <1>3, <1>4, <1>5, <1>6 DEF ReloadStep

-----------------------------------------------------------------------------
SInv ==
  /\ Struct /\ Heard /\ Parted /\ Sequential
  /\ overlap = FALSE => Endable

(* A monitor ends the process of a machine that was closed beside it, or   *)
(* that a sync started again, or where an inbound is lost.                 *)
LEMMA OrderlyGivesUp ==
  ASSUME Struct, Parted, Orderly, NEW m \in Machines, GivesUp(m)
  PROVE  Orderly' /\ Endable'
<1>0. TypeOK /\ mach[m].runs \in Runs
  BY MachTyped DEF Struct
<1>1. UNCHANGED <<conf, core, open, field, slices, mach, caught, beside, work>>
  BY DEF GivesUp, DelNodePanics, AddNodePanics, coreVars, nodeVars, hist
<1>2. Orderly'
  BY <1>1, OrderlyAside DEF SameWork
<1>3. ASSUME m \notin caught, mach[m].runs # "no"
      PROVE  mach[m].core \in open
  BY <1>3, ConstantsTyped DEF Orderly, Kept
<1>4. ASSUME mach[m].mon # "none", m \notin caught \cup beside
      PROVE  mach[m].runs # "no"
  BY <1>4 DEF Parted
<1>5. /\ mach[m].mon \in {"reload", "window"}
      /\ \/ down' = "inbound lost"
         \/ /\ down' = "monitor"
            /\ mach[m].runs = "no" \/ mach[m].core \notin open
  BY DEF GivesUp, DelNodePanics, AddNodePanics, Dies
<1>6. down' = "monitor" => m \in caught \cup beside
  BY <1>3, <1>4, <1>5
<1>7. down' = "monitor" => ClosedBeside
  BY <1>5, <1>6 DEF ClosedBeside
<1>8. ClosedBeside' <=> ClosedBeside
  BY <1>1 DEF ClosedBeside
<1> QED
  BY <1>2, <1>5, <1>7, <1>8 DEF Endable, Survivable

LEMMA Invariance == Spec => []SInv
<1>1. ASSUME Init
      PROVE  SInv
  <2>1. Struct /\ TypeOK
    BY <1>1, StructInit DEF Struct
  <2>2. \A r \in Reloads : work[r].pc = "none"
    BY <1>1 DEF Init, Idle
  <2>3. /\ \A m \in Machines : m[1] # 1 => mach[m] = NotMade
        /\ \A m \in Machines : m[1] = 1 => mach[m] = Started(m, 1, file)
        /\ \A j \in 1..Size : slices[1][j] = <<1, j>>
        /\ \A n \in Numbers \ {1} : \A j \in 1..Size : slices[n][j] = NoMachine
    BY <1>1, ConstantsTyped DEF Init
  <2>4. Heard /\ Parted
    BY <1>1, <2>3 DEF Init, Heard, Parted, NotMade, Started
  <2>5. Active = {} /\ \A r \in Reloads : Doing(r) /\ r # 1
    BY <2>2 DEF Active, Doing, Closing, Reloads
  <2>6. Single
    BY <2>5 DEF Single
  <2>7. \A n \in Numbers, j \in 1..Size : Unmade(n, j) => n # 1
    BY <2>5 DEF Unmade
  <2>8. Slots
    BY <1>1, <2>3, <2>7 DEF Init, Slots
  <2>9. Kept
    BY <1>1, <2>3, ConstantsTyped DEF Init, Kept, NotMade, Started
  <2>10. Rest
    BY <1>1, <2>3, ConstantsTyped DEF Init, Rest, Filled, Started
  <2> QED
    BY <1>1, <2>1, <2>4, <2>5, <2>6, <2>8, <2>9, <2>10
       DEF Init, SInv, Sequential, Orderly, Survivable, Endable
<1>2. ASSUME SInv, [Next]_vars
      PROVE  SInv'
  <2>1. Struct' /\ Heard' /\ Parted'
    BY <1>2, StructStep, HeardStep, PartedStep DEF SInv
  <2>2. ASSUME overlap' = FALSE
        PROVE  Orderly' /\ Endable'
    <3>1. ASSUME overlap = FALSE
          PROVE  Struct /\ Parted /\ Orderly
      BY <1>2, <3>1 DEF SInv, Sequential
    <3>2. CASE UNCHANGED vars
      <4>1. overlap = FALSE /\ UNCHANGED <<down, mach, caught, beside>>
        BY <2>2, <3>2 DEF vars, hist, nodeVars
      <4>2. Endable
        BY <1>2, <4>1 DEF SInv
      <4> QED
        BY <3>1, <3>2, <4>1, <4>2, OrderlyWorld DEF Endable, ClosedBeside
    <3>3. CASE Next
      <4>0. down = "no"
        BY <3>3 DEF Next
      <4>1. CASE \/ \E v \in Contents, replaced \in BOOLEAN : Edit(v, replaced)
                 \/ Tick \/ Accept \/ Ignore
        <5>1. overlap' = overlap /\ down' = down
          BY <4>1 DEF Edit, Tick, Accept, Ignore, hist
        <5> QED
          BY <2>2, <3>1, <4>0, <4>1, <5>1, OrderlyWorld DEF Endable, Survivable
      <4>2. ASSUME NEW m \in Machines, GoesOn(m)
            PROVE  Orderly' /\ Endable'
        <5>1. overlap' = overlap /\ down' = down
          BY <1>2, <4>2, SyncState DEF SInv, Struct, Others, hist
        <5> QED
          BY <2>2, <3>1, <4>0, <4>2, <5>1, OrderlySync DEF Endable, Survivable
      <4>3. ASSUME NEW m \in Machines, GivesUp(m)
            PROVE  Orderly' /\ Endable'
        <5>1. overlap' = overlap
          BY <4>3 DEF GivesUp, DelNodePanics, AddNodePanics, hist
        <5> QED
          BY <2>2, <3>1, <4>3, <5>1, OrderlyGivesUp
      <4>4. ASSUME NEW r \in Reloads, Load(r)
            PROVE  Orderly' /\ Endable'
        <5>1. overlap = FALSE /\ down' = down
          BY <1>2, <2>2, <4>4, Typed DEF Load, SInv, Struct
        <5> QED
          BY <2>2, <3>1, <4>0, <4>4, <5>1, OrderlyLoad DEF Endable, Survivable
      <4>5. ASSUME NEW r \in Reloads, ReloadStep(r), ~Load(r)
            PROVE  Orderly' /\ Endable'
        <5>1. overlap' = overlap
          BY <4>5
             DEF ReloadStep, Skip, CloseMachine, CloseMachinePanics,
                 NodesClosed, CloseCore, NewCore, NewCoreFails, StartCore,
                 StartNodes, StartMachine, StartMachineFails, NodesStarted, hist
        <5>2. down \in Survivable
          BY <4>0 DEF Survivable
        <5> QED
          BY <2>2, <3>1, <4>5, <5>1, <5>2, OrderlyReload DEF Endable
      <4> QED
        BY <3>3, <4>1, <4>2, <4>3, <4>4, <4>5, Machinery DEF Next, WatchStep
    <3> QED
      BY <1>2, <3>2, <3>3
  <2> QED
    BY <2>1, <2>2 DEF SInv, Sequential
<1> QED
  BY <1>1, <1>2, PTL DEF Spec

(* Reloads that do not overlap leave no core open but that of the node,    *)
(* and no machine running but those the node has, on that core, wherever a *)
(* reload ends and with how many machines it may; the exception is a       *)
(* machine that was closed while its sync was under way (Node.Close,       *)
(* Node.Start, Machine.Close and the closure in cmd/server.go).            *)
THEOREM NothingLeftBehind == Spec => []OneGeneration
<1>1. ASSUME SInv, ~overlap
      PROVE  /\ open \subseteq {core}
             /\ \A m \in Machines \ caught :
                  mach[m].runs # "no" =>
                    m \in Held /\ mach[m].core = core /\ core \in open
  <2>1. Slots /\ Kept /\ open \subseteq {core} /\ TypeOK
    BY <1>1, Typed DEF SInv, Sequential, Orderly, Struct
  <2>2. ASSUME NEW m \in Machines \ caught, mach[m].runs # "no"
        PROVE  m \in Held /\ mach[m].core = core /\ core \in open
    <3>1. PICK n \in Numbers, j \in 1..Size : m = <<n, j>>
      BY DEF Machines
    <3>2. n = field /\ slices[n][j] = m /\ mach[m].core = core /\ core \in open
      BY <2>1, <2>2, <3>1 DEF Kept
    <3>3. field # 0
      BY <3>2, ConstantsTyped
    <3> QED
      BY <3>2, <3>3 DEF Held
  <2> QED
    BY <2>1, <2>2
<1>2. SInv => OneGeneration
  BY <1>1 DEF OneGeneration
<1> QED
  BY <1>2, Invariance, PTL

(* Reloads that do not overlap end the process only where no core could be *)
(* made, where an inbound is lost, or where Close and a monitor that is    *)
(* reloading a node meet: the monitor that dies is one of a machine that   *)
(* was closed beside it, or beside its sync.  None finds a machine of a    *)
(* core that is gone, a core that is not there, or a slice that is not     *)
(* there (cmd/server.go, node/node.go, node/machine.go, node/task.go).     *)
THEOREM ReloadsSurvive == Spec => []SurvivesReload
<1>1. SInv => SurvivesReload
  <2>1. SInv => (overlap = FALSE \/ overlap = TRUE)
    BY Typed DEF SInv, Struct
  <2> QED
    BY <2>1 DEF SInv, Endable, Survivable, SurvivesReload
<1> QED
  BY <1>1, Invariance, PTL

(* When all is done, the file's configuration is loaded, also after any    *)
(* number of changes and reloads that take long, unless a change came too  *)
(* soon after another one (the ten seconds of conf/watch.go) or after the  *)
(* file was replaced, which ends the watch; and after reloads that did not *)
(* overlap every machine the node has runs it.                             *)
THEOREM ChangesLoaded == Spec => []ChangeLoaded
<1>1. ASSUME SInv, down = "no", Settled, ~missed
      PROVE  /\ conf = file
             /\ ~overlap => \A m \in Held :
                  m # NoMachine /\ mach[m].conf = file /\ mach[m].runs # "no"
  <2>0. TypeOK /\ missed = FALSE
    BY <1>1, Typed DEF SInv, Struct
  <2>1. conf = file
    BY <1>1, <2>0 DEF SInv, Heard, Settled
  <2>2. ASSUME ~overlap, NEW m \in Held
        PROVE  m # NoMachine /\ mach[m].conf = file /\ mach[m].runs # "no"
    <3>1. Rest /\ Active = {} /\ field # 0 /\ field \in Numbers
      BY <1>1, <2>0, <2>2, Typed DEF SInv, Sequential, Orderly, Settled, Held
    <3>2. PICK j \in 1..Size : m = slices[field][j]
      BY <2>2, <3>1 DEF Held
    <3>3. Filled(j)
      BY <3>1, <3>2 DEF Rest
    <3>4. m = <<field, j>> /\ m \in Machines
      BY <3>1, <3>2, <3>3, ConstantsTyped DEF Filled
    <3> QED
      BY <2>1, <3>3, <3>4, ConstantsTyped DEF Filled
  <2> QED
    BY <2>1, <2>2
<1>2. SInv => ChangeLoaded
  BY <1>1 DEF ChangeLoaded
<1> QED
  BY <1>2, Invariance, PTL
=============================================================================
