-------------------------------- MODULE Task --------------------------------
(***************************************************************************)
(* The periodic task of common/task/task.go: Start spawns a goroutine that *)
(* waits for its ticker or for the stop channel, runs Execute and waits    *)
(* again; Close closes the stop channel.  The goroutine reads the FIELD    *)
(* t.stop anew at every select, outside the mutex, so what it waits on is  *)
(* whatever Start last stored there.                                       *)
(*                                                                         *)
(* Every periodic job of the program is one of these: the machine's sync   *)
(* and status tasks, a controller's monitor, report and renewal tasks.     *)
(* Their owners call Close and Start from any goroutine, that of the task  *)
(* itself included (a poll that finds a new interval restarts its task).   *)
(***************************************************************************)
EXTENDS Naturals

CONSTANTS
  Loops,         \* goroutines that may be alive at once (bounds the model)
  MaxStarts      \* how often Start makes a channel (bounds the model)

ASSUME TaskAssumption == MaxStarts \in Nat

VARIABLES
  running,   \* t.running, guarded by t.access
  stop,      \* t.stop: the number of the channel last made
  closed,    \* the channels that have been closed
  loop,      \* the goroutines: where each one is, and the channel it waits on
  failed     \* whether an Execute has returned an error (for the properties)

vars == <<running, stop, closed, loop, failed>>

NoChan   == 0                     \* the nil channel of a task never started
Channels == 0..MaxStarts

(***************************************************************************)
(* "gone": no such goroutine; "select": about to evaluate the select's     *)
(* channels; "wait": blocked in the select; "exec": inside Execute.        *)
(***************************************************************************)
LoopState == [pc : {"gone", "select", "wait", "exec"}, ch : Channels]

At(pc)   == [pc |-> pc, ch |-> NoChan]
Live     == {l \in Loops : loop[l].pc # "gone"}

(* The flag, the channels and every goroutine's place have the values      *)
(* task.go can give them.                                                  *)
TypeOK ==
  /\ running \in BOOLEAN
  /\ stop \in Channels
  /\ closed \subseteq Channels
  /\ loop \in [Loops -> LoopState]
  /\ failed \in BOOLEAN

Init ==
  /\ running = FALSE
  /\ stop = NoChan
  /\ closed = {}
  /\ loop = [l \in Loops |-> At("gone")]
  /\ failed = FALSE

-----------------------------------------------------------------------------
(* Mutant of Start: the channel is made once and used again. *)
StartReusesChannel(l, first) ==
  /\ ~running
  /\ stop < MaxStarts
  /\ loop[l].pc = "gone"
  /\ running' = TRUE
  /\ stop' = IF stop = NoChan THEN stop + 1 ELSE stop
  /\ loop' = [loop EXCEPT ![l] = At(IF first THEN "exec" ELSE "select")]
  /\ UNCHANGED <<closed, failed>>

(* Task.Start(first): a no-op while running; otherwise a new channel and a *)
(* new goroutine, which runs Execute before its first select when asked.   *)
Start(l, first) ==
  /\ ~running
  /\ stop < MaxStarts
  /\ loop[l].pc = "gone"
  /\ running' = TRUE
  /\ stop' = stop + 1
  /\ loop' = [loop EXCEPT ![l] = At(IF first THEN "exec" ELSE "select")]
  /\ UNCHANGED <<closed, failed>>

(* Mutant of Close: the flag is cleared, the channel left open. *)
CloseLeavesChannel ==
  /\ running
  /\ running' = FALSE
  /\ UNCHANGED <<stop, closed, loop, failed>>

(* Mutant of Close: the channel is closed, the flag left set. *)
CloseKeepsRunning ==
  /\ running
  /\ closed' = closed \cup {stop}
  /\ UNCHANGED <<running, stop, loop, failed>>

(* Task.Close: a no-op unless running. *)
Close ==
  /\ running
  /\ running' = FALSE
  /\ closed' = closed \cup {stop}
  /\ UNCHANGED <<stop, loop, failed>>

(* The select evaluates <-t.stop with the field's current value. *)
EnterSelect(l) ==
  /\ loop[l].pc = "select"
  /\ loop' = [loop EXCEPT ![l] = [pc |-> "wait", ch |-> stop]]
  /\ UNCHANGED <<running, stop, closed, failed>>

(* The ticker's case is taken; it may be taken even when the other case is *)
(* ready, since the select picks among ready cases at random.              *)
Tick(l) ==
  /\ loop[l].pc = "wait"
  /\ loop' = [loop EXCEPT ![l] = At("exec")]
  /\ UNCHANGED <<running, stop, closed, failed>>

(* Mutant of Stopped: the stop case breaks out of the select only, and the *)
(* goroutine is lost track of.                                             *)
StoppedOnlyLeavesSelect(l) ==
  /\ loop[l].pc = "wait"
  /\ loop[l].ch \in closed
  /\ loop' = [loop EXCEPT ![l] = At("stopped")]
  /\ UNCHANGED <<running, stop, closed, failed>>

(* The stop case is taken: the goroutine returns. *)
Stopped(l) ==
  /\ loop[l].pc = "wait"
  /\ loop[l].ch \in closed
  /\ loop' = [loop EXCEPT ![l] = At("gone")]
  /\ UNCHANGED <<running, stop, closed, failed>>

(* Execute returns nil. *)
Return(l) ==
  /\ loop[l].pc = "exec"
  /\ loop' = [loop EXCEPT ![l] = At("select")]
  /\ UNCHANGED <<running, stop, closed, failed>>

(* Mutant of Fail: the goroutine returns without clearing the flag. *)
FailKeepsRunning(l) ==
  /\ loop[l].pc = "exec"
  /\ loop' = [loop EXCEPT ![l] = At("gone")]
  /\ failed' = TRUE
  /\ UNCHANGED <<running, stop, closed>>

(* Execute returns an error: the goroutine marks the task not running, and *)
(* leaves the channel open.                                                *)
Fail(l) ==
  /\ loop[l].pc = "exec"
  /\ running' = FALSE
  /\ loop' = [loop EXCEPT ![l] = At("gone")]
  /\ failed' = TRUE
  /\ UNCHANGED <<stop, closed>>

Next ==
  \/ Close
  \/ \E l \in Loops :
       \/ \E first \in BOOLEAN : Start(l, first)
       \/ EnterSelect(l)
       \/ Tick(l)
       \/ Stopped(l)
       \/ Return(l)
       \/ Fail(l)

Spec == Init /\ [][Next]_vars

(***************************************************************************)
(* A goroutine is scheduled, its ticker fires, and Execute returns (every  *)
(* request it makes has a timeout).  The select picks at random among the  *)
(* ready cases, so a case ready again and again is taken at last.  Nobody  *)
(* is obliged to call Start or Close.                                      *)
(***************************************************************************)
Fairness ==
  \A l \in Loops :
    /\ WF_vars(EnterSelect(l))
    /\ WF_vars(Tick(l))
    /\ WF_vars(Return(l))
    /\ SF_vars(Stopped(l))

FairSpec == Spec /\ Fairness

-----------------------------------------------------------------------------
(* A running task's channel is open and was made by a Start, so that the   *)
(* close(t.stop) of Close closes neither a nil nor a closed channel (both  *)
(* panic, in a goroutine nobody recovers), whatever the order of the       *)
(* Starts, Closes and failed Executes.                                     *)
CloseNeverPanics == running => stop # NoChan /\ stop \notin closed

(* A running task has a goroutine that the next Close will reach: one that *)
(* waits on the current channel or will read it.  Old goroutines leaving   *)
(* late never leave a "running" task with nobody to run it.                *)
RunningHasLoop ==
  running => \E l \in Live : loop[l].pc = "wait" => loop[l].ch = stop

(* While no Execute has failed (none of this program's does) no goroutine  *)
(* waits on an abandoned channel, one that is neither the current one nor  *)
(* closed: Close always reaches it.  (A failing goroutine leaves its       *)
(* channel open for another one that waits on it.)                         *)
NoAbandonedLoop ==
  ~failed => \A l \in Loops :
    loop[l].pc = "wait" => loop[l].ch = stop \/ loop[l].ch \in closed

(* A task closed and never started again ends with no goroutine: also the  *)
(* ones that were inside Execute when their channel was replaced.          *)
ClosedTaskEnds == <>[](~running /\ ~failed) => <>[](Live = {})

(* A task that stays running keeps executing. *)
RunningTaskExecutes == []<>(~running \/ \E l \in Loops : loop[l].pc = "exec")

=============================================================================
