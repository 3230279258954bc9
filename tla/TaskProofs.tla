------------------------------ MODULE TaskProofs ------------------------------
(***************************************************************************)
(* Proofs about Task: for any number of goroutines and of restarts, Close  *)
(* never panics, a running task has a goroutine that the next Close will   *)
(* reach, and (until an Execute fails, which none of this program does) no *)
(* goroutine is left waiting on a channel that nobody will close.          *)
(***************************************************************************)
EXTENDS Task, TLAPS

(* Channels are made by Start and closed by Close: only channels that were *)
(* made are closed, and the channel of a running task is open.             *)
ChannelInv ==
  /\ TypeOK
  /\ closed \subseteq 1..stop
  /\ CloseNeverPanics

(* Before an Execute fails the channel of a task not running is closed, or *)
(* was never made, and then there is no goroutine either.                  *)
LoopInv ==
  /\ ~running => stop = NoChan \/ stop \in closed
  /\ stop = NoChan => Live = {}
  /\ \A l \in Loops :
       loop[l].pc = "wait" => loop[l].ch = stop \/ loop[l].ch \in closed

LoopInvUntilFailed == ~failed => LoopInv

IInv == ChannelInv /\ RunningHasLoop

-----------------------------------------------------------------------------
(* The channel facts are inductive. *)
LEMMA ChannelInvStep ==
  ASSUME ChannelInv, [Next]_vars
  PROVE  ChannelInv'
<1>0. /\ running \in BOOLEAN /\ stop \in 0..MaxStarts
      /\ closed \subseteq 1..stop /\ loop \in [Loops -> LoopState]
      /\ failed \in BOOLEAN
      /\ running => stop # 0 /\ stop \notin closed
  BY DEF ChannelInv, TypeOK, CloseNeverPanics, Channels, NoChan
<1>1. CASE Close
  <2>1. /\ running' = FALSE /\ stop' = stop /\ loop' = loop /\ failed' = failed
        /\ stop \in 1..stop /\ closed' = closed \cup {stop}
    BY <1>0, <1>1, TaskAssumption DEF Close
  <2> QED
    BY <1>0, <2>1, TaskAssumption
       DEF ChannelInv, TypeOK, CloseNeverPanics, Channels
<1>2. ASSUME NEW l \in Loops, NEW first \in BOOLEAN, Start(l, first)
      PROVE  ChannelInv'
  <2>1. running' = TRUE /\ stop' = stop + 1 /\ stop < MaxStarts /\ closed' = closed
        /\ failed' = failed
    BY <1>2 DEF Start
  <2>2. stop' \in 0..MaxStarts /\ stop' # 0 /\ stop' \notin closed
        /\ closed \subseteq 1..stop'
    BY <1>0, <2>1, TaskAssumption
  <2>3. loop' \in [Loops -> LoopState]
    BY <1>0, <1>2, TaskAssumption DEF Start, At, NoChan, LoopState, Channels
  <2> QED
    BY <2>1, <2>2, <2>3, TaskAssumption
       DEF ChannelInv, TypeOK, CloseNeverPanics, Channels, NoChan
<1>3. ASSUME NEW l \in Loops, EnterSelect(l) \/ Tick(l) \/ Stopped(l) \/ Return(l)
      PROVE  ChannelInv'
  <2>1. UNCHANGED <<running, stop, closed, failed>>
    BY <1>3 DEF EnterSelect, Tick, Stopped, Return
  <2>2. loop' \in [Loops -> LoopState]
    BY <1>0, <1>3, TaskAssumption
       DEF EnterSelect, Tick, Stopped, Return, At, NoChan, LoopState, Channels
  <2> QED
    BY <2>1, <2>2 DEF ChannelInv, TypeOK, CloseNeverPanics
<1>4. ASSUME NEW l \in Loops, Fail(l)
      PROVE  ChannelInv'
  <2>1. running' = FALSE /\ failed' = TRUE /\ UNCHANGED <<stop, closed>>
    BY <1>4 DEF Fail
  <2>2. loop' \in [Loops -> LoopState]
    BY <1>0, <1>4, TaskAssumption DEF Fail, At, NoChan, LoopState, Channels
  <2> QED
    BY <2>1, <2>2 DEF ChannelInv, TypeOK, CloseNeverPanics
<1>5. CASE UNCHANGED vars
  BY <1>5 DEF vars, ChannelInv, TypeOK, CloseNeverPanics
<1> QED  BY <1>1, <1>2, <1>3, <1>4, <1>5 DEF Next

LEMMA ChannelInvInit ==
  ASSUME Init PROVE ChannelInv
<1>1. 0 \in Channels /\ At("gone") \in LoopState
  BY TaskAssumption DEF Channels, NoChan, LoopState, At
<1>2. TypeOK
  BY <1>1 DEF Init, TypeOK, NoChan
<1>3. CloseNeverPanics /\ closed \subseteq 1..stop
  BY DEF Init, CloseNeverPanics
<1> QED
  BY <1>2, <1>3 DEF ChannelInv

(* A running task keeps a goroutine that is reading, or will read, the     *)
(* current channel: the one a stop case removes waited on a closed one.    *)
LEMMA RunningHasLoopStep ==
  ASSUME IInv, [Next]_vars
  PROVE  RunningHasLoop'
<1> USE DEF IInv, RunningHasLoop, Live
<1> SUFFICES ASSUME running'
             PROVE  \E l \in Loops :
                      /\ loop'[l].pc # "gone"
                      /\ loop'[l].pc = "wait" => loop'[l].ch = stop'
  OBVIOUS
<1>0. loop \in [Loops -> LoopState]
  BY DEF ChannelInv, TypeOK
<1>1. ASSUME NEW l \in Loops, NEW first \in BOOLEAN, Start(l, first)
      PROVE  loop'[l].pc \in {"exec", "select"}
  BY <1>0, <1>1 DEF Start, At
<1>2. ASSUME running, stop' = stop,
             NEW m \in Loops, NEW s \in LoopState,
             loop' = [loop EXCEPT ![m] = s],
             s.pc # "gone", s.pc = "wait" => s.ch = stop
      PROVE  \E l \in Loops : /\ loop'[l].pc # "gone"
                              /\ loop'[l].pc = "wait" => loop'[l].ch = stop'
  BY <1>0, <1>2
<1>3. ASSUME NEW m \in Loops, EnterSelect(m) \/ Tick(m) \/ Return(m)
      PROVE  \E l \in Loops : /\ loop'[l].pc # "gone"
                              /\ loop'[l].pc = "wait" => loop'[l].ch = stop'
  <2>1. /\ running /\ stop' = stop
        /\ stop \in Channels
    BY <1>3 DEF EnterSelect, Tick, Return, ChannelInv, TypeOK
  <2>2. PICK s \in {[pc |-> "wait", ch |-> stop], At("exec"), At("select")} :
             loop' = [loop EXCEPT ![m] = s]
    BY <1>3 DEF EnterSelect, Tick, Return
  <2>3. At("exec") \in LoopState /\ At("select") \in LoopState
    BY TaskAssumption DEF At, LoopState, Channels, NoChan
  <2>4. s \in LoopState /\ s.pc # "gone" /\ (s.pc = "wait" => s.ch = stop)
    BY <2>1, <2>2, <2>3 DEF At, LoopState
  <2> QED  BY <1>2, <2>1, <2>2, <2>4
<1>4. ASSUME NEW m \in Loops, Stopped(m)
      PROVE  \E l \in Loops : /\ loop'[l].pc # "gone"
                              /\ loop'[l].pc = "wait" => loop'[l].ch = stop'
  <2>1. running /\ stop' = stop /\ stop \notin closed
    BY <1>4 DEF Stopped, ChannelInv, CloseNeverPanics
  <2>2. PICK l \in Loops : /\ loop[l].pc # "gone"
                           /\ loop[l].pc = "wait" => loop[l].ch = stop
    BY <2>1
  <2>3. l # m
    BY <1>4, <2>1, <2>2 DEF Stopped
  <2> QED  BY <1>0, <1>4, <2>1, <2>2, <2>3 DEF Stopped
<1>5. CASE Close
  BY <1>5 DEF Close
<1>6. ASSUME NEW l \in Loops, Fail(l)
      PROVE  FALSE
  BY <1>6 DEF Fail
<1>7. CASE UNCHANGED vars
  BY <1>7 DEF vars
<1> QED  BY <1>1, <1>3, <1>4, <1>5, <1>6, <1>7 DEF Next

LEMMA IInvStep == IInv /\ [Next]_vars => IInv'
BY ChannelInvStep, RunningHasLoopStep DEF IInv

LEMMA IInvInit == Init => IInv
BY ChannelInvInit DEF IInv, Init, RunningHasLoop

-----------------------------------------------------------------------------
(* The task's state is always well typed. *)
THEOREM TypeCorrect == Spec => []TypeOK
<1>1. Init => ChannelInv            BY ChannelInvInit
<1>2. ChannelInv /\ [Next]_vars => ChannelInv'
                                    BY ChannelInvStep
<1>3. ChannelInv => TypeOK          BY DEF ChannelInv
<1> QED                             BY <1>1, <1>2, <1>3, PTL DEF Spec

(* However Starts, Closes and failing Executes interleave, close(t.stop)   *)
(* is applied to an open channel that a Start made.                        *)
THEOREM CloseIsSafe == Spec => []CloseNeverPanics
<1>1. Init => ChannelInv            BY ChannelInvInit
<1>2. ChannelInv /\ [Next]_vars => ChannelInv'
                                    BY ChannelInvStep
<1>3. ChannelInv => CloseNeverPanics
                                    BY DEF ChannelInv
<1> QED                             BY <1>1, <1>2, <1>3, PTL DEF Spec

(* A running task always has a goroutine that waits on the current channel *)
(* or is going to read it.                                                 *)
THEOREM RunningIsServed == Spec => []RunningHasLoop
<1>1. IInv => RunningHasLoop        BY DEF IInv
<1> QED                             BY <1>1, IInvInit, IInvStep, PTL DEF Spec

-----------------------------------------------------------------------------
LEMMA LoopInvStep ==
  ASSUME ChannelInv, LoopInv, [Next]_vars, ~failed'
  PROVE  LoopInv'
<1> USE DEF LoopInv, Live, NoChan
<1>0. loop \in [Loops -> LoopState] /\ stop \in Nat
  BY TaskAssumption DEF ChannelInv, TypeOK, Channels
<1>1. CASE Close
  BY <1>0, <1>1 DEF Close, ChannelInv, CloseNeverPanics
<1>2. ASSUME NEW l \in Loops, NEW first \in BOOLEAN, Start(l, first)
      PROVE  LoopInv'
  <2>1. running' /\ stop' # NoChan
    BY <1>0, <1>2 DEF Start
  <2>2. ASSUME NEW m \in Loops, loop'[m].pc = "wait"
        PROVE  loop'[m].ch \in closed'
    BY <1>0, <1>2, <2>2 DEF Start, At
  <2> QED  BY <2>1, <2>2
<1>3. ASSUME NEW l \in Loops,
             EnterSelect(l) \/ Tick(l) \/ Stopped(l) \/ Return(l)
      PROVE  LoopInv'
  BY <1>0, <1>3 DEF EnterSelect, Tick, Stopped, Return, At
<1>4. CASE UNCHANGED vars
  BY <1>4 DEF vars
<1> QED  BY <1>1, <1>2, <1>3, <1>4 DEF Next, Fail

(* Failing is for good: no step forgets it. *)
LEMMA FailedStays ==
  ASSUME [Next]_vars, failed PROVE failed'
BY DEF Next, vars, Close, Start, EnterSelect, Tick, Stopped, Return, Fail

(* As long as no Execute returns an error (none in this program does),     *)
(* every goroutine that waits, waits on the current channel or on a closed *)
(* one: a Close is never lost on it.                                       *)
THEOREM NoLoopAbandoned == Spec => []NoAbandonedLoop
<1> DEFINE Inv == ChannelInv /\ LoopInvUntilFailed
<1>1. ASSUME Init PROVE Inv
  <2>1. \A l \in Loops : loop[l].pc = "gone"
    BY <1>1 DEF Init, At
  <2>2. LoopInv
    BY <1>1, <2>1 DEF Init, LoopInv, Live
  <2> QED
    BY <1>1, <2>2, ChannelInvInit DEF LoopInvUntilFailed
<1>2. ASSUME Inv, [Next]_vars PROVE Inv'
  <2>1. ChannelInv'
    BY <1>2, ChannelInvStep
  <2>2. ASSUME ~failed' PROVE LoopInv'
    BY <1>2, <2>2, LoopInvStep, FailedStays DEF LoopInvUntilFailed
  <2> QED
    BY <2>1, <2>2 DEF LoopInvUntilFailed
<1>3. Inv => NoAbandonedLoop
  BY DEF LoopInvUntilFailed, LoopInv, NoAbandonedLoop
<1> QED
  BY <1>1, <1>2, <1>3, PTL DEF Spec
=============================================================================
