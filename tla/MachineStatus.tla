--------------------------- MODULE MachineStatus ---------------------------
(***************************************************************************)
(* The figures of node/machine_status_linux.go: what a machine reports of  *)
(* itself, computed in unsigned integers from what the kernel says at two  *)
(* moments.  The idle count takes in iowait, which the kernel lets go      *)
(* back, a disk's blocks and their size multiply to what may not fit, and  *)
(* two status tasks (the task is restarted from within the sync) may leave *)
(* the two halves of the last sample from different moments.               *)
(***************************************************************************)
EXTENDS Naturals

CONSTANTS
  Values,   \* how many values an unsigned integer has: 2^64
  Absent    \* a line /proc/meminfo does not have

ASSUME StatusAssumption == Values \in Nat \ {0}

Word == 0..Values - 1
Minus(a, b) == (a + Values - b) % Values
Plus(a, b)  == (a + b) % Values
Times(a, b) == (a * b) % Values
AtMost(a, b) == IF a > b THEN b ELSE a

(* Mutant of Cpu: the difference of the idle counts is taken as it is. *)
CpuUnclamped(lastTotal, lastIdle, total, idle) ==
  LET t == Minus(total, lastTotal) IN
  IF total > lastTotal THEN [total |-> t, used |-> Minus(t, Minus(idle, lastIdle))]
                       ELSE [total |-> 1, used |-> 0]

(* The share of the CPU's time that was not idle, as a fraction. *)
Cpu(lastTotal, lastIdle, total, idle) ==
  LET t == Minus(total, lastTotal) IN
  IF total > lastTotal
  THEN [total |-> t, used |-> Minus(t, AtMost(Minus(idle, lastIdle), t))]
  ELSE [total |-> 1, used |-> 0]

(* The memory available, as an old kernel has it computed. *)
Available(m) ==
  LET sum == Plus(Plus(Plus(m.free, m.buffers), m.cached), m.reclaimable) IN
  IF m.available # Absent THEN m.available
  ELSE IF m.shmem > 0 /\ sum > m.shmem THEN Minus(sum, m.shmem) ELSE sum

Memory(m) == [total |-> m.total, used |-> Minus(m.total, AtMost(Available(m), m.total))]

Disk(blocks, free, size) ==
  LET total == Times(blocks, size) IN
  [total |-> total, used |-> Minus(total, AtMost(Times(free, size), total))]

-----------------------------------------------------------------------------
Sound(r) == r.used <= r.total

(* The readings of the CPU, the memory and the disk that are misreported.  *)
Misreported ==
  [cpu    |-> {c \in [lastTotal : Word, lastIdle : Word, total : Word, idle : Word] :
                 LET cpu   == Cpu(c.lastTotal, c.lastIdle, c.total, c.idle)
                     ticks == c.total - c.lastTotal
                     idle  == c.idle - c.lastIdle IN
                 \/ ~Sound(cpu)
                 \/ /\ ticks > 0 /\ idle \in 0..ticks
                    /\ cpu # [total |-> ticks, used |-> ticks - idle]},
   memory |-> {m \in [total : Word, available : Word \cup {Absent}, free : Word,
                      buffers : {0, 1}, cached : Word, reclaimable : {0, 1},
                      shmem : Word] : ~Sound(Memory(m))},
   disk   |-> {d \in [blocks : Word, free : Word, size : Word] :
                 ~Sound(Disk(d.blocks, d.free, d.size))}]

=============================================================================
