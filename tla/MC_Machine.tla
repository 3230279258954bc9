----------------------------- MODULE MC_Machine -----------------------------
(* A small machine, and every reading of its kernel in a few bits. *)
EXTENDS Machine, MachineStatus

(* While a machine runs, and whatever its kernel says, the panel is never  *)
(* told that more is used than there is; and while the counts only grow    *)
(* the CPU's share is the true one.  (Where the idle count goes back it is *)
(* told 0, not all.)                                                       *)
StatusSound == ~exited => \A part \in DOMAIN Misreported : Misreported[part] = {}

=============================================================================
