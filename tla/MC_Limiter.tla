----------------------------- MODULE MC_Limiter -----------------------------
(* A small limiter. *)
EXTENDS Limiter, TLC

(* One device; its user's speed changes, which passes through his deletion. *)
Slow == {[device |-> 1, speed |-> 1]}
Fast == {[device |-> 1, speed |-> 2]}
Both == Slow \cup Fast

(* Goroutines, maps and addresses are interchangeable. *)
Symmetry == Permutations(Checks) \cup Permutations(Maps) \cup Permutations(IPs)

(* What is in a map that nothing refers to is never read. *)
Observed ==
  <<info, online, [m \in Maps |-> IF InUse(m) THEN ips[m] ELSE {}], old, alive,
    bucket, chk, rep, upd, hist>>

=============================================================================
