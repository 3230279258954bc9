-------------------------------- MODULE Node --------------------------------
(***************************************************************************)
(* What a node promises the panel, whatever it goes through.  The panel    *)
(* holds one configuration after another; the node's inbound runs one of   *)
(* them or none.  A node that is up only ever goes forward: it puts on a   *)
(* configuration newer than every one it has run, so that it neither falls *)
(* back to an old one nor resets an inbound that need not change.  (Where  *)
(* a configuration may be lost on its way, or its inbound not be made, the *)
(* panel may return to the one before: only then is an inbound made again  *)
(* as it was.)  A node that starts may put on again what it had.           *)
(***************************************************************************)
EXTENDS Sequences, Naturals

CONSTANTS
  Configurations, None,
  MayLose  \* whether a configuration that was asked for may come to nothing

VARIABLES
  asked,   \* the configurations the panel has held, the latest last
  up,      \* whether the node has been started
  runs,    \* the configuration the inbound runs, or None
  newest   \* the place in asked of the newest configuration it ever ran

nodeVars == <<asked, up, runs, newest>>

Init ==
  /\ \E c \in Configurations : asked = <<c>>
  /\ up = FALSE /\ runs = None /\ newest = 0

Ask(c) ==
  /\ c # asked[Len(asked)]
  /\ asked' = Append(asked, c)
  /\ UNCHANGED <<up, runs, newest>>

(* The inbound is up: the node runs a configuration the panel has held.    *)
PutOn(i) ==
  /\ IF up THEN runs = None /\ i > newest /\ (MayLose \/ asked[i] # asked[newest])
           ELSE i >= newest
  /\ runs' = asked[i] /\ newest' = i
  /\ UNCHANGED <<asked, up>>

TakeOff ==
  /\ runs # None
  /\ runs' = None
  /\ UNCHANGED <<asked, up, newest>>

(* Started, closed, or dead. *)
Started == ~up /\ runs # None /\ up' = TRUE /\ UNCHANGED <<asked, runs, newest>>
Stopped == up /\ up' = FALSE /\ runs' \in {runs, None} /\ UNCHANGED <<asked, newest>>

Next ==
  \/ \E c \in Configurations : Ask(c)
  \/ \E i \in 1..Len(asked) : PutOn(i)
  \/ TakeOff \/ Started \/ Stopped

Spec == Init /\ [][Next]_nodeVars

=============================================================================
