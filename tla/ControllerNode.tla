--------------------------- MODULE ControllerNode ---------------------------
(***************************************************************************)
(* Controller implements Node, as long as one goroutine runs the monitor:  *)
(* with the history of what the panel held, of the response each request   *)
(* got, and of the one the inbound was made from.  (Two monitors may add   *)
(* their nodes in the wrong order.)                                        *)
(***************************************************************************)
EXTENDS Controller, Sequences

VARIABLES
  asked,     \* the configurations the panel has held
  fetched,   \* the place in asked of the latest new response
  newest     \* the place of the newest configuration an inbound was made from

historyVars == <<asked, fetched, newest>>

(* The inbound the controller has made, if any.  (A Start that fails after *)
(* AddNode leaves one behind that is nobody's; a reload back to its tag    *)
(* finds it there until AddNode replaces it.)                              *)
Making == \E m \in Monitors : mon[m].pc \in {"limiter", "cert", "addnode"}

Running == IF ctl \in {"addusers", "tasks", "up", "closing", "delnode"} /\ ~Making
           THEN inbounds[tag].cfg ELSE None

InitHistory == asked = <<panelNode>> /\ fetched = 0 /\ newest = 0

(* A request for the node is answered with something new. *)
Fetching ==
  \/ ctl # "user" /\ ctl' = "user"
  \/ \E m \in Monitors : mon[m].pc = "wait" /\ mon'[m].node # None

(* An inbound is added. *)
Adding ==
  \/ ctl = "addnode" /\ ctl' = "addusers"
  \/ \E m \in Monitors : mon[m].pc = "addnode" /\ mon'[m].pc = "addusers"

History ==
  /\ asked'   = IF panelNode' = panelNode THEN asked ELSE Append(asked, panelNode')
  /\ fetched' = IF Fetching THEN Len(asked) ELSE fetched
  /\ newest'  = IF Adding THEN fetched ELSE newest

HistoryInit == Init /\ InitHistory
HistoryNext == Next /\ History

HistorySpec == HistoryInit /\ [][HistoryNext]_<<vars, historyVars>> /\ Fairness

Up == ctl \in {"up", "closing", "delnode"}

(* A response that cannot be decoded, or that is followed by a failure to  *)
(* get the users, counts as seen: it is never applied.  A failure to get a *)
(* certificate leaves no inbound.                                          *)
Losing == Faults \cap {"decode", "user", "cert"} # {}

Promise == INSTANCE Node WITH Configurations <- NodeCfgs, MayLose <- Losing,
                              up <- Up, runs <- Running

(* The node's inbound only ever goes forward through the configurations    *)
(* the panel has held: no failed request, no change in the middle of a     *)
(* reload, no restart brings an older one back or resets it for nothing.   *)
RunsForward == Promise!Spec

=============================================================================
