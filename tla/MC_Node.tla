------------------------------ MODULE MC_Node ------------------------------
(* The instance of Controller with the history Node is about. *)
EXTENDS ControllerNode, MC_Controller
=============================================================================
