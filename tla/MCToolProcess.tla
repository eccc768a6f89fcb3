--------------------------- MODULE MCToolProcess ---------------------------
(* Small instances of ToolProcess: a leader and its descendants. *)
EXTENDS ToolProcess

CONSTANT leader
=============================================================================
