--------------------------- MODULE MCImageProcess ---------------------------
(* The viewpoints of MCPatrolCommands beside the recognition. *)
EXTENDS ImageProcessManager, MCPatrolCommands
=============================================================================
