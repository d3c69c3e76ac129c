-------------------------- MODULE MCPatrolCommands --------------------------
(* Viewpoints for the model checker. *)
EXTENDS PatrolCommands

Views1 == << [ pos |-> 1, has |-> {"pic"} ] >>

Views2 == << [ pos |-> 1, has |-> {"pic"} ], [ pos |-> 2, has |-> {"pic"} ] >>

\* The second viewpoint asks for everything.
ViewsAll == << [ pos |-> 1, has |-> {"pic"} ],
               [ pos |-> 2, has |-> {"pic", "pdd", "vid"} ] >>
=============================================================================
