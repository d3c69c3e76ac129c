---------------------- MODULE MoveTaskManageScheduler ----------------------
(***************************************************************************)
(* MoveTaskManage implements PriorityScheduler: its roots are the queues,  *)
(* the commands from curIter on are what a group has left to do, and the   *)
(* last run mode the scan has seen is the mode in force.                   *)
(***************************************************************************)
EXTENDS MoveTaskManage

\* The commands of group c from curIter on; a group that has not been started
\* has all of them left.
Remaining(c) ==
  IF Emptied(c) THEN 0
  ELSE IF c.at = 0 THEN Len(c.cmds) ELSE Len(c.cmds) - c.at + 1

Scheduler ==
  INSTANCE PriorityScheduler WITH
    Groups    <- Items,
    queue     <- rootTasks,
    left      <- [i \in Items |-> Remaining(item[i])],
    running   <- curTaskItem,
    automatic <- { i \in Items : item[i].type \in AutomaticType },
    mode      <- lastRunMode

\* Whatever the threads do between two steps of a round, the scheduler behaves
\* as queues with priorities: no group overtakes one that mode and obstacles
\* let go, works out of turn or after it was cancelled, or goes unfinished.
ImplementsScheduler == Scheduler!Spec
=============================================================================
