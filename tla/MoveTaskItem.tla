---------------------------- MODULE MoveTaskItem ----------------------------
(***************************************************************************)
(* An action group (MoveTaskItem): the commands it still has, the command  *)
(* curIter points at, whether it has been activated, and whether it still  *)
(* holds a registered TakePicException.  A command is abstracted to its    *)
(* kind, and the state of the command under curIter to _exeRet.            *)
(*                                                                         *)
(* In the code a freed group loses its memory; here an identity that is in *)
(* no queue carries the Blank record.                                      *)
(***************************************************************************)
EXTENDS Integers, Sequences, Functions

CONSTANTS Tasks,  \* identities of MoveTask objects that hold a patrol
          None    \* the NULL pointer

ASSUME NoneIsNoTask == None \notin Tasks

ItemType ==
  { "NO_ITEM", "MANUAL_CHARGE_ITEM", "LOW_BATTERY_CHARGE_ITEM",
    "PATRO_PLAN_CHARGE_ITEM", "PATRO_PLAN_ITEM", "MOVE_CONTROL_ITEM",
    "POSITION_PLAN_ITEM", "POWER_ON_PLAN_ITEM" }

\* The groups the motor lock leaves in the manual queue.
PatrolType == { "PATRO_PLAN_ITEM", "PATRO_PLAN_CHARGE_ITEM" }

\* The groups of the manual queue that task mode runs and an obstacle stops.
AutomaticType == PatrolType \cup { "POWER_ON_PLAN_ITEM" }

\* Motion stands for every command that drives the hardware and may need
\* many calls of exec; the others are told apart by what they change.
CommandKind ==
  { "Motion", "Lock", "SetSpeed", "SQLOperation", "SQLInsert", "SQLInsertLast" }

\* ST_SUCCESS and ST_FAIL are one value: run never tells them apart.
ExeRet == { "ST_SLEEP", "ST_GOING", "ST_DONE" }

MoveTaskItem ==
  [ type   : ItemType,
    task   : Tasks \cup {None},
    cmds   : Seq(CommandKind),
    at     : Nat,                \* curIter, 0 while it is indeterminate
    ret    : ExeRet,
    active : BOOLEAN,            \* m_isActive
    except : BOOLEAN ]           \* m_exceptionVect is not empty

NewItem(type, task, cmds, except) ==
  [ type |-> type, task |-> task, cmds |-> cmds, at |-> 0,
    ret |-> "ST_SLEEP", active |-> FALSE, except |-> except ]

Blank == NewItem("NO_ITEM", None, <<>>, FALSE)

-----------------------------------------------------------------------------
(* The groups the producers build. *)

ChargeItem(type, task) == NewItem(type, task, <<"Motion">>, FALSE)

MoveControlItem(kind) == NewItem("MOVE_CONTROL_ITEM", None, <<kind>>, FALSE)

PositionPlanItem == NewItem("POSITION_PLAN_ITEM", None, <<"Motion">>, FALSE)

PowerOnItem == NewItem("POWER_ON_PLAN_ITEM", None, <<"Motion">>, FALSE)

\* The first group of a patrol opens its execution record.
PatrolHead(task) ==
  NewItem("PATRO_PLAN_ITEM", task, <<"SetSpeed", "SQLOperation">>, FALSE)

\* A group per viewpoint; the last one also writes the verdict, and work
\* (image recognition, folding the arm) follows the record.
ViewPointItem(task, last) ==
  NewItem("PATRO_PLAN_ITEM", task,
          << "Motion", IF last THEN "SQLInsertLast" ELSE "SQLInsert",
             "Motion" >>, TRUE)

ReturnItem(task) == NewItem("PATRO_PLAN_ITEM", task, <<"Motion">>, FALSE)

-----------------------------------------------------------------------------
(* Operations on one group. *)

Emptied(c) == c.cmds = <<>>

\* Fault: curIter is not rewound.
initStatusParaKeepsIter(c) == [ c EXCEPT !.ret = "ST_SLEEP" ]

initStatusPara(c) ==
  IF Emptied(c) THEN c ELSE [ c EXCEPT !.at = 1, !.ret = "ST_SLEEP" ]

\* What curIter pointed at is gone.
clearCommands(c) ==
  [ c EXCEPT !.cmds = <<>>, !.at = 0, !.ret = "ST_SLEEP" ]

exceptionsExit(c) == [ c EXCEPT !.active = FALSE, !.except = FALSE ]
=============================================================================
