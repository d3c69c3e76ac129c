SPECIFICATION Spec
CONSTANTS
  Views <- Views2
  HomeFirst = FALSE
  ArmLiftMoving = TRUE
  Over = "OVER_TO_BEGINNING"
  Pile = 3
  DbMayFail = FALSE
  MaxPreempts = 0
  ReachRetries = 0
  LiftChecks = 2
  RotateChecks = 2
PROPERTIES DrivesFolded
CHECK_DEADLOCK FALSE
