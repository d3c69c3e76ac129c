SPECIFICATION FairSpec
CONSTANTS
  Views <- Views1
  HomeFirst = FALSE
  ArmLiftMoving = TRUE
  Over = "OVER_CHARGE"
  Pile = 3
  DbMayFail = TRUE
  MaxPreempts = 1
  ReachRetries = 2
  LiftChecks = 1
  RotateChecks = 1
PROPERTIES PatrolOver
CHECK_DEADLOCK FALSE
