SPECIFICATION ImageSpec
CONSTANTS
  Views <- ViewsAll
  HomeFirst = TRUE
  ArmLiftMoving = TRUE
  Over = "OVER_STAND_STILL"
  Pile = 3
  DbMayFail = FALSE
  MaxPreempts = 1
  ReachRetries = 1
  LiftChecks = 2
  RotateChecks = 2
  MaxQueue = 1
INVARIANTS ImageTypeOK RecordedFirst FailureHasCause VerdictAfterAll
PROPERTIES PhotoInPlace OwnPhoto ImplementsReport
CHECK_DEADLOCK FALSE
