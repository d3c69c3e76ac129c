SPECIFICATION FairSpec
CONSTANTS
  Radars = {"FRONT", "DOWN"}
  Motors = {"WALK"}
  MotorErrors = {0, 7}
  HomingError = 5
  Positions = {0, 2}
  DbMayFail = FALSE
  Kinds = {"CH4", "ULTRA_FRONT"}
  CountLimit = 2
  Interval = 3
  MaxLag = 1
INVARIANTS WarningTypeOK FlagsFollowRadar StandsAfterLimit
PROPERTIES AlarmNeedsCount ObstacleGone StandingIsAlarmed
