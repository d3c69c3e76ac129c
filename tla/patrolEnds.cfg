SPECIFICATION FairSpec
CONSTANTS
  Items = {i1, i2, i3}
  Tasks = {p1}
  None = None
  RunModes = {"TASK_MODE", "REMOTE_CONTROL_MODE"}
  Requests = {"rotation","uss","currentProtect","noOperation","lowBattery","clearCharge"}
  ViewPoints = {1}
  MaxPiles = 1
  HomeFirst = FALSE
  DbMayFail = FALSE
PROPERTIES PatrolEnds ImplementsScheduler
