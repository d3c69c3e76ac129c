SPECIFICATION Spec
CONSTANTS
  Items = {i1, i2}
  Tasks = {p1}
  None = None
  RunModes = {"REMOTE_CONTROL_MODE", "HANDLE_CONTROL_MODE"}
  Requests = {"move", "setRunMode", "updateInfo"}
  ViewPoints = {1}
  MaxPiles = 0
  HomeFirst = FALSE
  DbMayFail = FALSE
PROPERTIES ModeChangeStops
