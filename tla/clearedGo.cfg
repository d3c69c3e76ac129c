SPECIFICATION FairSpec
CONSTANTS
  Items = {i1, i2, i3}
  Tasks = {p1}
  None = None
  RunModes = {"REMOTE_CONTROL_MODE"}
  Requests = {"goto","taskNow","antiDischarge","manulCharge","updateInfo"}
  ViewPoints = {1}
  MaxPiles = 0
  HomeFirst = TRUE
  DbMayFail = TRUE
INVARIANTS HeadsOnly
PROPERTIES ClearedGroupsGo
