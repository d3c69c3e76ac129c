SPECIFICATION Spec
CONSTANTS
  Items = {i1, i2, i3, i4}
  Tasks = {p1}
  None = None
  RunModes = {"REMOTE_CONTROL_MODE"}
  Requests = {"taskNow", "move"}
  ViewPoints = {1}
  MaxPiles = 0
  HomeFirst = FALSE
  DbMayFail = FALSE
INVARIANTS CancelledPatrolCloses
