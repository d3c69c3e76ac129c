SPECIFICATION Spec
CONSTANTS
  Items = {i1, i2, i3}
  Tasks = {p1}
  None = None
  RunModes = {"TASK_MODE", "REMOTE_CONTROL_MODE", "HANDLE_CONTROL_MODE"}
  Requests = {"move","lock","unlock","positionPlan","rotation","setRunMode","ageing"}
  ViewPoints = {2}
  MaxPiles = 0
  HomeFirst = FALSE
  DbMayFail = FALSE
INVARIANTS TypeOK HeadsOnly RunHasCommand
PROPERTIES NothingRuns FailIsFinal StartedViewpointCloses ImplementsScheduler
CHECK_DEADLOCK FALSE
