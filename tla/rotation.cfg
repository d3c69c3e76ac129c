SPECIFICATION Spec
CONSTANTS
  Tasks <- AllTasks
  Type <- TypeOf
  Unit <- DayOf
  Period <- PeriodOf
  Start <- StartOf
  End <- EndOf
  Viewed <- WithViewpoints
  Lists <- ListsOfServer
  Lead = 1
  LastTime = 12
INVARIANTS TypeOK CreatedIsPromised PeriodicOnce PromisedIsCreated
CHECK_DEADLOCK FALSE
