CONSTANTS
  Introducers <- MCIntroducers
  Names <- MCNames
  Keys = {"key1", "key2"}
  Rules = {}
  Threads = {}
  Engines <- ThreeEngines
  MasterViews <- GrowingViews
  Refreshes <- GrowingViews
  Tasks <- MCTasks
  NoFile = "none"
  Pending = {0, 2}
  MaxScheduled = 2
SPECIFICATION LiveSchedulerSpec
CHECK_DEADLOCK FALSE
INVARIANTS
  SchedulerTypeOK
  SchedulableEnginesAreComplete
  ThreadEndsBeforeStop
PROPERTIES
  SchedulableEnginesStay
  KeepsRunning
  StopReturns
