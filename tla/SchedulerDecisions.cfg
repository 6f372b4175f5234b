CONSTANTS
  Introducers <- MCIntroducers
  Names <- MCNames
  Keys = {"key1", "key2"}
  Rules = {}
  Threads = {}
  Engines <- OneEngine
  MasterViews <- GrowingViews
  Refreshes <- GrowingViews
  Tasks <- MCTasks
  NoFile = "none"
  Pending = {0, 2}
  MaxScheduled = 2
SPECIFICATION SchedulerSpec
CHECK_DEADLOCK FALSE
INVARIANTS
  DecisionsNameEngines
