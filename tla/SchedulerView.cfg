CONSTANTS
  Introducers <- MCIntroducers
  Names <- MCNames
  Keys = {"key1", "key2"}
  Rules = {}
  Threads = {}
  Engines <- OneEngine
  MasterViews <- FullViews
  Refreshes = {}
  Tasks <- MCTasks
  NoFile = "none"
  Pending = {0}
  MaxScheduled = 0
SPECIFICATION LiveSchedulerSpec
CHECK_DEADLOCK FALSE
PROPERTIES
  EnginesBecomeSchedulable
