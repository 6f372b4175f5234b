CONSTANTS
  Introducers <- TwoManagers
  Names <- MCNames
  Rules <- ClearRules
  Keys = {"key1"}
  Values = {"value0", "value1"}
  Threads <- MCThreads
  Calls <- OnePut
  Operators <- ClearInstalls
  Viewers = {}
  OnDisk <- NoFiles
  Faulty = {}
  NoThread = NoThread
  Addressees <- ClientNames
  Home = Nowhere
  MaxRestarts = 0
  MaxForwards = 2
  Crashing = {}
  MaxCrashes = 0
  MaxAtOnce = 1
SPECIFICATION ServiceSpec
CHECK_DEADLOCK FALSE
PROPERTIES
  ClientsKeepRunning
