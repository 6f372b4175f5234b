CONSTANTS
  Introducers <- TwoManagers
  Names <- MCNames
  Rules <- BothRules
  Keys = {"key1"}
  Values = {"value0", "value1"}
  Threads <- MCThreads
  Calls <- TwoPutsAndGet
  Operators <- BothInstalls
  Viewers = {}
  OnDisk <- NoFiles
  Faulty <- Refusing
  NoThread = NoThread
  Addressees <- ClientNames
  Home = Nowhere
  MaxRestarts = 0
  MaxForwards = 2
  Crashing <- Managers
  MaxCrashes = 1
  MaxAtOnce = 2
SPECIFICATION ServiceSpec
CHECK_DEADLOCK FALSE
INVARIANTS
  ViewsMissNothing
PROPERTIES
  ClientsKeepRunning
  MasterSpec
