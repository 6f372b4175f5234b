CONSTANTS
  Introducers <- TwoManagers
  Names <- MCNames
  Rules <- CopyRules
  Keys = {"key1"}
  Values = {"value0", "value1"}
  Threads <- MCThreads
  Calls <- OneGet
  Operators <- CopyInstalls
  Viewers = {}
  OnDisk <- FileAt1
  Faulty = {}
  NoThread = NoThread
  Addressees <- ClientNames
  Home = Nowhere
  MaxRestarts = 0
  MaxForwards = 2
  Crashing = {}
  MaxCrashes = 0
  MaxAtOnce = 1
SPECIFICATION ServiceSpec
CHECK_DEADLOCK FALSE
INVARIANTS
  ViewsMissNothing
