CONSTANTS
  Introducers <- TwoManagers
  Names <- MCNames
  Rules <- MoveAndOddRules
  Keys = {"key1"}
  Values = {"value0", "value1"}
  Threads <- MCThreads
  Calls <- PutAndGet
  Operators <- MoveAndOddInstalls
  Viewers = {}
  OnDisk <- FileAt1
  Faulty = {}
  NoThread = NoThread
  Addressees <- ClientNames
  Home = Nowhere
  MaxRestarts = 0
  MaxForwards = 5
  Crashing = {}
  MaxCrashes = 0
  MaxAtOnce = 1
SPECIFICATION ServiceSpec
CHECK_DEADLOCK FALSE
INVARIANTS
  ViewsMissNothing
  ViewsShowOnlyFiles
