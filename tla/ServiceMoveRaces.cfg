CONSTANTS
  Introducers <- TwoManagers
  Names <- MCNames
  Rules <- MoveRules
  Keys = {"key1"}
  Values = {"value0", "value1"}
  Threads <- MCThreads
  Calls <- TwoPutsAndGet
  Operators <- MoveInstalls
  Viewers = {v1}
  OnDisk <- FileAt1
  Faulty = {}
  NoThread = NoThread
  Addressees <- ClientNames
  Home = Nowhere
  MaxRestarts = 0
  MaxForwards = 2
  Crashing = {}
  MaxCrashes = 0
  MaxAtOnce = 3
SPECIFICATION ServiceSpec
CHECK_DEADLOCK FALSE
INVARIANTS
  GetsReturnTheFile
  GetViewAnswers
PROPERTIES
  FilesSurvive
  ClientsKeepRunning
