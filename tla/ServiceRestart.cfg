CONSTANTS
  Introducers <- TwoClients
  Names <- MCNames
  Rules <- BothRules
  Keys = {"key1"}
  Values = {"value0", "value1"}
  Threads <- MCThreads
  Calls <- PutHereGetThere
  Operators <- SplitInstalls
  Viewers = {}
  OnDisk <- NoFiles
  Faulty = {}
  NoThread = NoThread
  Addressees <- ClientNames
  Home <- Manager1
  MaxRestarts = 1
  MaxForwards = 2
  Crashing <- TheClient
  MaxCrashes = 1
  MaxAtOnce = 2
SPECIFICATION ServiceSpec
CHECK_DEADLOCK FALSE
INVARIANTS
  MasterInv
  ServiceTypeOK
  ViewsShowOnlyFiles
  ClientsRouteTrue
PROPERTIES
  ActsAsFileStore
