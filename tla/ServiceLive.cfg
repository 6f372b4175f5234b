CONSTANTS
  Introducers <- TwoManagers
  Names <- MCNames
  Rules <- CopyAndFallRules
  Keys = {"key1"}
  Values = {"value0", "value1"}
  Threads <- MCThreads
  Calls <- PutAndGet
  Operators <- CopyAndFallInstalls
  Viewers = {}
  OnDisk <- FileAt1
  Faulty = {}
  NoThread = NoThread
  Addressees <- ClientNames
  Home = Nowhere
  MaxRestarts = 0
  MaxForwards = 3
  Crashing <- CopierAndClient
  MaxCrashes = 1
  MaxAtOnce = 2
SPECIFICATION LiveServiceSpec
CHECK_DEADLOCK FALSE
PROPERTIES
  CallsReturn
