CONSTANTS
  Introducers <- OnePort
  Names <- MCNames
  Rules <- MCRules
  Keys = {"key1"}
  Threads = {t1, t2}
  NoThread = NoThread
  Addressees <- ClientNames
  MaxRestarts = 0
  MaxForwards = 1
SPECIFICATION MasterSpec
PROPERTY PeerTrackerThreadSafe
