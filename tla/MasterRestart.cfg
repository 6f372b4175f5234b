CONSTANTS
  Introducers <- TwoPorts
  Names <- MCNames
  Rules <- MCRules
  Keys = {"key1"}
  Threads = {t1, t2}
  NoThread = NoThread
  Addressees <- ClientNames
  MaxRestarts = 1
  MaxForwards = 1
SPECIFICATION MasterSpec
SYMMETRY MCSymmetry
INVARIANTS
  MasterTypeOK
  OrphansComeFromOldRules
  GetViewAnswers
  RoutesAreTrue
