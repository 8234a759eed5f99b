\* One administrator in the bot, two things at a time, the others anywhere.
CONSTANTS
  Category = {1}
  Product = {1, 2}
  Slot = {s1, s2}
  MaxRuns = 1
  NoState = NoState
  None = None
  Idle = Idle
SPECIFICATION Spec
SYMMETRY Symmetry
INVARIANTS DataFitsState FilesWhereSent NoOrphans
CHECK_DEADLOCK FALSE
