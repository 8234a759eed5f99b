\* An owner and another account, two administrators of the web, two things at a time.
CONSTANTS
  Telegram = {o, a}
  Owner = o
  Web = {w, x}
  MaxTickets = 1
  MaxMessages = 2
  Slot = {s1, s2}
  None = None
  Idle = Idle
SPECIFICATION Spec
SYMMETRY Symmetry
INVARIANTS OwnerStays AnsweredClaimed NoneSkipped
CHECK_DEADLOCK FALSE
