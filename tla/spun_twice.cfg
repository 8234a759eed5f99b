\* Two customers, two codes, two things at a time.
CONSTANTS
  User = {ann, bob}
  Code = {c, d}
  Slot = {s1, s2}
  MaxGifts = 2
  Player = {ann}
  NoState = NoState
  None = None
  Idle = Idle
SPECIFICATION Spec
SYMMETRY Symmetry
INVARIANT OneSpin
CHECK_DEADLOCK FALSE
