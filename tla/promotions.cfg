\* Two customers, two codes, two things at a time.
CONSTANTS
  User = {ann, bob}
  Code = {c, d}
  Slot = {s1, s2}
  MaxGifts = 3
  Player = {ann}
  NoState = NoState
  None = None
  Idle = Idle
SPECIFICATION Spec
SYMMETRY Symmetry
INVARIANTS CodeAsTyped AmountForTarget GiftsLimited
CHECK_DEADLOCK FALSE
