\* Two threads at a time in two processes, a bot and the panel (the bots use settings alike).
\* A copy lives until the next tick, and a thread may wait for as long as one tick.
CONSTANTS
  Worker = {w1, w2}
  Telegram = bot
  Bale = bot
  Panel = panel
  TTL = 0
  Wait = 1
  Dated = "switch"
  NoCopy = NoCopy
  NoCall = NoCall
SPECIFICATION SettingsSpec
SYMMETRY Symmetry
INVARIANT StaleBounded
