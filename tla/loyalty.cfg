\* Two handlers, one of which may die, and every kind of event.
CONSTANTS
  ann = ann
  eve = eve
  o1 = o1
  o2 = o2
  User = {ann}
  Guest = {eve}
  Order = {o1, o2}
  Worker = {w1, w2}
  Buyer <- MCBuyer
  Final <- MCFinal
  Shipping <- MCShipping
  Base <- MCBase
  Tiers <- MCTiers
  Rate = 1
  MaxPerOrder = 3
  RegBonus = 1
  RefBonus = 1
  Invitations <- MCInvitations
  Lot = 1
  LotValue = 2
  MinRedeem = 1
  Corrections <- MCCorrections
  Mortal = {w2}
  Idle = Idle
  MaxEntry = 1
SPECIFICATION FairSpec
INVARIANTS TypeOK LedgerChain EventOnce StateIsLedger RejectedEarnsNothing
PROPERTIES HandlerAwards
