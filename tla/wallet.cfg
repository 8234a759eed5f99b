\* A worker and another one, which may die; two invited customers buy, one of them may
\* have two inviters.
\* CHECK_DEADLOCK is off: every order and every top-up can be decided.
CONSTANTS
  ann = ann
  bob = bob
  eve = eve
  o1 = o1
  o2 = o2
  User = {ann, bob, eve}
  Order = {o1, o2}
  TopUp = {t1}
  Worker = {w1, w2}
  NoOne = NoOne
  Link <- MCLink
  Buyer <- MCBuyer
  Commission <- MCCommission
  MaxCommissions = 1
  Bonus = 3
  MaxBonuses = 1
  Threshold = 1
  Owner <- MCOwner
  Amount <- MCAmount
  Mortal = {w2}
  Idle = Idle
SPECIFICATION FairSpec
INVARIANTS PaidOnce BonusesLimited FreeProductLimited CreditExplained PaidForSomething
PROPERTIES InviterStands HandlerSettles
CHECK_DEADLOCK FALSE
