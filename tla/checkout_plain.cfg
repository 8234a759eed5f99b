\* No discount code: two customers, two workers, one digital product and one
\* physical variant of which one unit is left.
CONSTANTS
  User = {u1, u2}
  Worker = {w1, w2}
  Digital = {d}
  Physical = {v}
  Code = {}
  NoCode = NoCode
  Stock <- MCScarce
  MaxUses <- MCMaxUses
  Purse <- MCPurse
  ShipCost = 1
  CartTotal <- MCCartTotal
  DiscountOff <- MCDiscountOff
  Ship = {TRUE, FALSE}
  Switchable = {}
  Idle = Idle
  NoOrder = NoOrder
  MaxRow = 3
  MaxOrder = 2
  MaxQty = 1
SPECIFICATION Spec
SYMMETRY Symmetry
INVARIANTS RowSoldOnce StockExact OneOrderPerKey NoCartLost
