\* A discount code in the call splits the transaction of checkout_cart.
CONSTANTS
  User = {u1}
  Worker = {w1}
  Digital = {}
  Physical = {v}
  Code = {c}
  NoCode = NoCode
  Stock <- MCScarce
  MaxUses <- MCMaxUses
  Purse <- MCPurse
  ShipCost = 0
  CartTotal <- MCCartTotal
  DiscountOff <- MCDiscountOff
  Ship = {TRUE, FALSE}
  Switchable = {}
  Idle = Idle
  NoOrder = NoOrder
  MaxRow = 2
  MaxOrder = 2
  MaxQty = 1
SPECIFICATION Spec
INVARIANTS NoCartLost
