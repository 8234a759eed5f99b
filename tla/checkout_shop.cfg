\* One customer, two workers, a code that is used with a checkout or not, and a product
\* an administrator may withdraw. Workers inside checkout_cart go on unless they crash.
CONSTANTS
  User = {u1}
  Worker = {w1, w2}
  Digital = {}
  Physical = {v}
  Code = {c}
  NoCode = NoCode
  Stock <- MCStock
  MaxUses <- MCMaxUses
  Purse <- MCPurse
  ShipCost = 0
  CartTotal <- MCCartTotal
  DiscountOff <- MCDiscountOff
  Ship = {TRUE}
  Switchable = {v}
  Idle = Idle
  NoOrder = NoOrder
  MaxRow = 2
  MaxOrder = 2
  MaxQty = 2
SPECIFICATION FairSpec
INVARIANTS TypeOK WalletConserved CodeUseExact
PROPERTIES EveryCallAnswered ImplementsShop
