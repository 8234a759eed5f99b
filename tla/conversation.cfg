CONSTANTS
  User = {ann}
  MaxOrders = 2
  MaxTopUps = 1
  MaxTasks = 2
  NoState = NoState
  NoOrder = NoOrder
  Nobody = Nobody
  Idle = Idle
SPECIFICATION FairSpec
INVARIANTS TypeOK ReceiptHasPurpose
PROPERTIES DecisionStands ReceiptArrives
CHECK_DEADLOCK FALSE
