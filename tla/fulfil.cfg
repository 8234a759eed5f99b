\* Two administrators, every stage, stock that is counted anew and corrected.
CONSTANTS
  o1 = o1
  o2 = o2
  Order = {o1, o2}
  Admin = {a1, a2}
  Qty <- MCQty
  Received = 3
  Levels = {0, 4}
  Deltas <- MCDeltas
  Targets = {"packed", "shipped", "delivered", "cancelled"}
  Free = Free
SPECIFICATION FulfillmentSpec
SYMMETRY Symmetry
INVARIANTS FulfillmentTypeOK NothingStuck ReservedExact DecisionsTruthful
