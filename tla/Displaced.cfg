SPECIFICATION Spec
CONSTANTS
  Anchorings = {"a", "b", "c"}
  Prices = {1, 2}
INVARIANT ReturnedHashesStand
CHECK_DEADLOCK FALSE
