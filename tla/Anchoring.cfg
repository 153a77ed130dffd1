SPECIFICATION Spec
CONSTANTS
  Anchorings = {"a", "b", "c"}
  Prices = {1, 2}
INVARIANTS AnchorTypeOK NoNonceGap OnlyOverlappingDisplace
PROPERTY AnchoringsSettle
CHECK_DEADLOCK FALSE
