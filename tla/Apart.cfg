SPECIFICATION ApartSpec
CONSTANTS
  ADAPTERS <- StubFirst
  Names = {"aria", "bob"}
  Requests = {1, 2, 3, 4, 5}
  Ceilings = {}
  Scale = 2000
  None = None
  Workload <- ApartWorkload
  Payments = {}
  Metered = FALSE
  ThreadLimit = 2
  MaxFaults = 1
  Price = 1
  Retirable = {}
INVARIANTS IssuedKeysStayValid RejectionHolds OutcomesCounted
PROPERTIES ImplementsAtomicBrand TwiceFailedIsAvoided
CHECK_DEADLOCK FALSE
