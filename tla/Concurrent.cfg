SPECIFICATION Spec
CONSTANTS
  ADAPTERS <- StubFirst
  Names = {"aria"}
  Requests = {1, 2, 3, 4}
  Ceilings = {0}
  Scale = 2000
  None = None
  Workload <- ConcurrentWorkload
  Payments = {"p1", "p2"}
  Metered = TRUE
  ThreadLimit = 2
  MaxFaults = 1
  Price = 1
  Retirable = {"aria"}
INVARIANTS TypeOK JournalLinked AcknowledgedIsJournaled PaidGenerations KeyShownOnce
PROPERTIES EveryRequestAnswered AtomicUnlessOvertaken
CHECK_DEADLOCK FALSE
