SPECIFICATION Spec
CONSTANTS
  ADAPTERS <- Catalogue
  Shots <- AllShots
  Timeout = 4
  Interval = 1
  HttpTimeout = 2
INVARIANTS FalTypeOK ServesIsAccepted EndsInTime NotGivenUpEarly
PROPERTIES CallEnds ImplementsVendorCall
CHECK_DEADLOCK FALSE
