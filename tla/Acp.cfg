SPECIFICATION Spec
CONSTANTS
  Jobs = {1, 2, 3}
  Requirement <- Asked
  Keys = {"aria", "session"}
  Limit = 2
  Testnet = "false"
  ProviderMayReject = TRUE
  MaxEdits = 1
  MaxFaults = 1
  None = None
INVARIANTS AcpTypeOK DeliveredAsFunded JournaledGrantsDelivered GrantLossesAreFaults
PROPERTIES ReleasedOnlyIfConsistent HandledJobsMove
CHECK_DEADLOCK FALSE
