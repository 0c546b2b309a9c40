SPECIFICATION FairSpec
CONSTANTS
  Workers = {w1, w2}
  Runs = {r1}
  None = None
  NGates = 2
  LateGates = {2}
  Choices <- ApproveOnly
  MaxItems = 6
  MaxInterrupts = 2
  MaxFaults = 1
  MaxReplays = 0
PROPERTY QueueSurfacesGate
PROPERTY ImplementsLedger
PROPERTY RollbackReopensGate
CHECK_DEADLOCK FALSE
