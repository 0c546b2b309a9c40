SPECIFICATION Spec
CONSTANTS
  Workers = {w1, w2}
  Runs = {r1}
  None = None
  NGates = 2
  LateGates = {2}
  Choices <- ApproveReject
  MaxItems = 3
  MaxInterrupts = 3
  MaxFaults = 0
  MaxReplays = 0
SYMMETRY WorkerSymmetry
INVARIANT InterruptAnsweredOnce
CHECK_DEADLOCK FALSE
