SPECIFICATION Spec
CONSTANTS
  Workers = {w1, w2, w3}
  Runs = {r1}
  None = None
  NGates = 2
  LateGates = {2}
  Choices <- ApproveReject
  MaxItems = 2
  MaxInterrupts = 2
  MaxFaults = 1
  MaxReplays = 1
SYMMETRY WorkerSymmetry
INVARIANT TypeOK
INVARIANT UniqueOpenRow
INVARIANT ExclusiveClaim
INVARIANT AuditTrailAgrees
INVARIANT AnswersInterruptOnce
INVARIANT NoDecisionLostWithoutFault
CHECK_DEADLOCK FALSE
