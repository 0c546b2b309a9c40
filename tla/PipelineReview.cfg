SPECIFICATION Spec
CONSTANTS
  MaxRegen = 2
  HitlChoices <- DefaultGates
  DisabledChoices <- AllOn
  StoredChoices <- ActiveStored
  FwChoices <- NoClient
  MaxFaults = 0
  MaxReplays = 1
INVARIANT ReplayKeepsReview
CHECK_DEADLOCK FALSE
