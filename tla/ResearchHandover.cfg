SPECIFICATION ResearchSpec
CONSTANTS
  Workers = {w1, w2}
  Runs = {r1}
  None = None
  NGates = 1
  LateGates = {}
  Choices <- ApproveReject
  MaxItems = 2
  MaxInterrupts = 1
  MaxFaults = 1
  MaxReplays = 0
  Slugs = {s1, s2}
  NoSlug = NoSlug
  MaxSlips = 1
SYMMETRY ResearchSymmetry
INVARIANT ResearchTypeOK
INVARIANT NoRunStallsSilently
INVARIANT ApprovedDraftIsStored
CHECK_DEADLOCK FALSE
