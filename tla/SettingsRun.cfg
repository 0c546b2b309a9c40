SPECIFICATION Spec
CONSTANTS
  Threads = {c1, c2}
  Models <- TwoModels
  Requests <- SomeRequests
  None = None
  Tables <- OneRow
  MaxFaults = 1
  MaxRestarts = 1
SYMMETRY SettingsSymmetry
INVARIANT TypeOK
INVARIANT RefusedPatchChangesNothing
INVARIANT CacheShowsTable
PROPERTY WriteKeepsOtherFields
PROPERTY NoLongGoneModel
CHECK_DEADLOCK FALSE
