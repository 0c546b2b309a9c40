SPECIFICATION FairSpec
CONSTANTS
  MaxRegen = 2
  HitlChoices <- GateSets
  DisabledChoices <- OffSets
  StoredChoices <- SomeStored
  FwChoices <- AllClients
  MaxFaults = 1
  MaxReplays = 1
INVARIANT TypeOK
INVARIANT ArtRestsOnItsContract
INVARIANT FailingArtIsReviewed
PROPERTY ContractIsKept
PROPERTY ImplementsRunOrder
PROPERTY RunsStop
CHECK_DEADLOCK FALSE
