SPECIFICATION Spec
CONSTANTS
  n1 = n1
  x1 = x1
  Names = {n1, n2}
  Texts = {x1}
  Contracts = {k1}
  Threads = {c1, c2}
  None = None
  FirstStyles <- Seeded
  MaxVersion = 3
  MaxFaults = 1
SYMMETRY StylesSymmetry
INVARIANT TypeOK
INVARIANT StrandedIsReported
PROPERTY WritesWhatWasShown
CHECK_DEADLOCK FALSE
