CONSTANTS
  s1 = s1
  s2 = s2
  Starts = {s1, s2}
  Calls = {c1, c2, c3}
  Of <- OfTheFirst
  Steps = 3
  Gate = 3
  Cap = 1
  MaxFaults = 1
  MaxMonths = 1
SPECIFICATION Spec
SYMMETRY Symmetry
INVARIANT TypeOK
INVARIANT NoStartPastTheCap
INVARIANT SettledRunIsNotRunning
INVARIANT UnloggedSpendIsShown
CHECK_DEADLOCK FALSE
