SPECIFICATION Spec
CONSTANTS
  Users = {u1, u2}
  Threads = {c1, c2}
  Tokens = {t1}
  None = None
  Called = {"run_detail", "run_replay", "agent_config"}
  MaxFaults = 1
SYMMETRY AccountsSymmetry
INVARIANT TypeOK
INVARIANT ChangesReachTheTrail
PROPERTY LastAdminOnlyByOverlap
CHECK_DEADLOCK FALSE
