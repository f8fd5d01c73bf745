SPECIFICATION Spec
CONSTANTS
  None = None
  NameOrder <- MCNameOrder
  SeedOrder <- MCSeedOrder
  Ratios <- MCRatios
  Seeds <- MCSeeds
  Candidates <- MCCandidates
  GateLimit = 0
  Purposes = {"candidate", "anchor"}
  Limits = {None, 1}
  Repetitions = 1
  PartialFloor = 60
  TimeoutZero = TRUE
  FinalTimeout = FALSE
  Kinds = {"pass", "fail", "agent_timeout", "verifier_timeout", "candidate", "exception", "no_reward", "network_timeout", "dependency"}
  MaxEdits = 1
  MaxFaults = 1
INVARIANTS RunsPinnedTasks VerdictIsEarned NothingLeftBehind
CHECK_DEADLOCK FALSE
