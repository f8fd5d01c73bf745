SPECIFICATION Spec
CONSTANTS
  None = None
  Roots <- MCRoots
  SealedSplit = TRUE
  MaxFaults = 1
  Configured = {"rollout", "analyze", "mutate", "validate"}
  MaxInvocations = 5
  MaxEdits = 1
  EditDuringVerbs = FALSE
INVARIANTS InstallIsAtomic BoundaryHolds PaidJobsKept EvidenceIsCurrent CommittedWasAdmitted
CHECK_DEADLOCK FALSE
