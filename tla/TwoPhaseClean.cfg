CONSTANTS
  Dn = {d1, d2, d3}
  Coord = c
  LocalWrites = {TRUE, FALSE}
  Prompt = TRUE
  CancelSync = FALSE
  MaxCrashes = 2
  MaxFails = 1
SPECIFICATION Spec
INVARIANTS TypeOK Agreement OutcomeAsTold EvidenceKept CommittedIndeed
PROPERTIES Resolved ImplementsAtomicCommit
