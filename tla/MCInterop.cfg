CONSTANTS
  MaxRebuilds = 1
  MaxDrops = 1
  MaxFailures = 1
  MaxBehind = 0
  Builds <- MixedBuilds
SPECIFICATION Spec
INVARIANTS
  TypeOK
  LossReportedOnce
  RosterInSync
  CandidatesAfterDescription
  RebuildsBounded
PROPERTIES
  WorkingLinkKept
  Settles
CHECK_DEADLOCK FALSE
