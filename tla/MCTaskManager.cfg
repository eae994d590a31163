SPECIFICATION BoundedSpec
CONSTANTS
  Tasks = {t1}
  Nodes = {n1}
  MaxAttempts = 2
  MaxRevision = 7
  MaxSessions = 2
INVARIANTS
  ExportOutcomeTruthful
  NoBlindRetry
  UncertainEffectQuarantined
  RecoveringCovered
  NoStaleAuthority
  NothingLeftBehind
PROPERTIES
  ImplementsLedger
CHECK_DEADLOCK FALSE
