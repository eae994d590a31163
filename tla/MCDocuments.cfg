SPECIFICATION SceneSpec
CONSTANTS
  Snapshots = {"s1", "s2"}
  Contracts = {"c0", "c1", "c2"}
  ContractsOf <- SharedContract
  Scopes = {"user"}
  Decisions = {"d1"}
  MaxFence = 1
  MaxRevision = 2
  MaxOutside = 4
  Scenes = {"registry", "programs", "graphs", "bundle", "envelopes", "identity"}
INVARIANTS
  RepairKeepsDecisions
  ValidatorSound
  LoadedIsDeclared
  ConformanceSound
CHECK_DEADLOCK FALSE
