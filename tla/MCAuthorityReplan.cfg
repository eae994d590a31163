SPECIFICATION SceneSpec
CONSTANTS
  c1 = c1
  c2 = c2
  Handles = {"h1"}
  MaxTime = 2
  MaxRevision = 7
  MaxEpoch = 2
  MaxAdjust = 1
  StartWall = 1
  Tolerance = 1
  Grants = {"g1"}
  Lifetime = 1
  Caps = {2, 3}
  Scenes = {"replan"}
INVARIANTS
  ReplannedCanProceed
CHECK_DEADLOCK FALSE
