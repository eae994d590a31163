SPECIFICATION SceneSpec
CONSTANTS
  w1 = w1
  w2 = w2
  r1 = r1
  r2 = r2
  g1 = g1
  g2 = g2
  Writers = {w1, w2}
  MaxGen = 3
  MaxSize = 1
  MaxEpoch = 3
  Scenes = {"reader_failed"}
INVARIANTS
  ReceiptBeforeBytes
CHECK_DEADLOCK FALSE
