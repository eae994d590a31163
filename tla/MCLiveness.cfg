SPECIFICATION FairSpec
CONSTANTS
  Outs = {"o1"}
  Pubs = {"p1", "p2"}
  Imports = {}
  Contents = {"c1"}
  OutOf <- SameOutput
  ContentOf <- SameContent
  MaxDamage = 0
  MaxCrash = 1
  Scenes = {"manager", "staging", "publication", "host"}
INVARIANTS
  PublicationSafe
PROPERTIES
  UnknownReachesQuarantine
  FinishCompletes
  PendingSettles
  
CHECK_DEADLOCK FALSE
