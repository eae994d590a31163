SPECIFICATION SceneSpec
CONSTANTS
  e1 = e1
  e2 = e2
  e3 = e3
  Tasks = {"t1", "t2"}
  Ids = {e1, e2, e3}
  States = {"CREATED", "READY"}
  MaxLength = 3
  PageSize = 1
  MaxDamage = 0
  Scenes = {"journal_log", "journal", "schema_opens", "schema_damage", "providers",
    "providers_repair", "providers_claims"}
SYMMETRY Symmetry
INVARIANTS
  DamageIsFound
  ExportsVerify
  OpensSoundly
  ProvidersAreProven
PROPERTIES
  JournalIsLog
  UpgradesKeepRecords
CHECK_DEADLOCK FALSE
