CONSTANTS
  Threads = {t1}
  Requested = {"slipstream", "dependent_types", "ultimate_type_safe"}
  MaxContexts = 1
SPECIFICATION SerialSpec
PROPERTY LevelRises
