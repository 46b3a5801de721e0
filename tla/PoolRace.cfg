CONSTANTS
  Threads = {t1, t2}
  Requested = {"slipstream"}
  MaxContexts = 1
SPECIFICATION SharedSpec
INVARIANT StageEarned
