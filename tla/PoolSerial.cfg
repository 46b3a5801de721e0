CONSTANTS
  Threads = {t1, t2}
  Requested = {"slipstream", "ultimate_type_safe"}
  MaxContexts = 2
SPECIFICATION SerialSpec
SYMMETRY ThreadSymmetry
INVARIANT StageEarned
INVARIANT PointersStayValid
PROPERTY LifecycleImplemented
