CONSTANTS
  t1 = t1
  t2 = t2
  Tasks = {t1, t2}
  Asked <- MCAsked
  Verdicts = {"timeout"}
  Inherited = 1
  MaxCalls = 3
SPECIFICATION ClientSpec
SYMMETRY TaskSymmetry
INVARIANTS ClientTypeOK ResultsTellTheTruth NotFoundIsGone OncePerCall StatusesMoveOn
CHECK_DEADLOCK FALSE
