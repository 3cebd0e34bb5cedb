SPECIFICATION Spec
CONSTANTS
  Thread = {t1, t2}
  Owner = owner
  Importer = {app}
  Provider = amsi
  Methods = {"inline"}
  LoadMax = 2
  GateMax = 2
  DepthMax = 2
  RemoveMax = 1
  MayFail = FALSE
INVARIANTS LoaderRefreshes
CHECK_DEADLOCK FALSE
